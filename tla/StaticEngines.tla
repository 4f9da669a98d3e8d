---------------------------- MODULE StaticEngines ----------------------------
(***************************************************************************)
(* The static checks of the crypto and distributed engines, side by side:  *)
(* they share the workspace they read and no state, so a run of one of     *)
(* them at a time shows what each of them can do.                          *)
(***************************************************************************)
EXTENDS RustFacts, EconomicChecks, CryptoRules, SupplyChain, CircomCheck, Halo2Check

VARIABLE engine
Engines == {"facts", "economic", "rules", "supply", "circom", "halo2"}
staticVars == <<engine, factVars, econVars, ruleVars, supplyVars, circomVars, zkVars>>

StaticInit ==
    /\ engine \in Engines
    /\ FactsInit /\ EconInit /\ RulesInit /\ SupplyInit /\ CircomInit /\ Halo2Init

StaticNext ==
    /\ UNCHANGED engine
    /\ \/ engine = "facts" /\ FactsNext /\ UNCHANGED <<econVars, ruleVars, supplyVars, circomVars, zkVars>>
       \/ engine = "economic" /\ EconNext /\ UNCHANGED <<factVars, ruleVars, supplyVars, circomVars, zkVars>>
       \/ engine = "rules" /\ RulesNext /\ UNCHANGED <<factVars, econVars, supplyVars, circomVars, zkVars>>
       \/ engine = "supply" /\ SupplyNext /\ UNCHANGED <<factVars, econVars, ruleVars, circomVars, zkVars>>
       \/ engine = "circom" /\ CircomNext /\ UNCHANGED <<factVars, econVars, ruleVars, supplyVars, zkVars>>
       \/ engine = "halo2" /\ Halo2Next /\ UNCHANGED <<factVars, econVars, ruleVars, supplyVars, circomVars>>

StaticSpec == StaticInit /\ [][StaticNext]_staticVars

StaticTypeOK ==
    /\ engine \in Engines
    /\ FactsTypeOK /\ EconTypeOK /\ RulesTypeOK /\ SupplyTypeOK /\ CircomTypeOK /\ Halo2TypeOK
=============================================================================
