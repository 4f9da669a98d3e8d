----------------------------- MODULE Execution ------------------------------
(***************************************************************************)
(* What the engines of an audit execute and what comes of it, side by      *)
(* side: the chaos scripts, the monitor of invariants and the MadSim       *)
(* bridge of the distributed engine, the harnesses that the evidence gate  *)
(* lets through, the reports of the findings, and the evidence packs.      *)
(* They share files at most, and write different ones, so one of them runs *)
(* at a time.                                                              *)
(***************************************************************************)
EXTENDS ChaosScript, SimulationMonitor, MadSimBridge, HarnessGate, FindingOutput, EvidencePacks

VARIABLE part
Parts == {"chaos", "monitor", "bridge", "harness", "report", "pack"}
executionVars == <<part, chaosVars, monitorVars, bridgeVars, gateVars, outputVars, packVars>>

ExecutionInit ==
    /\ part \in Parts
    /\ ChaosInit /\ MonitorInit /\ BridgeInit /\ GateInit /\ OutputInit /\ PackInit

ExecutionNext ==
    /\ UNCHANGED part
    /\ \/ part = "chaos" /\ ChaosNext /\ UNCHANGED <<monitorVars, bridgeVars, gateVars, outputVars, packVars>>
       \/ part = "monitor" /\ MonitorNext /\ UNCHANGED <<chaosVars, bridgeVars, gateVars, outputVars, packVars>>
       \/ part = "bridge" /\ BridgeNext /\ UNCHANGED <<chaosVars, monitorVars, gateVars, outputVars, packVars>>
       \/ part = "harness" /\ GateNext /\ UNCHANGED <<chaosVars, monitorVars, bridgeVars, outputVars, packVars>>
       \/ part = "report" /\ OutputNext /\ UNCHANGED <<chaosVars, monitorVars, bridgeVars, gateVars, packVars>>
       \/ part = "pack" /\ PackNext /\ UNCHANGED <<chaosVars, monitorVars, bridgeVars, gateVars, outputVars>>

ExecutionSpec == ExecutionInit /\ [][ExecutionNext]_executionVars

ExecutionTypeOK ==
    /\ part \in Parts
    /\ ChaosTypeOK /\ MonitorTypeOK /\ BridgeTypeOK /\ GateTypeOK /\ OutputTypeOK /\ PackTypeOK
=============================================================================
