---------------------------- MODULE MCSandboxRun ----------------------------
(* The orchestrator retries an engine once; a third attempt is more than   *)
(* the code makes and shows that overlaps do not hide behind the second.   *)
EXTENDS SandboxRun
=============================================================================
