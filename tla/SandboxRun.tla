----------------------------- MODULE SandboxRun -----------------------------
(***************************************************************************)
(* SandboxExecutor::execute on the local Docker backend: one container per *)
(* call, created, started, waited for with a timeout, read, inspected and  *)
(* removed, each by a request to a daemon that may refuse it.  A job that  *)
(* timed out or ran out of memory is executed again by its engine's retry, *)
(* while other programs may pull a new image under the same name.          *)
(***************************************************************************)
EXTENDS Naturals, FiniteSets

CONSTANTS MaxAttempts,  \* executions of one job: the first and its retries
          Images        \* bound: versions that the image's name can stand for

ASSUME SandboxAssumption ==
    MaxAttempts \in Nat \ {0} /\ Images \in Nat \ {0}

Attempts == 1..MaxAttempts
Calls == {"create", "start", "wait", "kill", "logs", "inspect", "digest", "remove"}
Outcomes == {"none", "ok", "docker", "timeout", "oom"}
Boxes == {"none", "created", "running", "exited", "oom", "removed"}

VARIABLES pc,       \* the request execute sends next
          attempt,  \* which execution of the job this is
          box,      \* each attempt's container
          version,  \* what the image name stands for now
          from,     \* history: the version each container was created from
          seen,     \* oom_killed, as inspect showed it
          code,     \* the exit code execute has: 137 is SIGKILL
          outcome,  \* of each execution
          digest,   \* the version each reported digest belongs to
          refused   \* history: requests the daemon refused, per attempt

vars == <<pc, attempt, box, version, from, seen, code, outcome, digest, refused>>

Init ==
    /\ pc = "create" /\ attempt = 1
    /\ box = [a \in Attempts |-> "none"]
    /\ version = 1
    /\ from = [a \in Attempts |-> 0]
    /\ seen = FALSE /\ code = 0
    /\ outcome = [a \in Attempts |-> "none"]
    /\ digest = [a \in Attempts |-> 0]
    /\ refused = [a \in Attempts |-> {}]
-----------------------------------------------------------------------------
(* What the daemon, the container and other programs do.                   *)

(* The process ends, or is killed for the memory it uses. *)
Exit(a) ==
    /\ box[a] = "running"
    /\ box' = [box EXCEPT ![a] = "exited"]
    /\ UNCHANGED <<pc, attempt, version, from, seen, code, outcome, digest, refused>>

OutOfMemory(a) ==
    /\ box[a] = "running"
    /\ box' = [box EXCEPT ![a] = "oom"]
    /\ UNCHANGED <<pc, attempt, version, from, seen, code, outcome, digest, refused>>

Retag ==
    /\ version < Images
    /\ version' = version + 1
    /\ UNCHANGED <<pc, attempt, box, from, seen, code, outcome, digest, refused>>

Ended(a) == box[a] \in {"exited", "oom"}
-----------------------------------------------------------------------------
(* The rest of a step that sends a request: what it answers, and whether   *)
(* the daemon took it.                                                     *)
Refuse(call) == refused' = [refused EXCEPT ![attempt] = @ \cup {call}]

Return(result) ==
    /\ outcome' = [outcome EXCEPT ![attempt] = result]
    /\ pc' = "returned"

(* A `?` hands the daemon's error to the caller and does nothing else. *)
FailsWith(call) ==
    /\ pc = call
    /\ Refuse(call)
    /\ Return("docker")
    /\ UNCHANGED <<attempt, box, version, from, seen, code, digest>>

(* cleanup_container ignores what the daemon answers. *)
Cleanup ==
    \/ /\ box' = [box EXCEPT ![attempt] = "removed"]
       /\ UNCHANGED refused
    \/ /\ Refuse("remove")
       /\ UNCHANGED box

(* With the image at hand: a failing pull ends like a refused create.      *)
Create ==
    /\ pc = "create"
    /\ box' = [box EXCEPT ![attempt] = "created"]
    /\ from' = [from EXCEPT ![attempt] = version]
    /\ pc' = "start"
    /\ UNCHANGED <<attempt, version, seen, code, outcome, digest, refused>>

Start ==
    /\ pc = "start"
    /\ box' = [box EXCEPT ![attempt] = "running"]
    /\ pc' = "wait"
    /\ UNCHANGED <<attempt, version, from, seen, code, outcome, digest, refused>>

(* The wait answers with the exit code, whatever ended the container.      *)
WaitEnds ==
    /\ pc = "wait" /\ Ended(attempt)
    /\ code' \in IF box[attempt] = "oom" THEN {137} ELSE {0, 1}
    /\ pc' = "logs"
    /\ UNCHANGED <<attempt, box, version, from, seen, outcome, digest, refused>>

(* The stream closes without an answer, which counts as exit code 0.       *)
WaitCloses ==
    /\ pc = "wait"
    /\ Refuse("wait")
    /\ pc' = "logs"
    /\ UNCHANGED <<attempt, box, version, from, seen, code, outcome, digest>>

WaitFails ==
    /\ pc = "wait"
    /\ Cleanup
    /\ Return("docker")
    /\ UNCHANGED <<attempt, version, from, seen, code, digest>>

(* The budget's timeout: kill, whose failure is ignored, and then remove.  *)
KillOnly ==
    \/ /\ box' = [box EXCEPT ![attempt] = IF Ended(attempt) THEN @ ELSE "exited"]
       /\ UNCHANGED refused
    \/ /\ Refuse("kill")
       /\ UNCHANGED box
KillAndRemove ==
    \/ Cleanup
    \/ /\ box' = [box EXCEPT ![attempt] = IF Ended(attempt) THEN @ ELSE "exited"]
       /\ Refuse("remove")

TimerFiresOnExit == Ended(attempt)
TimerFires == TRUE

WaitTimesOut ==
    /\ pc = "wait" /\ TimerFires
    /\ KillAndRemove
    /\ Return("timeout")
    /\ UNCHANGED <<attempt, version, from, seen, code, digest>>

ReadLogs ==
    /\ pc = "logs"
    /\ pc' = "inspect"
    /\ UNCHANGED <<attempt, box, version, from, seen, code, outcome, digest, refused>>

(* The memory flag may show later than the exit. *)
Inspect ==
    /\ pc = "inspect"
    /\ seen' \in {FALSE, box[attempt] = "oom"}
    /\ pc' = "digest"
    /\ UNCHANGED <<attempt, box, version, from, code, outcome, digest, refused>>

IsOomExit == seen \/ code = 137

ReportOom ==
    /\ pc = "digest" /\ IsOomExit
    /\ Cleanup
    /\ Return("oom")
    /\ UNCHANGED <<attempt, version, from, seen, code, digest>>

(* inspect_image looks the name up again, after the run. *)
Complete ==
    /\ pc = "digest" /\ ~IsOomExit
    /\ digest' = [digest EXCEPT ![attempt] = version]
    /\ Cleanup
    /\ Return("ok")
    /\ UNCHANGED <<attempt, version, from, seen, code>>

DigestFails == ~IsOomExit /\ FailsWith("digest")

(* The engine's one retry after a failure of a class that may be retried.  *)
Retry ==
    /\ pc = "returned" /\ attempt < MaxAttempts
    /\ outcome[attempt] \in {"timeout", "oom"}
    /\ attempt' = attempt + 1
    /\ pc' = "create" /\ seen' = FALSE /\ code' = 0
    /\ UNCHANGED <<box, version, from, outcome, digest, refused>>

Progress ==
    \/ Create \/ Start \/ WaitEnds \/ WaitTimesOut
    \/ ReadLogs \/ Inspect \/ ReportOom \/ Complete

Refused ==
    \/ WaitCloses \/ WaitFails \/ DigestFails
    \/ \E call \in {"create", "start", "logs", "inspect"} : FailsWith(call)

Next ==
    \/ \E a \in Attempts : Exit(a) \/ OutOfMemory(a)
    \/ Retag \/ Progress \/ Refused \/ Retry

Spec == Init /\ [][Next]_vars

(* execute goes on while the daemon answers, and its timer fires; nothing  *)
(* is assumed of the command, nor that the daemon ever refuses.            *)
LiveSpec == Spec /\ WF_vars(Progress)
-----------------------------------------------------------------------------
(* Every variable keeps to its type. *)
TypeOK ==
    /\ pc \in {"create", "start", "wait", "logs", "inspect", "digest", "returned"}
    /\ attempt \in Attempts
    /\ box \in [Attempts -> Boxes]
    /\ version \in 1..Images
    /\ from \in [Attempts -> 0..Images]
    /\ seen \in BOOLEAN /\ code \in {0, 1, 137}
    /\ outcome \in [Attempts -> Outcomes]
    /\ digest \in [Attempts -> 0..Images]
    /\ refused \in [Attempts -> SUBSET Calls]
    /\ pc = "returned" => outcome[attempt] # "none"

(* Two attempts of one job are never at work at the same time, on the same *)
(* mounts, unless the daemon refused to end the first.                     *)
AttemptsDoNotOverlap ==
    \A a, b \in Attempts : a < b /\ box[a] = "running" /\ box[b] = "running" =>
        refused[a] # {}

(* An execution that returned left no container behind, on any of its ways *)
(* out, unless the daemon refused one of its requests; nor does a retry    *)
(* then run beside the attempt that timed out.                             *)
LeftBehindOnlyOnRefusal ==
    /\ AttemptsDoNotOverlap
    /\ \A a \in Attempts : outcome[a] # "none" /\ refused[a] = {} =>
           box[a] = "removed"

(* Liveness: an execution returns although its command never ends.         *)
Returns == pc = "create" ~> pc = "returned"
-----------------------------------------------------------------------------
(* docs/design/implementation-plan-v2.md:1106: "Timeout kills the          *)
(* container and returns Err(SandboxError::Timeout)".                      *)
TimeoutKillsContainer ==
    \A a \in Attempts : outcome[a] = "timeout" => box[a] # "running"

(* The same document, line 1108: "Container digest captured and matches    *)
(* docker inspect".                                                        *)
DigestOfContainer ==
    \A a \in Attempts : outcome[a] = "ok" => digest[a] = from[a]
=============================================================================
