--------------------------- MODULE FindingOutput ---------------------------
(***************************************************************************)
(* What becomes of the findings of an audit: the findings pipeline removes *)
(* duplicates and marks regressions, and ReportGenerator::generate_all     *)
(* writes one file after the other into the output directory, which an     *)
(* earlier report may have written before.  Any file system error stops    *)
(* it there, and can leave a file that was opened, but not written whole.  *)
(***************************************************************************)
EXTENDS Naturals, Sequences, FiniteSets

CONSTANTS FindingIds,  \* ids of findings; several findings may share one
          Locations,   \* file and first line
          Collectable, \* bound: the findings that engines report
          MaxCollected, MaxReports \* bounds: findings of an audit, reports written

\* Finding, its fields that matter here.
FindingType == [id : FindingIds, at : Locations, verified : BOOLEAN, cached : BOOLEAN, gate : 0..3, test : BOOLEAN]

ASSUME OutputAssumption == Collectable \subseteq FindingType /\ MaxCollected \in Nat /\ MaxReports \in Nat

\* A prior finding, with a location hint that parses or without.
Anywhere == "anywhere"
Priors == [id : FindingIds, at : Locations \cup {Anywhere}]

VARIABLES collected,  \* the findings of the engines
          previous,   \* previous_audit
          reportNo,   \* history: the report being written, 0 before the first
          reportAt,   \* the file it writes next, 0 when it writes none
          kept,       \* the deduplicated findings: [number, regression]
          proseUsed,  \* llm_prose_used
          disk,       \* file -> the report that wrote it, or began to
          torn,       \* the files that were cut off while they were written
          kani        \* the kani_harnesses directory: id -> number of the finding

outputVars == <<collected, previous, reportNo, reportAt, kept, proseUsed, disk, torn, kani>>

\* The files in the order of write_phase1_output_layout and generate_all.
OutputFilesManifestFirst == <<"audit-manifest.json", "report-executive.md", "report-technical.md", "findings.json",
                 "findings.sarif", "evidence-pack.zip", "regression-tests", "report.typ", "report.pdf">>
OutputFiles == <<"report-executive.md", "report-technical.md", "findings.json", "findings.sarif", "evidence-pack.zip",
                 "audit-manifest.json", "regression-tests", "report.typ", "report.pdf">>
FileNames == {OutputFiles[i] : i \in DOMAIN OutputFiles}

OutputInit ==
    /\ collected = <<>> /\ previous = {}
    /\ reportNo = 0 /\ reportAt = 0 /\ kept = <<>> /\ proseUsed = FALSE
    /\ disk = [f \in FileNames |-> 0] /\ torn = {}
    /\ kani = [i \in FindingIds |-> 0]
-----------------------------------------------------------------------------
Collect == \E f \in Collectable :
    /\ reportNo = 0 /\ Len(collected) < MaxCollected
    /\ collected' = Append(collected, f)
    /\ UNCHANGED <<previous, reportNo, reportAt, kept, proseUsed, disk, torn, kani>>

Previous == \E p \in Priors :
    /\ reportNo = 0 /\ previous = {} /\ previous' = {p}
    /\ UNCHANGED <<collected, reportNo, reportAt, kept, proseUsed, disk, torn, kani>>
-----------------------------------------------------------------------------
(* deduplicate_findings: a later finding of the same key takes the place   *)
(* of the one that is kept if it is preferred to it.                       *)
FindingKey(f) == <<f.id, f.at>>
VerificationRank(f) == IF f.verified THEN 2 ELSE 1
AnalysisRank(f) == IF f.cached THEN 0 ELSE 1

PreferLater(new, old) == ~(VerificationRank(new) < VerificationRank(old))
PreferOver(new, old) ==
    IF VerificationRank(new) # VerificationRank(old) THEN VerificationRank(new) > VerificationRank(old)
    ELSE IF AnalysisRank(new) # AnalysisRank(old) THEN AnalysisRank(new) > AnalysisRank(old)
    ELSE new.gate > old.gate

Deduplicated ==
    LET out[i \in 0..Len(collected)] ==
            IF i = 0 THEN <<>>
            ELSE LET same == {k \in DOMAIN out[i - 1] : FindingKey(collected[out[i - 1][k]]) = FindingKey(collected[i])}
                 IN  IF same = {} THEN Append(out[i - 1], i)
                     ELSE [k \in DOMAIN out[i - 1] |->
                              IF k \in same /\ PreferOver(collected[i], collected[out[i - 1][k]]) THEN i ELSE out[i - 1][k]]
    IN  out[Len(collected)]

\* mark_regression_checks: by place if the prior finding has one.
IsRegression(f) ==
    \/ [id |-> f.id, at |-> f.at] \in previous
    \/ /\ [id |-> f.id, at |-> Anywhere] \in previous
       /\ ~\E p \in previous : p.id = f.id /\ p.at # Anywhere

\* prose_for_reporting: without an LLM nothing is polished; each of its calls
\* can fail, and leaves the text.
Generate ==
    /\ reportAt = 0 /\ reportNo < MaxReports
    /\ kept' = [k \in DOMAIN Deduplicated |->
                  [number |-> Deduplicated[k], regression |-> IsRegression(collected[Deduplicated[k]])]]
    /\ proseUsed' \in {FALSE, collected # <<>>}
    /\ reportNo' = reportNo + 1 /\ reportAt' = 1
    /\ UNCHANGED <<collected, previous, disk, torn, kani>>
-----------------------------------------------------------------------------
(* Writing.  A harness file is named by the finding's id.                  *)
Harnesses ==
    [i \in FindingIds |->
        LET with == {k \in DOMAIN kept : collected[kept[k].number].id = i /\ collected[kept[k].number].test}
        IN  IF with = {} THEN kani[i] ELSE kept[CHOOSE k \in with : \A l \in with : l <= k].number]

WriteFile ==
    /\ reportAt \in DOMAIN OutputFiles
    /\ disk' = [disk EXCEPT ![OutputFiles[reportAt]] = reportNo]
    /\ torn' = torn \ {OutputFiles[reportAt]}
    /\ kani' = IF OutputFiles[reportAt] = "regression-tests" THEN Harnesses ELSE kani
    /\ reportAt' = IF reportAt = Len(OutputFiles) THEN 0 ELSE reportAt + 1
    /\ UNCHANGED <<collected, previous, reportNo, kept, proseUsed>>

\* A disk error, an evidence pack that is not there, or the end of the process:
\* before fs::write and fs::copy open the file, or once they have emptied it;
\* some of the harnesses may have been written.
WriteFails ==
    /\ reportAt \in DOMAIN OutputFiles
    /\ reportAt' = 0
    /\ \/ UNCHANGED <<disk, torn, kani>>
       \/ /\ disk' = [disk EXCEPT ![OutputFiles[reportAt]] = reportNo]
          /\ torn' = torn \cup {OutputFiles[reportAt]}
          /\ \E written \in SUBSET FindingIds :
                /\ OutputFiles[reportAt] = "regression-tests" \/ written = {}
                /\ kani' = [i \in FindingIds |-> IF i \in written THEN Harnesses[i] ELSE kani[i]]
    /\ UNCHANGED <<collected, previous, reportNo, kept, proseUsed>>

OutputNext == Collect \/ Previous \/ Generate \/ WriteFile \/ WriteFails
OutputSpec == OutputInit /\ [][OutputNext]_outputVars
-----------------------------------------------------------------------------
OutputTypeOK ==
    /\ collected \in Seq(Collectable) /\ previous \subseteq Priors
    /\ reportNo \in 0..MaxReports /\ reportAt \in 0..Len(OutputFiles)
    /\ kept \in Seq([number : 1..MaxCollected, regression : BOOLEAN])
    /\ disk \in [FileNames -> 0..MaxReports] /\ torn \subseteq FileNames
    /\ kani \in [FindingIds -> 0..MaxCollected]

\* Of the findings of one id and place the report has one, the first of those
\* than which none is stronger (verified, then fresh, then by gate level), and
\* the kept ones stand in the order in which their places first appeared.
\* (deduplicate_findings, prefer_over)
Strength(f) == 8 * VerificationRank(f) + 4 * AnalysisRank(f) + f.gate
Siblings(i) == {j \in DOMAIN collected : FindingKey(collected[j]) = FindingKey(collected[i])}
FirstSeen(i) == CHOOSE j \in Siblings(i) : \A k \in Siblings(i) : j <= k
KeptIsStrongest ==
    reportAt > 0 =>
        /\ \A i \in DOMAIN collected : Cardinality({k \in DOMAIN kept : kept[k].number \in Siblings(i)}) = 1
        /\ \A k \in DOMAIN kept : \A j \in Siblings(kept[k].number) :
              \/ Strength(collected[j]) < Strength(collected[kept[k].number])
              \/ Strength(collected[j]) = Strength(collected[kept[k].number]) /\ kept[k].number <= j
        /\ \A k, l \in DOMAIN kept : k < l => FirstSeen(kept[k].number) < FirstSeen(kept[l].number)

\* However often reports were written to a directory and wherever they stopped:
\* the Markdown reports, the findings and the evidence beside a manifest are
\* whole and of its report, or of a later one that stopped before its own
\* manifest and may have torn one of them.  What is written after the manifest
\* need not be there: it is of its report or of an earlier one.
\* (generate_all, write_phase1_output_layout)
BeforeManifest == {"report-executive.md", "report-technical.md", "findings.json", "findings.sarif", "evidence-pack.zip"}
AfterManifest == {"regression-tests", "report.typ", "report.pdf"}
ManifestNotAhead ==
    LET manifest == disk["audit-manifest.json"] IN
    /\ \A f \in BeforeManifest : disk[f] > manifest \/ (disk[f] = manifest /\ f \notin torn)
    /\ \A f \in AfterManifest : disk[f] <= manifest

\* implementation-plan-v2.md:2427, "Verified / Unverified labels present on
\* every finding in technical report": build_v3_report_bundle hands every
\* finding to the section "Verified Findings" and none to the candidates, and
\* the section shows no status.
VerifiedSection == {collected[kept[k].number] : k \in DOMAIN kept}
UnverifiedIsLabelled ==
    disk["report-technical.md"] > 0 => \A f \in VerifiedSection : f.verified

\* Every kept finding with a regression test has it in the directory.
TestsAreWritten ==
    (disk["regression-tests"] > 0 /\ disk["regression-tests"] = reportNo /\ "regression-tests" \notin torn) =>
        \A k \in DOMAIN kept : LET f == collected[kept[k].number] IN
            f.test => kani[f.id] = kept[k].number
=============================================================================
