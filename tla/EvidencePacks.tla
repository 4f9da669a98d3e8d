--------------------------- MODULE EvidencePacks ---------------------------
(***************************************************************************)
(* EvidenceStore: a directory per finding, which save_pack empties and     *)
(* writes again file by file with the manifest last, and export_zip reads  *)
(* by the manifest.  Packs of one finding are saved one after the other; a *)
(* save stops at any error and with the process, and an export may run at  *)
(* the same time.                                                          *)
(***************************************************************************)
EXTENDS Naturals, Sequences, FiniteSets

CONSTANTS Packed,    \* findings with evidence
          PackFiles, \* relative paths in packs: what a manifest.json of the caller's own would say is not modelled
          MaxPacks   \* bound: packs saved

ASSUME PackAssumption == IsFiniteSet(PackFiles) /\ "manifest.json" \notin PackFiles /\ MaxPacks \in Nat

\* An EvidencePack: its files in order, and whether the last of them has a
\* path that ensure_safe_relative_path refuses.
Packs == [files : {s \in UNION {[1..n -> PackFiles] : n \in 0..Cardinality(PackFiles)} :
                     \A i, j \in DOMAIN s : i # j => s[i] # s[j]},
          unsafe : BOOLEAN, reproducible : BOOLEAN]
Gone == [pack |-> 0, files |-> {}]
\* What a directory can hold: the file of a pack, and of the manifest its list.
Entry(n, files) == [pack |-> n, files |-> files]
Generated == {"reproduce.sh", "manifest.json"}
InPack == PackFiles \cup Generated

VARIABLES packDir,   \* finding -> file -> entry
          packs,     \* history: the packs given to save_pack
          save,      \* [stage, finding, left]: left, the files still to be written
          export,    \* [stage, left, listed]: left, the findings and files still to be read
          zip,       \* the entries of the archive: <<finding, file, pack>>
          disturbed, \* history: findings that a save changed during the export
          artifacts  \* EvidenceWriter::save: <<session or none, path>>

packVars == <<packDir, packs, save, export, zip, disturbed, artifacts>>

NoSave == [stage |-> "idle", finding |-> "none", left |-> <<>>]
NoExport == [stage |-> "idle", left |-> {}, listed |-> {}]
PackInit ==
    /\ packDir = [f \in Packed |-> [x \in InPack |-> Gone]]
    /\ packs = <<>> /\ save = NoSave /\ export = NoExport /\ zip = {} /\ disturbed = {}
    /\ artifacts = {}
-----------------------------------------------------------------------------
(* save_pack                                                               *)
Present(f) == {x \in InPack : packDir[f][x] # Gone}
FileSet(pack) == {pack.files[i] : i \in DOMAIN pack.files}
Disturb(f) == IF export.stage = "reading" THEN disturbed \cup {f} ELSE disturbed

\* A pack with another finding's id, or that says too little to reproduce it,
\* is refused before anything is touched.
Begin == \E f \in Packed, pack \in Packs :
    /\ save.stage = "idle" /\ Len(packs) < MaxPacks
    /\ pack.unsafe => pack.files # <<>>
    /\ IF pack.reproducible
       THEN /\ packs' = Append(packs, [finding |-> f, files |-> FileSet(pack), unsafe |-> pack.unsafe])
            /\ save' = [stage |-> "removing", finding |-> f, left |-> pack.files]
       ELSE UNCHANGED <<packs, save>>
    /\ UNCHANGED <<packDir, export, zip, disturbed, artifacts>>

\* remove_dir_all, in the order of the directory.
NothingOld(f) == {}
Old(f) == Present(f)
RemoveOld ==
    /\ save.stage = "removing"
    /\ IF Old(save.finding) = {} THEN save' = [save EXCEPT !.stage = "writing"] /\ UNCHANGED packDir
       ELSE /\ \E x \in Old(save.finding) : packDir' = [packDir EXCEPT ![save.finding][x] = Gone]
            /\ UNCHANGED save
    /\ disturbed' = Disturb(save.finding)
    /\ UNCHANGED <<packs, export, zip, artifacts>>

Current == Len(packs)
Write(x) == packDir' = [packDir EXCEPT ![save.finding][x] = Entry(Current, packs[Current].files \cup Generated)]
WriteNext ==
    /\ save.stage \in {"writing", "manifest"}
    /\ IF save.stage = "manifest" THEN Write("manifest.json") /\ save' = NoSave
       ELSE IF save.left = <<>> THEN Write("reproduce.sh") /\ save' = [save EXCEPT !.stage = "manifest"]
       ELSE IF packs[Current].unsafe /\ Len(save.left) = 1 THEN save' = NoSave /\ UNCHANGED packDir
       ELSE Write(Head(save.left)) /\ save' = [save EXCEPT !.left = Tail(@)]
    /\ disturbed' = Disturb(save.finding)
    /\ UNCHANGED <<packs, export, zip, artifacts>>

\* An error of the file system, or the end of the process.
SaveStops == /\ save.stage # "idle" /\ save' = NoSave
             /\ UNCHANGED <<packDir, packs, export, zip, disturbed, artifacts>>

SaveArtifact == \E session \in {"none", "s"}, x \in PackFiles :
    /\ artifacts = {} /\ artifacts' = {<<session, x>>}
    /\ UNCHANGED <<packDir, packs, save, export, zip, disturbed>>
-----------------------------------------------------------------------------
(* export_zip: a manifest, then every file it lists, for each finding; the *)
(* first one that cannot be read ends it and leaves a broken archive.      *)
StartExport == \E findings \in SUBSET Packed :
    /\ export.stage = "idle" /\ findings # {}
    /\ export' = [stage |-> "reading", left |-> findings, listed |-> {}]
    /\ zip' = {} /\ disturbed' = IF save.stage = "idle" THEN {} ELSE {save.finding}
    /\ UNCHANGED <<packDir, packs, save, artifacts>>

LoadManifest ==
    /\ export.stage = "reading" /\ export.listed = {}
    /\ IF export.left = {} THEN export' = [export EXCEPT !.stage = "done"]
       ELSE \E f \in export.left :
              LET manifest == packDir[f]["manifest.json"] IN
              export' = IF manifest = Gone THEN [NoExport EXCEPT !.stage = "failed"]
                        ELSE [export EXCEPT !.left = @ \ {f}, !.listed = {<<f, x>> : x \in manifest.files}]
    /\ UNCHANGED <<packDir, packs, save, zip, disturbed, artifacts>>

ReadEntry ==
    /\ export.stage = "reading"
    /\ \E entry \in export.listed : LET found == packDir[entry[1]][entry[2]] IN
          IF found = Gone THEN export' = [NoExport EXCEPT !.stage = "failed"] /\ UNCHANGED zip
          ELSE /\ zip' = zip \cup {<<entry[1], entry[2], found.pack>>}
               /\ export' = [export EXCEPT !.listed = @ \ {entry}]
    /\ UNCHANGED <<packDir, packs, save, disturbed, artifacts>>

PackNext == \/ Begin \/ RemoveOld \/ WriteNext \/ SaveStops \/ SaveArtifact
            \/ StartExport \/ LoadManifest \/ ReadEntry
PackSpec == PackInit /\ [][PackNext]_packVars
-----------------------------------------------------------------------------
SavedPack == [finding : Packed, files : SUBSET PackFiles, unsafe : BOOLEAN]
PackEntry == [pack : 0..MaxPacks, files : SUBSET InPack]
Saving == [stage : {"idle", "removing", "writing", "manifest"}, finding : Packed \cup {"none"}, left : Seq(PackFiles)]
Exporting == [stage : {"idle", "reading", "done", "failed"}, left : SUBSET Packed, listed : SUBSET (Packed \X InPack)]
PackTypeOK ==
    /\ packDir \in [Packed -> [InPack -> PackEntry]]
    /\ packs \in Seq(SavedPack) /\ Len(packs) <= MaxPacks
    /\ save \in Saving /\ export \in Exporting
    /\ zip \subseteq Packed \X InPack \X (1..MaxPacks) /\ disturbed \subseteq Packed

\* An archive that was finished has, for every finding that no save disturbed
\* meanwhile, one pack: all of its files and no file of another pack, whatever
\* saves were cut off before, by an error, a refused path or a crash.
\* (save_pack writes the manifest last; export_zip)
ExportIsOnePack ==
    export.stage = "done" =>
        \A f \in {e[1] : e \in zip} \ disturbed : \E n \in DOMAIN packs :
            /\ packs[n].finding = f /\ ~packs[n].unsafe
            /\ {e \in zip : e[1] = f} = {<<f, x, n>> : x \in packs[n].files \cup Generated}

\* A pack that is refused leaves the evidence of the finding as it was.
RefusedPackChangesNothing ==
    \A f \in Packed :
        (\E n \in DOMAIN packs : packs[n].finding = f /\ ~packs[n].unsafe)
            /\ save.stage = "idle" /\ packs # <<>> /\ packs[Current].unsafe
        => packDir[f]["manifest.json"] # Gone
=============================================================================
