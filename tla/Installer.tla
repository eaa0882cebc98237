------------------------------ MODULE Installer ------------------------------
(***************************************************************************)
(* install2disk (apps/install2disk_main.c): from a booted ISO it installs   *)
(* the system on a disk, updates the kernel or the shell of an installed    *)
(* one, repairs a part of it and verifies it against a manifest of hashes.  *)
(* A command is a sequence of steps on the disk.  Every step may fail, a    *)
(* write may leave a damaged file and still be reported as done, and the    *)
(* power may go between any two steps; the next command starts from the     *)
(* disk as it then is.  A file's content stands for its bytes, its size and *)
(* its SHA-256.                                                             *)
(***************************************************************************)
EXTENDS Integers, Sequences, SequencesExt

CONSTANTS
    ShellFiles,          \* files under /shell and /system, in the order of a scan
    IsoFiles,            \* [version of the ISO -> the files it has]
    INSTALL_UPDATE_MAX_ENTRIES,
    MaxFaults            \* bound: failures, damages and power losses

Kernel == "clks_kernel.elf"
Efi == "BOOTX64.EFI"
Installer == "install2disk.elf"
Release == "os-release"
Users == "users.db"
Isos == DOMAIN IsoFiles

Absent == 0              \* contents: 1, 2, ... are versions of the ISO
Damaged == 98
Own == 99                \* the content of the user's own data

\* The order in which the tree is scanned.
Scan == <<Kernel, Efi>> \o ShellFiles \o <<Installer, Release, Users>>
Files == Range(Scan)

\* Paths are names, and an ISO is told by the files it has.
ASSUME InstallerAssumption ==
    /\ ShellFiles \in Seq(STRING)
    /\ IsoFiles \in Seq(SUBSET Files)

NoManifest == <<[path |-> "none", hash |-> Absent]>>

VARIABLES
    iso,       \* the version of the booted ISO
    disk,      \* [Files -> content]
    table,     \* the partition table is CLBoot's
    manifest,  \* install_manifest.db: a sequence of paths with their hashes
    job,       \* the running command
    last,      \* the result of the last command
    faults

instVars == <<iso, disk, table, manifest, job, last, faults>>

\* Those of a sequence that are in a set, in their order.
InOrder(s, kept) ==
    LET upTo[n \in 0..Len(s)] ==
            IF n = 0 THEN <<>> ELSE IF s[n] \in kept THEN Append(upTo[n - 1], s[n]) ELSE upTo[n - 1]
    IN  upTo[Len(s)]

\* Mutant: the account database is listed as a file of the system.
ManifestIncludesAll(f) == f # Release

\* install_manifest_path_included: EFI, boot, system and shell without the
\* databases of users and packages.
ManifestIncludes(f) == f \notin {Release, Users}

\* install_update_shell_path_included: not the kernel, not the loader, and not
\* the installer itself.
ShellIncludes(f) == ManifestIncludes(f) /\ f \notin {Kernel, Efi, Installer}

-----------------------------------------------------------------------------
(* Manifests.                                                              *)

Listed(m) == {m[i].path : i \in 1..Len(m)}
HashOf(m, f) == (CHOOSE e \in Range(m) : e.path = f).hash

\* install_manifest_load: none, or more entries than the update has room for.
Loadable(m) == m = NoManifest \/ Len(m) <= INSTALL_UPDATE_MAX_ENTRIES
Loaded(m) == IF m = NoManifest THEN <<>> ELSE m

\* install_generate_manifest_to on the ISO: what an update has to bring.
NewEntries ==
    LET kept == InOrder(Scan, {f \in IsoFiles[iso] : ShellIncludes(f)})
    IN  [i \in 1..Len(kept) |-> [path |-> kept[i], hash |-> iso]]

\* install_verify_manifest_entry, install_verify_manifest.
ManifestHolds == manifest # NoManifest /\ \A e \in Range(manifest) : disk[e.path] = e.hash

\* install_verify_boot_sectors, install_verify_file_required.
BootSectorsValid == table
RequiredThere == \A f \in {Kernel, Efi, Users} : disk[f] # Absent

\* install_verify_run.
Verified == BootSectorsValid /\ RequiredThere /\ ManifestHolds /\ manifest # <<>>

-----------------------------------------------------------------------------
(* The steps of the commands.                                              *)

Step(op, f) == [op |-> op, file |-> f]
Steps(op, fs) == [i \in 1..Len(fs) |-> Step(op, fs[i])]

OnDisk == {f \in Files : disk[f] # Absent}

\* install_update_shell_plan_copy, install_update_shell_target_matches.
PlanCopy(e, old) ==
    \/ e.path \notin Listed(old)
    \/ HashOf(old, e.path) # e.hash
    \/ disk[e.path] # e.hash

\* install_update_shell_delete_obsolete.
Obsolete(old) == InOrder(Scan, {f \in (Listed(old) \cap OnDisk) \ Listed(NewEntries) : ShellIncludes(f)})

\* install_update_shell_refresh_manifest: the old entries that are not the
\* update's and are still there, then the new ones.
Refresh(old) ==
    <<Step("create manifest", Kernel)>>
    \o Steps("entry", InOrder(Scan, {f \in Listed(old) \cap OnDisk : ~ShellIncludes(f) /\ ManifestIncludes(f)}))
    \o Steps("entry", InOrder(Scan, Listed(NewEntries)))

\* install_generate_manifest on the disk.
Generate(will) ==
    <<Step("create manifest", Kernel)>> \o Steps("entry", InOrder(Scan, {f \in will : ManifestIncludes(f)}))

\* install_copy_tree: the files of the ISO's root.
CopyTree(fs) == Steps("copy whole", InOrder(fs, IsoFiles[iso]))

\* install_update_shell_write_state_files: nothing reads these files again.
StateFiles == <<Step("state", Kernel)>>

\* install_sync_os_metadata.
OsMetadata == <<Step("overwrite", Release)>>

\* install_update_shell.
UpdateShell ==
    LET old == Loaded(manifest)
        copies == InOrder(NewEntries, {e \in Range(NewEntries) : PlanCopy(e, old)})
    IN  StateFiles \o Steps("copy", [i \in 1..Len(copies) |-> copies[i].path])
        \o OsMetadata \o Steps("delete", Obsolete(old))
        \o <<Step("verified?", Kernel)>> \o Refresh(old)

\* install_prepare_boot_files.
BootFiles == Steps("overwrite", <<Kernel, Efi>>)

\* install_write_uefi_partition_table.
Table == <<Step("table", Kernel)>>

\* install_setup_root_account.
RootAccount == <<Step("root account", Users)>>

\* install_update_kernel: the manifest is left as it is.
UpdateKernel ==
    <<Step("checked", Kernel)>> \o OsMetadata \o <<Step("checked", Efi)>> \o Table
    \o <<Step("verified?", Kernel)>>

\* install2disk_run without a choice: format and install.
Install ==
    <<Step("format", Kernel)>>
    \o (CopyTree(ShellFiles \o <<Installer, Release, Users>>) \o BootFiles \o RootAccount \o Table
        \o Generate(IsoFiles[iso] \cup {Kernel, Efi}))

\* install_repair_component.
RepairBoot == BootFiles \o Table
RepairManifest == Generate(OnDisk)
RepairFile(f) == <<Step("overwrite", f)>> \o Generate(OnDisk \cup {f})

-----------------------------------------------------------------------------

NoCommand == [cmd |-> "none", todo |-> <<>>, bad |-> FALSE]

\* A disk that was installed from the first ISO, used since, or one that is
\* formatted and empty.
InstInit ==
    /\ iso \in Isos
    /\ faults = 0 /\ job = NoCommand /\ last = TRUE
    /\ \/ /\ disk = [f \in Files |-> IF f = Users THEN Own ELSE IF f \in IsoFiles[1] THEN 1 ELSE Absent]
          /\ table = TRUE
          /\ LET kept == InOrder(Scan, {f \in IsoFiles[1] : ManifestIncludes(f)})
             IN  manifest = [i \in 1..Len(kept) |-> [path |-> kept[i], hash |-> 1]]
       \/ /\ disk = [f \in Files |-> Absent]
          /\ table = FALSE /\ manifest = NoManifest

\* cleonos_app_main and install2disk_run: the commands and the prompt's
\* choices.  A shell update needs a manifest that its table has room for.
Commands ==
    {"update shell", "update kernel", "install", "repair bootloader", "repair manifest"}
CommandSteps(cmd) ==
    CASE cmd = "update shell" -> UpdateShell
      [] cmd = "update kernel" -> UpdateKernel
      [] cmd = "install" -> Install
      [] cmd = "repair bootloader" -> RepairBoot
      [] cmd = "repair manifest" -> RepairManifest

Starts(cmd) == cmd = "update shell" => Loadable(manifest) /\ Len(NewEntries) \in 1..INSTALL_UPDATE_MAX_ENTRIES

\* The disk is formatted: install_mount_existing_disk refuses every command but
\* a full install on another.  A table it need not have, as after an install
\* that ended before it wrote one.
RunCommand(cmd) ==
    /\ job.cmd = "none"
    /\ Starts(cmd)
    /\ job' = [cmd |-> cmd, todo |-> CommandSteps(cmd), bad |-> FALSE]
    /\ UNCHANGED <<iso, disk, table, manifest, last, faults>>

\* install2disk repair path: one file of the ISO.
RunRepairFile(f) ==
    /\ job.cmd = "none"
    /\ f \in IsoFiles[iso]
    /\ job' = [cmd |-> "repair file", todo |-> RepairFile(f), bad |-> FALSE]
    /\ UNCHANGED <<iso, disk, table, manifest, last, faults>>

\* The command ends with a result; an update that ran all its steps fails when
\* a file did not verify.
Ends(ok) == job' = NoCommand /\ last' = ok

\* install_update_all goes on to the shell after a kernel whose verification
\* failed; here the two are two commands.
Advance(bad) ==
    IF Len(job.todo) = 1 THEN Ends(~bad)
    ELSE job' = [job EXCEPT !.todo = Tail(@), !.bad = bad] /\ UNCHANGED last

Op == job.todo[1].op
Target == job.todo[1].file
WriteOps == {"copy", "copy whole", "overwrite", "checked"}

\* Mutant: a damaged copy is not noticed.
NoticesDamageNever(op) == FALSE

\* Which of the writes read the file again and compare hashes:
\* install_update_shell_copy_entry and install_update_overwrite_checked.
NoticesDamage(op) == op \in {"copy", "checked"}

\* A file is written (install_update_copy_file_unverified, install_copy_file,
\* install_overwrite_file_whole): as it should be, or damaged while every call
\* reports success.
DoWrite ==
    /\ job.cmd # "none" /\ Op \in WriteOps
    /\ \E damaged \in BOOLEAN :
         /\ damaged => faults < MaxFaults
         /\ disk' = [disk EXCEPT ![Target] = IF damaged THEN Damaged ELSE iso]
         /\ faults' = IF damaged THEN faults + 1 ELSE faults
         /\ Advance(job.bad \/ (damaged /\ NoticesDamage(Op)))
    /\ UNCHANGED <<iso, table, manifest>>

\* A write fails.  The file is as before, damaged, or gone when its old content
\* is removed first.  install_update_overwrite_checked goes on with a note when
\* the size is not the expected one; the others give up.
FailWrite ==
    /\ job.cmd # "none" /\ Op \in WriteOps /\ faults < MaxFaults
    /\ \E left \in {disk[Target], Damaged} \cup (IF Op \in {"copy", "copy whole"} THEN {Absent} ELSE {}) :
         /\ disk' = [disk EXCEPT ![Target] = left]
         /\ IF Op = "checked" /\ left # iso THEN Advance(TRUE) ELSE Ends(FALSE)
    /\ faults' = faults + 1
    /\ UNCHANGED <<iso, table, manifest>>

\* The other steps.  "verified?" is the end of the copying: with a note the
\* update fails and the manifest stays.
DoStep ==
    /\ job.cmd # "none" /\ Op \notin WriteOps
    /\ disk' = CASE Op = "format" -> [f \in Files |-> Absent]
                 [] Op = "delete" -> [disk EXCEPT ![Target] = Absent]
                 [] Op = "root account" -> [disk EXCEPT ![Users] = Own]
                 [] OTHER -> disk
    /\ table' = (Op = "table" \/ (table /\ Op # "format"))
    /\ manifest' = CASE Op = "format" -> NoManifest
                     [] Op = "create manifest" -> <<>>
                     [] Op = "entry" -> Append(manifest, [path |-> Target, hash |-> disk[Target]])
                     [] OTHER -> manifest
    /\ IF (Op = "verified?" /\ job.bad) \/ (Op = "entry" /\ disk[Target] = Absent) THEN Ends(FALSE) ELSE Advance(job.bad)
    /\ UNCHANGED <<iso, faults>>

\* One of the other steps fails, before it has done anything; an old manifest
\* may be gone already.
FailStep ==
    /\ job.cmd # "none" /\ Op \notin WriteOps \cup {"verified?"} /\ faults < MaxFaults
    /\ manifest' \in (IF Op = "create manifest" THEN {manifest, NoManifest} ELSE {manifest})
    /\ Ends(FALSE)
    /\ faults' = faults + 1
    /\ UNCHANGED <<iso, disk, table>>

\* The power goes, in the middle of a write or between two steps.
PowerLoss ==
    /\ job.cmd # "none" /\ faults < MaxFaults
    /\ disk' \in {disk} \cup (IF Op \in WriteOps THEN {[disk EXCEPT ![Target] = Damaged]} ELSE {})
    /\ Ends(FALSE)
    /\ faults' = faults + 1
    /\ UNCHANGED <<iso, table, manifest>>

\* Another ISO is booted.
BootIso == \E v \in Isos : job.cmd = "none" /\ iso' = v /\ UNCHANGED <<disk, table, manifest, job, last, faults>>

InstNext ==
    \/ \E cmd \in Commands : RunCommand(cmd)
    \/ \E f \in Files : RunRepairFile(f)
    \/ DoWrite \/ FailWrite \/ DoStep \/ FailStep \/ PowerLoss \/ BootIso

InstSpec == InstInit /\ [][InstNext]_instVars

-----------------------------------------------------------------------------

\* No update, no verification and no repair of another file touches the
\* account database, whatever fails and whenever the power goes: only a full
\* install, or a repair that names it, replaces it.
UserDataKept ==
    [][disk'[Users] # disk[Users] => job.cmd = "install" \/ (job.cmd = "repair file" /\ Target = Users)]_instVars

\* A shell update that reports success, also one that follows an interrupted
\* one, has brought every file of the ISO; and whatever command renews the
\* manifest and reports success leaves one that describes the disk, so that
\* install2disk verify finds nothing wrong with it.
SuccessIsCurrent ==
    [][job.cmd # "none" /\ job'.cmd = "none" /\ last' =>
         /\ job.cmd = "update shell" =>
              \A f \in IsoFiles[iso] : ShellIncludes(f) => disk'[f] = iso
         /\ job.cmd \in {"update shell", "install", "repair manifest", "repair file"} => ManifestHolds'
         /\ job.cmd = "install" => Verified']_instVars

=============================================================================
