---------------------------- MODULE FileCommands -----------------------------
(***************************************************************************)
(* The commands on files: cp, mv, rm, mkdir, touch, write, append, cat, cd, *)
(* ls, zip and unzip (apps/<name>_main.c).  Each is a process that reads    *)
(* its argument and directory from the command context, makes one system    *)
(* call after another and leaves its result for the shell.  Any call may    *)
(* fail, and the process may be ended between two of them.  A path is one   *)
(* of a few given ones, a file's content a sequence of blocks of one read,  *)
(* and the bytes of an archive are its entries.                             *)
(***************************************************************************)
EXTENDS Integers, Sequences, SequencesExt

CONSTANTS
    FcFiles,         \* paths of files
    FcDirs,          \* paths of directories, "/" among them
    FcParent,        \* [FcFiles \cup FcDirs -> FcDirs]
    FcBase,          \* [FcFiles -> the last component]
    FcJoin,          \* [FcDirs \X names -> the path, "" when there is none]
    FcBlocks,        \* blocks of data
    ZipMax           \* bound: entries of an archive, blocks of a file

None == [type |-> 0, data |-> <<>>]
Dir == [type |-> 2, data |-> <<>>]
File(data) == [type |-> 1, data |-> data]
FcPaths == FcFiles \cup FcDirs
FcNames == {FcBase[p] : p \in FcFiles}
Outside == "../x"      \* an entry's name that leads out of the directory

\* Every path lies in a directory, under a name that does not lead out of it; in a
\* directory, names and paths are the same.
ASSUME FileCommandsAssumption ==
    /\ "/" \in FcDirs
    /\ FcParent \in [FcPaths -> FcDirs]
    /\ Outside \notin FcNames
    /\ \A d \in FcDirs, n, m \in FcNames :
          FcJoin[d, n] \in FcFiles /\ FcJoin[d, n] = FcJoin[d, m] => n = m

VARIABLES
    fc,        \* [FcPaths -> None, Dir or File]
    archive,   \* the entries of the one archive file, in order
    fcJob,     \* the command that runs
    fcCwd,     \* the shell's directory
    fcRet      \* whether the last command succeeded

fcVars == <<fc, archive, fcJob, fcCwd, fcRet>>

NoProcess == [op |-> "none"]

\* The end of cleonos_app_main: the return value and, when the command changed
\* it, the directory for the shell.
Done(ok, dir) == fcJob' = NoProcess /\ fcCwd' = dir /\ fcRet' = ok
Fails == Done(FALSE, fcCwd) /\ UNCHANGED <<fc, archive>>
Continue(job) == fcJob' = job /\ UNCHANGED <<fcCwd, fcRet>>
Quiet == UNCHANGED <<archive>>

Writable(p) == fc[FcParent[p]] = Dir /\ fc[p] # Dir
EmptyDir(p) == fc[p] = Dir /\ \A q \in FcPaths : fc[q] = None \/ FcParent[q] # p

-----------------------------------------------------------------------------
(* cp: ush_copy_file copies block by block into the truncated destination. *)

CpOpen(src, dst) ==
    /\ fcJob = NoProcess
    /\ \/ /\ fc[src].type = 1 /\ Writable(dst)
          /\ fc' = [fc EXCEPT ![dst] = File(<<>>)]
          /\ Continue([op |-> "cp", src |-> src, dst |-> dst, at |-> 0])
          /\ Quiet
       \/ Fails

CpBlock ==
    /\ fcJob.op = "cp"
    /\ \/ /\ fc[fcJob.src].type = 1 /\ fcJob.at < Len(fc[fcJob.src].data) /\ fc[fcJob.dst].type = 1
          /\ fc' = [fc EXCEPT ![fcJob.dst].data = Append(@, fc[fcJob.src].data[fcJob.at + 1])]
          /\ Continue([fcJob EXCEPT !.at = @ + 1])
          /\ Quiet
       \/ /\ fcJob.at >= Len(fc[fcJob.src].data)
          /\ Done(TRUE, fcCwd) /\ UNCHANGED <<fc, archive>>
       \/ Fails

-----------------------------------------------------------------------------
(* mv: reads the whole file, writes it, then removes the source.           *)

MvRead(src, dst) ==
    /\ fcJob = NoProcess
    /\ \/ /\ fc[src].type = 1
          /\ Continue([op |-> "mv", pc |-> "write", src |-> src, dst |-> dst, buf |-> fc[src].data])
          /\ UNCHANGED <<fc, archive>>
       \/ Fails

\* Mutant: a source that cannot be written is removed all the same.
MvWriteUnchecked ==
    /\ fcJob.op = "mv" /\ fcJob.pc = "write"
    /\ \/ fc' = [fc EXCEPT ![fcJob.dst] = File(fcJob.buf)] /\ Writable(fcJob.dst)
       \/ UNCHANGED fc
    /\ Continue([fcJob EXCEPT !.pc = "remove"]) /\ Quiet

MvWrite ==
    /\ fcJob.op = "mv" /\ fcJob.pc = "write"
    /\ \/ /\ Writable(fcJob.dst)
          /\ fc' = [fc EXCEPT ![fcJob.dst] = File(fcJob.buf)]
          /\ Continue([fcJob EXCEPT !.pc = "remove"]) /\ Quiet
       \/ Fails

MvRemove ==
    /\ fcJob.op = "mv" /\ fcJob.pc = "remove"
    /\ \/ fc' = [fc EXCEPT ![fcJob.src] = None] /\ Done(TRUE, fcCwd) /\ Quiet
       \/ Fails

-----------------------------------------------------------------------------
(* One call each.                                                          *)

Rm(p) ==
    /\ fcJob = NoProcess
    /\ \/ /\ p # "/" /\ (fc[p].type = 1 \/ EmptyDir(p))
          /\ fc' = [fc EXCEPT ![p] = None]
          /\ Done(TRUE, fcCwd) /\ Quiet
       \/ Fails

Mkdir(p) ==
    /\ fcJob = NoProcess
    /\ \/ /\ p \in FcDirs \ {"/"} /\ fc[p] = None /\ fc[FcParent[p]] = Dir
          /\ fc' = [fc EXCEPT ![p] = Dir]
          /\ Done(TRUE, fcCwd) /\ Quiet
       \/ Fails

\* touch writes nothing over the file: a file that is there is emptied.
Touch(p) ==
    /\ fcJob = NoProcess
    /\ \/ /\ p \in FcFiles /\ Writable(p)
          /\ fc' = [fc EXCEPT ![p] = File(<<>>)]
          /\ Done(TRUE, fcCwd) /\ Quiet
       \/ Fails

\* write and append: the text of the command line, or else the pipe's.
Write(p, text) ==
    /\ fcJob = NoProcess
    /\ \/ /\ p \in FcFiles /\ Writable(p)
          /\ fc' = [fc EXCEPT ![p] = File(text)]
          /\ Done(TRUE, fcCwd) /\ Quiet
       \/ Fails

AppendTo(p, text) ==
    /\ fcJob = NoProcess
    /\ \/ /\ p \in FcFiles /\ Writable(p) /\ Len(fc[p].data) < ZipMax
          /\ fc' = [fc EXCEPT ![p] = File(fc[p].data \o text)]
          /\ Done(TRUE, fcCwd) /\ Quiet
       \/ Fails

Cat(p) ==
    /\ fcJob = NoProcess
    /\ \/ fc[p].type = 1 /\ Done(TRUE, fcCwd) /\ UNCHANGED <<fc, archive>>
       \/ Fails

\* cd: only into a directory that is there; without an argument to "/".
Cd(p) ==
    /\ fcJob = NoProcess
    /\ \/ fc[p] = Dir /\ Done(TRUE, p) /\ UNCHANGED <<fc, archive>>
       \/ Fails

\* ush_cmd_ls: a file shows itself, a directory its children (ush_ls_dir).
Ls(p) ==
    /\ fcJob = NoProcess
    /\ \/ /\ fc[p] # None
          /\ Done(TRUE, fcCwd)
          /\ UNCHANGED <<fc, archive>>
       \/ Fails

-----------------------------------------------------------------------------
(* zip: the files of the command line under their last component.          *)

ZipOpen(files) ==
    /\ fcJob = NoProcess
    /\ archive' = <<>>
    /\ Continue([op |-> "zip", todo |-> files])
    /\ UNCHANGED fc

\* zip_add_file, zip_write_all_file: a file that is missing ends the command with
\* the archive closed on what it has, one that fails with a part of it.
ZipAdd ==
    /\ fcJob.op = "zip" /\ fcJob.todo # <<>>
    /\ LET p == Head(fcJob.todo) IN
       \/ /\ fc[p].type = 1 /\ Len(archive) < ZipMax
          /\ archive' = Append(archive, [name |-> FcBase[p], data |-> fc[p].data])
          /\ Continue([fcJob EXCEPT !.todo = Tail(@)])
       \/ /\ fc[p].type = 1 /\ fc[p].data # <<>> /\ Len(archive) < ZipMax
          /\ archive' = Append(archive, [name |-> FcBase[p], data |-> Front(fc[p].data)])
          /\ Done(FALSE, fcCwd)
       \/ UNCHANGED archive /\ Done(FALSE, fcCwd)
    /\ UNCHANGED fc

\* zip_run: zipClose.
ZipClose ==
    /\ fcJob.op = "zip" /\ fcJob.todo = <<>>
    /\ \E ok \in BOOLEAN : Done(ok, fcCwd)
    /\ UNCHANGED <<fc, archive>>

(* unzip -x: the entries in order into a directory.                        *)

Unzip(dst) ==
    /\ fcJob = NoProcess /\ archive # <<>>
    /\ Continue([op |-> "unzip", pc |-> "entry", dst |-> dst, at |-> 1, off |-> 0])
    /\ UNCHANGED <<fc, archive>>

\* unzip_mkdir_parents_for_file.
WithParents(p) == IF fc[FcParent[p]] = None THEN [fc EXCEPT ![FcParent[p]] = Dir] ELSE fc

\* Mutant: a file that is already there is opened without truncation.
OpenOutputKeeps(f, p) == IF f[p].type = 1 THEN f ELSE [f EXCEPT ![p] = File(<<>>)]

\* The CREAT | TRUNC of unzip_extract_current.
OpenOutput(f, p) == [f EXCEPT ![p] = File(<<>>)]

\* unzip_extract_current, unzip_is_safe_name: an entry that would land outside is
\* passed over, and the command goes on as if it were done.
UnzipSkips ==
    /\ fcJob.op = "unzip" /\ fcJob.pc = "entry" /\ fcJob.at <= Len(archive)
    /\ archive[fcJob.at].name = Outside
    /\ Continue([fcJob EXCEPT !.at = @ + 1])
    /\ UNCHANGED <<fc, archive>>

\* unzip_extract_current up to the open, unzip_join.
UnzipEntry ==
    /\ fcJob.op = "unzip" /\ fcJob.pc = "entry" /\ fcJob.at <= Len(archive)
    /\ archive[fcJob.at].name # Outside
    /\ LET p == FcJoin[fcJob.dst, archive[fcJob.at].name] IN
       \/ /\ p \in FcFiles /\ fc[p] # Dir
          /\ fc[FcParent[FcParent[p]]] = Dir
          /\ fc' = OpenOutput(WithParents(p), p)
          /\ Continue([fcJob EXCEPT !.pc = "data", !.off = 0]) /\ Quiet
       \/ Fails

\* unzip_write_all: one buffer over what the file has at the offset.
UnzipData ==
    /\ fcJob.op = "unzip" /\ fcJob.pc = "data"
    /\ LET e == archive[fcJob.at]
           p == FcJoin[fcJob.dst, e.name]
           n == fcJob.off + 1
       IN  \/ /\ n <= Len(e.data) /\ fc[p].type = 1
              /\ fc' = [fc EXCEPT ![p].data =
                          IF n <= Len(@) THEN [@ EXCEPT ![n] = e.data[n]] ELSE Append(@, e.data[n])]
              /\ Continue([fcJob EXCEPT !.off = n]) /\ Quiet
           \/ /\ n > Len(e.data)
              /\ Continue([fcJob EXCEPT !.pc = "entry", !.at = @ + 1]) /\ UNCHANGED <<fc, archive>>
           \/ Fails

\* unzip_run after the last entry.
UnzipEnd ==
    /\ fcJob.op = "unzip" /\ fcJob.pc = "entry" /\ fcJob.at > Len(archive)
    /\ Done(TRUE, fcCwd) /\ UNCHANGED <<fc, archive>>

\* The process is ended by Ctrl+C, kill or a power loss.
FcKilled == fcJob # NoProcess /\ Fails

-----------------------------------------------------------------------------
\* The archive is still to be made, or one that came from elsewhere.
FcInit ==
    /\ fc \in [FcPaths -> {None, Dir} \cup {File(<<b>>) : b \in FcBlocks}]
    /\ fc["/"] = Dir
    /\ \A p \in FcFiles : fc[p] # Dir
    /\ \A p \in FcDirs : fc[p] \in {None, Dir}
    /\ \A p \in FcPaths : fc[p] # None => fc[FcParent[p]] = Dir
    /\ \/ archive = <<>>
       \/ \E n \in FcNames :
             archive = <<[name |-> Outside, data |-> <<>>], [name |-> n, data |-> <<>>]>>
    /\ fcJob = NoProcess /\ fcCwd = "/" /\ fcRet = TRUE

FcNext ==
    \/ \E s, d \in FcFiles : CpOpen(s, d) \/ MvRead(s, d) \/ ZipOpen(<<s, d>>)
    \/ \E p \in FcPaths :
        \/ Rm(p) \/ Mkdir(p) \/ Touch(p) \/ Cat(p) \/ Cd(p) \/ Ls(p)
        \/ \E b \in FcBlocks : Write(p, <<b>>) \/ AppendTo(p, <<b>>)
    \/ \E d \in FcDirs : Unzip(d)
    \/ CpBlock \/ MvWrite \/ MvRemove \/ ZipAdd \/ ZipClose
    \/ UnzipSkips \/ UnzipEntry \/ UnzipData \/ UnzipEnd \/ FcKilled

FcSpec == FcInit /\ [][FcNext]_fcVars

-----------------------------------------------------------------------------
\* A mv of a file to another path (onto its own path it removes the file) takes
\* a file away only when its content is under the new path, whichever call
\* failed before.
MoveKeepsData ==
    [][\A p \in FcFiles :
          fcJob.op = "mv" /\ fcJob.src # fcJob.dst /\ fc[p].type = 1 /\ fc'[p] = None
          => \E q \in FcFiles \ {p} : fc'[q].type = 1 /\ fc'[q].data = fc[p].data]_fcVars

\* What a successful unzip leaves is the archive: each name has the content of
\* its last entry, whatever the file held before and wherever its directories
\* came from.  (But a name that leads out of the directory, which is passed over
\* with success.)
UnzipGivesArchive ==
    [][fcJob.op = "unzip" /\ fcJob' = NoProcess /\ fcRet' =>
          \A i \in DOMAIN archive :
             /\ archive[i].name # Outside
             /\ \A j \in i + 1..Len(archive) : archive[j].name # archive[i].name
             => fc'[FcJoin[fcJob.dst, archive[i].name]] = File(archive[i].data)]_fcVars
=============================================================================
