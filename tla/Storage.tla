------------------------------ MODULE Storage ------------------------------
(***************************************************************************)
(* What keeps the user's data: the installer, the account database, the     *)
(* file commands, the file layers of the ported programs and of SQLite, the *)
(* editor vim, the todo, contact and note files.  They share no state, so a *)
(* behaviour is one of a single component, chosen by StorageInit, with the  *)
(* others at their start.                                                   *)
(***************************************************************************)
EXTENDS Installer, UserAdmin, FileCommands, MemFiles, SqliteVfs, Vim, PersonalFiles

VARIABLE active     \* the component of this behaviour

storageVars ==
    <<active, instVars, usersVars, fcVars, mfVars, sqVars, vimVars, pfVars>>

-----------------------------------------------------------------------------

StorageParts ==
    {"installer", "users", "files", "mem", "sqlite", "vim", "personal"}

\* A component that does not run has one of its initial states.
StorageInit ==
    /\ active \in StorageParts
    /\ InstInit /\ (active # "installer" => iso = 1 /\ table)
    /\ UsersInit
    /\ FcInit
    /\ active # "files" => fc = [p \in FcPaths |-> IF p = "/" THEN Dir ELSE None] /\ archive = <<>>
    /\ MfInit
    /\ active # "mem" => layer = "doom" /\ mfDisk = [p \in MfPaths |-> NoFile]
    /\ SqInit /\ (active # "sqlite" => sqDisk = Missing)
    /\ VimInit /\ (active # "vim" => vimDisk = NoDisk /\ ed.path = NoName)
    /\ PfInit /\ (active # "personal" => pfPage = <<"todo">>)

StorageNext ==
    \/ /\ active = "installer" /\ InstNext
       /\ UNCHANGED <<active, usersVars, fcVars, mfVars, sqVars, vimVars, pfVars>>
    \/ /\ active = "users" /\ UsersNext
       /\ UNCHANGED <<active, instVars, fcVars, mfVars, sqVars, vimVars, pfVars>>
    \/ /\ active = "files" /\ FcNext
       /\ UNCHANGED <<active, instVars, usersVars, mfVars, sqVars, vimVars, pfVars>>
    \/ /\ active = "mem" /\ MfNext
       /\ UNCHANGED <<active, instVars, usersVars, fcVars, sqVars, vimVars, pfVars>>
    \/ /\ active = "sqlite" /\ SqNext
       /\ UNCHANGED <<active, instVars, usersVars, fcVars, mfVars, vimVars, pfVars>>
    \/ /\ active = "vim" /\ VimNext
       /\ UNCHANGED <<active, instVars, usersVars, fcVars, mfVars, sqVars, pfVars>>
    \/ /\ active = "personal" /\ PfNext
       /\ UNCHANGED <<active, instVars, usersVars, fcVars, mfVars, sqVars, vimVars>>

StorageSpec == StorageInit /\ [][StorageNext]_storageVars

-----------------------------------------------------------------------------

\* install2disk: nothing but a full install or a repair that names it touches
\* the account database, and a command that reports success has brought what
\* it promised, through failed steps, damaged writes and power losses.
InstallerSound == UserDataKept /\ SuccessIsCurrent

\* mv and unzip: a file leaves its old path only when its content is under the
\* new one, and a successful unzip leaves what the archive holds.
FileCommandsSound == MoveKeepsData /\ UnzipGivesArchive

\* The layers that turn the ports' file calls into the kernel's (doom_compat.c,
\* bdt, minizip_cleonos_io.c): a close that reports success means the data is on
\* the disk.
LayersStored == CloseMeansStored

\* vim: an unmarked buffer is the file, the cursor is shown, and a key that
\* redraws one or two rows leaves a screen that shows the buffer.
VimSound == [](UnmodifiedIsSaved /\ CursorShown) /\ ScreenShowsBuffer

=============================================================================
