------------------------------ MODULE MemFiles -------------------------------
(***************************************************************************)
(* The file layers of the ported programs: Doom (apps/doom/doom_compat.c),  *)
(* bdt (apps/bdt/bdt_cleonos_compat.c), tcc (apps/tcc/tcc_cleonos_compat.c) *)
(* and minizip (apps/minizip_cleonos_io.c).  An open file is a copy of the  *)
(* whole file in memory; a flush or a close gives it back to the kernel     *)
(* with one fs_write, which returns 1 or 0.  The layers were written apart  *)
(* and read that result differently, so each has its own open, flush and    *)
(* close here.  A byte whose value the code never sets is "?".              *)
(***************************************************************************)
EXTENDS Integers, Sequences

CONSTANTS
    Layers,        \* the layers to look at
    MfPaths,       \* the files
    TempPaths,     \* those under /temp, the only ones Doom writes
    MfBytes,       \* bytes of data
    MF_MAX,        \* DG_MAX_MEM_FD, BDT_FILE_MAX, ...: open files at a time
    MfMaxSize      \* bound: bytes of a file, and the highest position

\* Doom's files are among the others.
ASSUME MemFilesAssumption ==
    /\ TempPaths \subseteq MfPaths
    /\ MF_MAX \in Nat /\ MfMaxSize \in Nat

NoFile == <<"none">>
Contents == UNION {[1 .. n -> MfBytes \cup {"0", "?"}] : n \in 0 .. MfMaxSize}
Free == [used |-> FALSE]
Modes == {"r", "r+", "w", "w+", "a"}

VARIABLES
    layer,     \* the layer of the program that runs
    mfDisk,    \* [MfPaths -> Contents or NoFile]
    mfds,      \* [1 .. MF_MAX -> an open file or Free]
    mfRet      \* the last call: what it was, its file before, its result

mfVars == <<layer, mfDisk, mfds, mfRet>>

Returns(op, f, ok) == mfRet' = [op |-> op, file |-> f, ok |-> ok]

\* Where a write puts its byte, and what is in the gap a seek left.
PutAt(data, pos, b, gap) ==
    [i \in 1 .. IF pos + 1 > Len(data) THEN pos + 1 ELSE Len(data) |->
        IF i = pos + 1 THEN b ELSE IF i <= Len(data) THEN data[i] ELSE gap]

\* cleonos_sys_fs_write: the whole file or nothing, 1 or 0.
Stored(path, data) == mfDisk' = [mfDisk EXCEPT ![path] = data]
NotStored == UNCHANGED mfDisk
FsWrite(path, data, accepted(_)) ==
    \/ accepted(1) /\ Stored(path, data)
    \/ accepted(0) /\ NotStored
FsWriteRefused(path, data, accepted(_)) ==
    \/ ~accepted(1) /\ Stored(path, data)
    \/ ~accepted(0) /\ NotStored

-----------------------------------------------------------------------------
(* The tables.  A slot is the first free one.                              *)

FirstFree == {k \in 1 .. MF_MAX : ~mfds[k].used /\ \A j \in 1 .. k - 1 : mfds[j].used}

dg_fd_alloc_slot == FirstFree
bdt_fd_alloc == FirstFree
tcc_fd_alloc == FirstFree

Writes(mode) == mode # "r"
OpenFile(path, data, pos, writable, dirty) ==
    [used |-> TRUE, path |-> path, data |-> data, pos |-> pos, writable |-> writable,
     dirty |-> dirty, ungot |-> FALSE, error |-> FALSE]

\* dg_fopen and open: a file that is written must be under /temp, and only one
\* that is read or appended to is loaded.
dg_fopen(path, mode) ==
    LET loads == ~Writes(mode) \/ mode = "a"
        data == IF loads /\ mfDisk[path] # NoFile THEN mfDisk[path] ELSE <<>>
    IN  IF (Writes(mode) /\ path \notin TempPaths) \/ (~Writes(mode) /\ mfDisk[path] = NoFile) THEN Free
        ELSE OpenFile(path, data, IF mode = "a" THEN Len(data) ELSE 0, Writes(mode), mode \in {"w", "w+"})

\* bdt's fopen and open: everything is loaded unless it is truncated, and a
\* truncated file is not marked as changed.
bdt_fopen(path, mode) ==
    LET data == IF mfDisk[path] # NoFile /\ mode \notin {"w", "w+"} THEN mfDisk[path] ELSE <<>>
    IN  IF mfDisk[path] = NoFile /\ mode \in {"r", "r+"} THEN Free
        ELSE OpenFile(path, data, IF mode = "a" THEN Len(data) ELSE 0, Writes(mode), FALSE)

\* The same code in tcc.
tcc_fopen(path, mode) == bdt_fopen(path, mode)

\* cleonos_mz_open64: MODE_CREATE starts empty, MODE_EXISTING loads the file.
cleonos_mz_open64(path, mode) ==
    IF mode \in {"w", "w+"} THEN OpenFile(path, <<>>, 0, TRUE, TRUE)
    ELSE IF mfDisk[path] = NoFile THEN Free
    ELSE OpenFile(path, mfDisk[path], 0, Writes(mode), Writes(mode))

Opened(path, mode) ==
    CASE layer = "doom" -> dg_fopen(path, mode)
      [] layer = "bdt" -> bdt_fopen(path, mode)
      [] layer = "tcc" -> tcc_fopen(path, mode)
      [] OTHER -> cleonos_mz_open64(path, mode)

Slots == CASE layer = "doom" -> dg_fd_alloc_slot [] layer = "bdt" -> bdt_fd_alloc [] OTHER -> tcc_fd_alloc

MfOpen(path, mode) ==
    \E k \in Slots :
        LET f == Opened(path, mode)
        IN  mfds' = [mfds EXCEPT ![k] = f] /\ Returns("open", f, f.used) /\ UNCHANGED <<layer, mfDisk>>

-----------------------------------------------------------------------------
(* Reading, writing and moving in the copy.                                *)

\* read, and fread and fgetc above it, which give a pushed back byte first.
ReadByte(f) ==
    IF f.ungot THEN [f EXCEPT !.ungot = FALSE]
    ELSE IF f.pos < Len(f.data) THEN [f EXCEPT !.pos = @ + 1] ELSE f

dg_read(f) == ReadByte(f)
bdt_read(f) == ReadByte(f)
tcc_read(f) == ReadByte(f)
cleonos_mz_read(f) == ReadByte(f)

MfRead(k) ==
    LET f == mfds[k]
    IN  /\ f.used
        /\ mfds' = [mfds EXCEPT ![k] = CASE layer = "doom" -> dg_read(f) [] layer = "bdt" -> bdt_read(f)
                                         [] layer = "tcc" -> tcc_read(f) [] OTHER -> cleonos_mz_read(f)]
        /\ Returns("read", f, f.ungot \/ f.pos < Len(f.data))
        /\ UNCHANGED <<layer, mfDisk>>

\* ungetc keeps one byte, whatever it was, and fails when it has one.
Ungetc(k) ==
    /\ layer \in {"bdt", "tcc"} /\ mfds[k].used /\ ~mfds[k].ungot
    /\ mfds' = [mfds EXCEPT ![k].ungot = TRUE]
    /\ Returns("ungetc", mfds[k], TRUE)
    /\ UNCHANGED <<layer, mfDisk>>

\* write: Doom and minizip refuse a file that was opened to be read, bdt and
\* tcc write to it all the same.
Written(f, b) == [f EXCEPT !.data = PutAt(@, f.pos, b, "?"), !.pos = @ + 1, !.dirty = TRUE]
dg_write(f, b) == IF f.writable THEN Written(f, b) ELSE f
bdt_write(f, b) == Written(f, b)
tcc_write(f, b) == Written(f, b)

\* cleonos_mz_write: a copy that cannot grow marks the file as bad.
cleonos_mz_write(f, b, grown) ==
    IF ~f.writable THEN f ELSE IF ~grown THEN [f EXCEPT !.error = TRUE] ELSE Written(f, b)

MfWrite(k, b) ==
    LET f == mfds[k]
    IN  /\ f.used /\ f.pos < MfMaxSize
        /\ \E grown \in BOOLEAN :
              LET g == CASE layer = "doom" -> IF grown THEN dg_write(f, b) ELSE f
                         [] layer = "bdt" -> IF grown THEN bdt_write(f, b) ELSE f
                         [] layer = "tcc" -> IF grown THEN tcc_write(f, b) ELSE f
                         [] OTHER -> cleonos_mz_write(f, b, grown)
              IN  mfds' = [mfds EXCEPT ![k] = g] /\ Returns("write", f, g.pos = f.pos + 1)
        /\ UNCHANGED <<layer, mfDisk>>

\* lseek moves past the end without a trace; the next write leaves the gap as
\* realloc gave it.
dg_lseek(f, to) == [f EXCEPT !.pos = to]
bdt_lseek(f, to) == [f EXCEPT !.pos = to, !.ungot = FALSE]
tcc_lseek(f, to) == bdt_lseek(f, to)

\* cleonos_mz_seek64 fills the gap with zeros at once.
cleonos_mz_seek64(f, to) ==
    IF to <= Len(f.data) THEN [f EXCEPT !.pos = to]
    ELSE IF ~f.writable THEN f
    ELSE [f EXCEPT !.data = PutAt(@, to - 1, "0", "0"), !.pos = to]

MfSeek(k, to) ==
    LET f == mfds[k]
    IN  /\ f.used
        /\ mfds' = [mfds EXCEPT ![k] = CASE layer = "doom" -> dg_lseek(f, to) [] layer = "bdt" -> bdt_lseek(f, to)
                                         [] layer = "tcc" -> tcc_lseek(f, to) [] OTHER -> cleonos_mz_seek64(f, to)]
        /\ Returns("seek", f, TRUE)
        /\ UNCHANGED <<layer, mfDisk>>

-----------------------------------------------------------------------------
(* Giving the copy back.  Each layer decides from fs_write's result and the *)
(* size whether the file is stored.                                        *)

Clean(f) == [f EXCEPT !.dirty = FALSE]

\* Doom takes the result for the number of bytes.
dg_fd_flush_slot(f, result) == result = Len(f.data)

\* Mutant: the result is taken for an error code.
BdtTakesErrorCode(f, result) == result # -1

bdt_stream_flush_file(f, result) == result # 0
tcc_stream_flush_file(f, result) == result # -1

\* minizip takes it for the number of bytes too.
MzWrote(f, result) == result = Len(f.data)

Accepts(f, result) ==
    CASE layer = "doom" -> dg_fd_flush_slot(f, result)
      [] layer = "bdt" -> bdt_stream_flush_file(f, result)
      [] layer = "tcc" -> tcc_stream_flush_file(f, result)
      [] OTHER -> MzWrote(f, result)

\* What must be written at all.
ToStore(f) == IF layer = "minizip" THEN f.writable /\ ~f.error ELSE f.dirty

\* fflush: there is none in minizip.
MfFlush(k) ==
    LET f == mfds[k]
    IN  /\ layer # "minizip" /\ f.used
        /\ IF ToStore(f)
           THEN \/ /\ FsWrite(f.path, f.data, LAMBDA r : Accepts(f, r))
                   /\ mfds' = [mfds EXCEPT ![k] = Clean(f)]
                   /\ Returns("flush", f, TRUE)
                \/ /\ FsWriteRefused(f.path, f.data, LAMBDA r : Accepts(f, r))
                   /\ Returns("flush", f, FALSE) /\ UNCHANGED mfds
           ELSE Returns("flush", f, TRUE) /\ UNCHANGED <<mfds, mfDisk>>
        /\ UNCHANGED layer

\* close: Doom, bdt and tcc keep the slot when the flush fails.
CloseKeeps(k) ==
    LET f == mfds[k]
    IN  IF ToStore(f)
        THEN \/ /\ FsWrite(f.path, f.data, LAMBDA r : Accepts(f, r))
                /\ mfds' = [mfds EXCEPT ![k] = Free]
                /\ Returns("close", f, TRUE)
             \/ /\ FsWriteRefused(f.path, f.data, LAMBDA r : Accepts(f, r))
                /\ Returns("close", f, FALSE) /\ UNCHANGED mfds
        ELSE mfds' = [mfds EXCEPT ![k] = Free] /\ Returns("close", f, TRUE) /\ UNCHANGED mfDisk

dg_close(k) == CloseKeeps(k)
bdt_close(k) == CloseKeeps(k)
tcc_close(k) == CloseKeeps(k)

\* cleonos_mz_close frees the file in any case; a bad one is not written and
\* that is a success.
cleonos_mz_close(k) ==
    LET f == mfds[k]
    IN  /\ mfds' = [mfds EXCEPT ![k] = Free]
        /\ IF ToStore(f)
           THEN \/ FsWrite(f.path, f.data, LAMBDA r : Accepts(f, r)) /\ Returns("close", f, TRUE)
                \/ FsWriteRefused(f.path, f.data, LAMBDA r : Accepts(f, r)) /\ Returns("close", f, FALSE)
           ELSE Returns("close", f, TRUE) /\ UNCHANGED mfDisk

MfClose(k) ==
    /\ mfds[k].used
    /\ CASE layer = "doom" -> dg_close(k) [] layer = "bdt" -> bdt_close(k)
         [] layer = "tcc" -> tcc_close(k) [] OTHER -> cleonos_mz_close(k)
    /\ UNCHANGED layer

-----------------------------------------------------------------------------
(* Names: unlink and rename.  bdt and minizip rename nothing.              *)

\* Doom and bdt read fs_remove's result as it is meant, Doom only under /temp;
\* tcc does not see a failure.
dg_unlink(p, result) == p \in TempPaths /\ result # 0
bdt_unlink(p, result) == result # 0
tcc_unlink(p, result) == result # -1

MfUnlink(p) ==
    /\ layer # "minizip" /\ (layer = "doom" => p \in TempPaths)
    /\ \E done \in BOOLEAN :
          LET result == IF done THEN 1 ELSE 0
          IN  /\ mfDisk' = IF done THEN [mfDisk EXCEPT ![p] = NoFile] ELSE mfDisk
              /\ Returns("unlink", OpenFile(p, <<>>, 0, FALSE, FALSE),
                         CASE layer = "doom" -> dg_unlink(p, result) [] layer = "bdt" -> bdt_unlink(p, result)
                           [] OTHER -> tcc_unlink(p, result))
    /\ UNCHANGED <<layer, mfds>>

\* rename copies and then removes: Doom removes when the result is the size,
\* tcc whenever it is not -1.
dg_rename(p, q, result) == q \in TempPaths /\ result = Len(mfDisk[p])
tcc_rename(p, q, result) == result # -1

MfRename(p, q) ==
    /\ layer \in {"doom", "tcc"} /\ p # q /\ mfDisk[p] # NoFile
    /\ (layer = "doom" => q \in TempPaths)
    /\ \E wrote, removed \in BOOLEAN :
          LET result == IF wrote THEN 1 ELSE 0
              goesOn == IF layer = "doom" THEN dg_rename(p, q, result) ELSE tcc_rename(p, q, result)
              copied == IF wrote THEN [mfDisk EXCEPT ![q] = mfDisk[p]] ELSE mfDisk
          IN  /\ mfDisk' = IF goesOn /\ removed THEN [copied EXCEPT ![p] = NoFile] ELSE copied
              /\ Returns("rename", OpenFile(q, mfDisk[p], 0, FALSE, FALSE), goesOn /\ (removed \/ layer = "tcc"))
    /\ UNCHANGED <<layer, mfds>>

-----------------------------------------------------------------------------
MfInit ==
    /\ layer \in Layers
    /\ mfDisk \in [MfPaths -> {NoFile, <<>>} \cup {<<b, b>> : b \in MfBytes}]
    /\ mfds = [k \in 1 .. MF_MAX |-> Free]
    /\ mfRet = [op |-> "start", file |-> Free, ok |-> TRUE]

MfNext ==
    \/ \E p \in MfPaths, m \in Modes : MfOpen(p, m)
    \/ \E p \in MfPaths : MfUnlink(p)
    \/ \E p, q \in MfPaths : MfRename(p, q)
    \/ \E k \in 1 .. MF_MAX :
          \/ MfRead(k) \/ Ungetc(k) \/ MfFlush(k) \/ MfClose(k)
          \/ \E b \in MfBytes : MfWrite(k, b)
          \/ \E to \in 0 .. MfMaxSize : MfSeek(k, to)

MfSpec == MfInit /\ [][MfNext]_mfVars

\* A changed file whose close reports success is on the disk as it was in
\* memory, whatever fs_write did: Doom, bdt, and minizip unless it ran out of
\* memory.  Only an empty file can be missing (Doom and minizip compare the
\* result 0 of a failed write with the size 0).
CloseMeansStored ==
    [][ mfRet'.op = "close" /\ mfRet'.ok /\ mfRet' # mfRet /\ ~mfRet'.file.error
            /\ mfRet'.file.dirty /\ mfRet'.file.data # <<>>
        => mfDisk'[mfRet'.file.path] = mfRet'.file.data ]_mfVars
==============================================================================
