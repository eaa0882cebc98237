------------------------------ MODULE SqliteVfs ------------------------------
(***************************************************************************)
(* The VFS under the SQLite port (apps/sqlite/sqlite_cleonos_vfs.c).  An    *)
(* open database is an image of the whole file in memory, with room to      *)
(* grow; xSync and xClose write the whole image back through a descriptor   *)
(* that truncates the file first.  The program may end, and any call may    *)
(* fail, between two of those writes.  A cell is one page, "0" a zeroed     *)
(* one and "?" one realloc gave and nobody set.                            *)
(***************************************************************************)
EXTENDS Integers, Sequences

CONSTANTS
    SqPages,       \* what a page can hold
    SQ_CAPACITY,   \* the first capacity, 4096 bytes in the code, in pages
    SqMax          \* bound: pages of a file

Pages == SqPages \cup {"0"}
Missing == <<"missing">>
Closed == [open |-> FALSE]

\* No page is the mark of a file that is not there.
ASSUME SqAssumption == SQ_CAPACITY \in Nat /\ "missing" \notin SqPages

VARIABLES
    sqDisk,    \* the database file: a sequence of pages, or Missing
    sq,        \* the open file
    sqIdeal,   \* what SQLite was promised: the file its calls describe
    sqJob,     \* a write_whole_file under way: the pages written, and for whom
    sqLock     \* the lock the handle believes it has

sqVars == <<sqDisk, sq, sqIdeal, sqJob, sqLock>>

NoJob == [op |-> "none"]
Greater(a, b) == IF a > b THEN a ELSE b

\* What a file call means: a gap and an extension are zeros.
Promised(old, size, at, b) ==
    [i \in 1 .. size |-> IF i = at THEN b ELSE IF i <= Len(old) THEN old[i] ELSE "0"]

-----------------------------------------------------------------------------
(* xOpen reads the whole file; its capacity is its size.                   *)

cleonos_sqlite_open(create, deleteOnClose) ==
    /\ ~sq.open /\ sqJob = NoJob
    /\ sqDisk # Missing \/ create
    /\ LET data == IF sqDisk = Missing THEN <<>> ELSE sqDisk
       IN  /\ sq' = [open |-> TRUE, mem |-> data, size |-> Len(data), dirty |-> FALSE, drop |-> deleteOnClose]
           /\ sqIdeal' = data
    /\ sqLock' = 0
    /\ UNCHANGED <<sqDisk, sqJob>>

\* A file that cannot be read is closed again, and removed when it was to be
\* deleted on close.
OpenFails(deleteOnClose) ==
    /\ ~sq.open /\ sqJob = NoJob /\ deleteOnClose /\ sqDisk # Missing
    /\ sqDisk' = Missing /\ sqIdeal' = Missing
    /\ UNCHANGED <<sq, sqJob, sqLock>>

-----------------------------------------------------------------------------
(* The image.  It is longer than the file: mem holds the capacity, and what *)
(* a truncation cut off stays in it.                                       *)

\* The capacity is doubled until it is enough; should doubling overflow, it is
\* what is needed.  What is added is zeroed.
cleonos_sqlite_reserve(mem, need) ==
    IF need <= Len(mem) THEN mem
    ELSE LET from == IF Len(mem) = 0 THEN SQ_CAPACITY ELSE Len(mem)
             doubled == {c \in need .. 2 * need + from : \E k \in 0 .. need : c = from * 2 ^ k}
             capacity == IF doubled = {} THEN need
                         ELSE CHOOSE c \in doubled : \A d \in doubled : c <= d
         IN  [i \in 1 .. capacity |-> IF i <= Len(mem) THEN mem[i] ELSE "0"]

\* memset between the end of the file and the first cell in use.
ZeroGap(mem, size, upTo) == [i \in 1 .. Len(mem) |-> IF size < i /\ i <= upTo THEN "0" ELSE mem[i]]

Image(f, size, at, b) ==
    LET mem == ZeroGap(cleonos_sqlite_reserve(f.mem, size), f.size, IF at = 0 THEN size ELSE at - 1)
    IN  IF at = 0 THEN mem ELSE [mem EXCEPT ![at] = b]

cleonos_sqlite_write(at, b) ==
    /\ sq.open /\ sqJob = NoJob
    /\ LET size == Greater(sq.size, at)
       IN  /\ sq' = [sq EXCEPT !.mem = Image(sq, Greater(sq.size, at), at, b), !.size = size, !.dirty = TRUE]
           /\ sqIdeal' = Promised(sqIdeal, size, at, b)
    /\ UNCHANGED <<sqDisk, sqJob, sqLock>>

\* Mutant: a file that grows shows what an earlier truncation cut off.
TruncateKeepsOld(size) ==
    /\ sq.open /\ sqJob = NoJob
    /\ sq' = [sq EXCEPT !.mem = cleonos_sqlite_reserve(@, size), !.size = size, !.dirty = TRUE]
    /\ sqIdeal' = Promised(sqIdeal, size, 0, "0")
    /\ UNCHANGED <<sqDisk, sqJob, sqLock>>

cleonos_sqlite_truncate(size) ==
    /\ sq.open /\ sqJob = NoJob
    /\ sq' = [sq EXCEPT !.mem = Image(sq, size, 0, "0"), !.size = size, !.dirty = TRUE]
    /\ sqIdeal' = Promised(sqIdeal, size, 0, "0")
    /\ UNCHANGED <<sqDisk, sqJob, sqLock>>

\* xRead: what is past the end reads as zeros, and is a short read.
cleonos_sqlite_read(f, at) == IF at > f.size THEN "0" ELSE f.mem[at]

-----------------------------------------------------------------------------
(* Writing back: open with O_TRUNC, then page after page.                  *)

\* cleonos_sqlite_flush from xSync or from xClose: nothing to do when clean.
FlushStarts(for) ==
    /\ sq.open /\ sqJob = NoJob /\ sq.dirty
    /\ sqDisk' = <<>>
    /\ sqJob' = [op |-> for, done |-> 0]
    /\ UNCHANGED <<sq, sqIdeal, sqLock>>

cleonos_sqlite_sync == FlushStarts("sync")

cleonos_sqlite_write_whole_file ==
    /\ sqJob # NoJob /\ sqJob.done < sq.size
    /\ sqDisk' = Append(sqDisk, sq.mem[sqJob.done + 1])
    /\ sqJob' = [sqJob EXCEPT !.done = @ + 1]
    /\ UNCHANGED <<sq, sqIdeal, sqLock>>

\* Mutant: the file counts as stored before its last page is.
FlushDoneEarly ==
    /\ sqJob # NoJob /\ sqJob.done + 1 >= sq.size
    /\ sq' = IF sqJob.op = "close" THEN Closed ELSE [sq EXCEPT !.dirty = FALSE]
    /\ sqJob' = NoJob
    /\ UNCHANGED <<sqDisk, sqIdeal, sqLock>>

cleonos_sqlite_flush ==
    /\ sqJob # NoJob /\ sqJob.done = sq.size
    /\ sq' = IF sqJob.op = "close" THEN Closed ELSE [sq EXCEPT !.dirty = FALSE]
    /\ sqJob' = NoJob
    /\ UNCHANGED <<sqDisk, sqIdeal, sqLock>>

\* A failed write leaves the part that was written; xSync keeps the image and
\* its dirty flag, xClose frees it all the same.
FlushFails ==
    /\ sqJob # NoJob
    /\ sq' = IF sqJob.op = "close" THEN Closed ELSE sq
    /\ sqJob' = NoJob
    /\ sqIdeal' = IF sqJob.op = "close" THEN Missing ELSE sqIdeal
    /\ UNCHANGED <<sqDisk, sqLock>>

\* xClose: a file to be deleted is removed and not written.
cleonos_sqlite_close ==
    \/ sq.open /\ ~sq.drop /\ FlushStarts("close")
    \/ /\ sq.open /\ sqJob = NoJob /\ (sq.drop \/ ~sq.dirty)
       /\ sq' = Closed
       /\ sqDisk' = IF sq.drop THEN Missing ELSE sqDisk
       /\ sqIdeal' = IF sq.drop THEN Missing ELSE sqIdeal
       /\ UNCHANGED <<sqJob, sqLock>>

\* The program ends: the image is gone, a write under way stays where it is.
ProgramEnds ==
    /\ sq.open
    /\ sq' = Closed /\ sqJob' = NoJob
    /\ sqIdeal' = Missing
    /\ UNCHANGED <<sqDisk, sqLock>>

\* Locks are kept in the handle alone: they are always granted.
cleonos_sqlite_lock(level) == sq.open /\ sqLock' = level /\ UNCHANGED <<sqDisk, sq, sqIdeal, sqJob>>
cleonos_sqlite_unlock(level) == sq.open /\ sqLock' = level /\ UNCHANGED <<sqDisk, sq, sqIdeal, sqJob>>

\* xDelete by name, while no handle is open on the file.
cleonos_sqlite_delete ==
    /\ ~sq.open /\ sqDisk # Missing
    /\ sqDisk' = Missing /\ sqIdeal' = Missing
    /\ UNCHANGED <<sq, sqJob, sqLock>>

-----------------------------------------------------------------------------
SqInit ==
    /\ sqDisk \in {Missing, <<>>} \cup {<<b>> : b \in SqPages}
    /\ sq = Closed /\ sqIdeal = Missing /\ sqJob = NoJob /\ sqLock = 0

SqNext ==
    \/ \E c, d \in BOOLEAN : cleonos_sqlite_open(c, d) \/ OpenFails(d)
    \/ \E at \in 1 .. SqMax, b \in SqPages : cleonos_sqlite_write(at, b)
    \/ \E size \in 0 .. SqMax : cleonos_sqlite_truncate(size)
    \/ cleonos_sqlite_sync \/ cleonos_sqlite_close
    \/ cleonos_sqlite_write_whole_file \/ cleonos_sqlite_flush \/ FlushFails
    \/ ProgramEnds \/ cleonos_sqlite_delete
    \/ \E level \in 0 .. 2 : cleonos_sqlite_lock(level) \/ cleonos_sqlite_unlock(level)

SqSpec == SqInit /\ [][SqNext]_sqVars

\* Whatever sequence of writes past the end, truncations and extensions came
\* before, xRead gives the file that SQLite's calls describe: zeros in every
\* gap, and nothing that was once cut off.
ImageIsPromised ==
    sq.open => sq.size = Len(sqIdeal) /\ \A at \in 1 .. SqMax :
        cleonos_sqlite_read(sq, at) = IF at <= Len(sqIdeal) THEN sqIdeal[at] ELSE "0"

\* A clean handle's file, and the file a successful xClose leaves, is on the
\* disk in full: a write back that failed half-way keeps the handle dirty.
CleanIsStored ==
    (sqJob = NoJob /\ sqIdeal # Missing /\ (sq.open => ~sq.dirty)) =>
        sqDisk = sqIdeal \/ (sqDisk = Missing /\ sqIdeal = <<>>)

SqliteSound == ImageIsPromised /\ CleanIsStored
==============================================================================
