---------------------------- MODULE Storage_proof ----------------------------
(***************************************************************************)
(* The other components that keep the user's data, each for all values of its*)
(* constants, and the composition of Storage from them.                    *)
(***************************************************************************)
EXTENDS Storage, Installer_proof

(***************************************************************************)
(* The VFS under SQLite, for files of any length, pages of any content and *)
(* any sequence of calls, failures and crashes.                            *)
(***************************************************************************)

OpenFiles == [open : {TRUE}, mem : Seq(Pages), size : Nat, dirty : BOOLEAN, drop : BOOLEAN]

WriteBacks == [op : {"sync", "close"}, done : Nat]

SqTyped ==
    /\ sqDisk \in Seq(Pages) \cup {Missing}
    /\ sqIdeal \in Seq(Pages) \cup {Missing}
    /\ sq = Closed \/ sq \in OpenFiles
    /\ sqJob = NoJob \/ sqJob \in WriteBacks

\* The first cells of the image are the file that was promised.
Agrees(f, ideal) ==
    /\ ideal \in Seq(Pages)
    /\ f.size = Len(ideal) /\ f.size <= Len(f.mem)
    /\ \A i \in 1 .. f.size : f.mem[i] = ideal[i]

ImageAgrees == sq # Closed => Agrees(sq, sqIdeal)

\* A write back is one of a dirty handle, and has brought a prefix to the disk.
WritesPrefix ==
    sqJob # NoJob =>
        /\ sq # Closed /\ sq.dirty
        /\ sqDisk \in Seq(Pages) /\ Len(sqDisk) = sqJob.done /\ sqJob.done <= sq.size
        /\ \A i \in 1 .. sqJob.done : sqDisk[i] = sqIdeal[i]

SqInv == SqTyped /\ ImageAgrees /\ WritesPrefix /\ CleanIsStored

\* A page is never taken for a file that is not there.
LEMMA NotMissing ==
  ASSUME "missing" \notin SqPages, NEW s \in Seq(Pages)
  PROVE  s # Missing
<1> SUFFICES ASSUME s = Missing PROVE FALSE
  OBVIOUS
<1>1. Len(s) = 1 /\ s[1] = "missing"
  BY DEF Missing
<1>2. s[1] \in Pages
  BY <1>1, ElementOfSeq
<1> QED BY <1>1, <1>2 DEF Pages

\* A handle that is open is no closed one.
LEMMA OpenIsOpen ==
  /\ ~Closed.open
  /\ \A f \in OpenFiles : f.open /\ f # Closed
  /\ \A j \in WriteBacks : j # NoJob
<1>1. ~Closed.open
  BY DEF Closed
<1>2. ASSUME NEW f \in OpenFiles PROVE f.open /\ f # Closed
  <2>1. f.open
    BY DEF OpenFiles
  <2> QED BY <1>1, <2>1
<1>3. ASSUME NEW j \in WriteBacks PROVE j # NoJob
  <2>1. j.op # "none"
    BY DEF WriteBacks
  <2>2. NoJob.op = "none"
    BY DEF NoJob
  <2> QED BY <2>1, <2>2
<1> QED BY <1>1, <1>2, <1>3

(***************************************************************************)
(* The image: what growing and zeroing leave in it.                        *)
(***************************************************************************)

\* A reserve has room for what was asked and keeps what was there.
LEMMA ReserveGrows ==
  ASSUME SQ_CAPACITY \in Nat, NEW mem \in Seq(Pages), NEW need \in Nat
  PROVE  LET r == cleonos_sqlite_reserve(mem, need)
         IN  /\ r \in Seq(Pages) /\ need <= Len(r) /\ Len(mem) <= Len(r)
             /\ \A i \in 1 .. Len(mem) : r[i] = mem[i]
<1>1. CASE need <= Len(mem)
  BY <1>1, LenProperties DEF cleonos_sqlite_reserve
<1>2. CASE ~(need <= Len(mem))
  <2> DEFINE from == IF Len(mem) = 0 THEN SQ_CAPACITY ELSE Len(mem)
             Reached(c) == \E k \in 0 .. need : c = from * 2 ^ k
             doubled == {c \in need .. 2 * need + from : Reached(c)}
             capacity == IF doubled = {} THEN need
                         ELSE CHOOSE c \in doubled : \A d \in doubled : c <= d
             r == [i \in 1 .. capacity |-> IF i <= Len(mem) THEN mem[i] ELSE "0"]
  <2>1. cleonos_sqlite_reserve(mem, need) = r
    BY <1>2 DEF cleonos_sqlite_reserve
  <2>2. Len(mem) \in Nat /\ from \in Nat
    BY LenProperties
  <2> HIDE DEF Reached, from
  <2>3. doubled \subseteq Nat /\ \A c \in doubled : c >= need
    BY <2>2
  <2> HIDE DEF doubled
  <2>4. capacity \in Nat /\ capacity >= need
    <3>1. CASE doubled = {}
      BY <3>1
    <3>2. CASE doubled # {}
      <4>1. PICK m \in doubled : \A d \in doubled : m <= d
        BY <2>3, <3>2, LeastIndex
      <4>2. capacity \in doubled
        BY <3>2, <4>1
      <4> QED BY <2>3, <4>2
    <3> QED BY <3>1, <3>2
  <2> HIDE DEF capacity
  <2>5. \A i \in 1 .. capacity : (IF i <= Len(mem) THEN mem[i] ELSE "0") \in Pages
    BY <2>2, <2>4, ElementOfSeq DEF Pages
  <2>6. r \in Seq(Pages) /\ Len(r) = capacity
    BY <2>4, <2>5, IsASeq
  <2>7. \A i \in 1 .. Len(mem) : r[i] = mem[i]
    BY <1>2, <2>2, <2>4
  <2> QED BY <1>2, <2>1, <2>2, <2>4, <2>6, <2>7
<1> QED BY <1>1, <1>2

\* A page of the promised file.
PromisedPage(old, at, b, i) == IF i = at THEN b ELSE IF i <= Len(old) THEN old[i] ELSE "0"

IsPromised(p, old, size, at, b) ==
    /\ p \in Seq(Pages) /\ Len(p) = size
    /\ \A i \in 1 .. size : p[i] = PromisedPage(old, at, b, i)

LEMMA PromisedIsFile ==
  ASSUME NEW old \in Seq(Pages), NEW size \in Nat, NEW at \in Nat, NEW b \in Pages
  PROVE  IsPromised(Promised(old, size, at, b), old, size, at, b)
<1> DEFINE p == Promised(old, size, at, b)
<1>1. \A i \in 1 .. size : PromisedPage(old, at, b, i) \in Pages
  BY LenProperties, ElementOfSeq DEF Pages, PromisedPage
<1>2. p = [i \in 1 .. size |-> PromisedPage(old, at, b, i)]
  BY DEF Promised, PromisedPage
<1> HIDE DEF p
<1>3. p \in Seq(Pages) /\ Len(p) = size
  BY <1>1, <1>2, IsASeq
<1>4. \A i \in 1 .. size : p[i] = PromisedPage(old, at, b, i)
  BY <1>2
<1>5. IsPromised(p, old, size, at, b)
  BY <1>3, <1>4 DEF IsPromised
<1> QED BY <1>5 DEF p

\* The first cells of an image are the file.
IsImageOf(mem, ideal, size) ==
    /\ mem \in Seq(Pages) /\ ideal \in Seq(Pages)
    /\ size = Len(ideal) /\ size <= Len(mem)
    /\ \A i \in 1 .. size : mem[i] = ideal[i]

\* xWrite and xTruncate leave in the image what they were asked for.
LEMMA ImageFollows ==
  ASSUME SQ_CAPACITY \in Nat, NEW f \in OpenFiles, NEW ideal, Agrees(f, ideal),
         NEW at \in Nat, NEW b \in Pages, NEW size \in Nat,
         at = 0 \/ size = Greater(f.size, at)
  PROVE  IsImageOf(Image(f, size, at, b), Promised(ideal, size, at, b), size)
<1> DEFINE grown == cleonos_sqlite_reserve(f.mem, size)
           upTo == IF at = 0 THEN size ELSE at - 1
           zeroed == ZeroGap(grown, f.size, upTo)
           image == Image(f, size, at, b)
           p == Promised(ideal, size, at, b)
<1>0. /\ ideal \in Seq(Pages) /\ f.size = Len(ideal) /\ f.size <= Len(f.mem)
      /\ \A i \in 1 .. f.size : f.mem[i] = ideal[i]
  BY DEF Agrees
<1>1. f.mem \in Seq(Pages) /\ f.size \in Nat
  BY DEF OpenFiles
<1>2. /\ grown \in Seq(Pages) /\ size <= Len(grown) /\ Len(f.mem) <= Len(grown)
      /\ \A i \in 1 .. Len(f.mem) : grown[i] = f.mem[i]
  BY <1>1, ReserveGrows
<1>3. Len(grown) \in Nat /\ Len(f.mem) \in Nat /\ upTo \in Int
  BY <1>1, <1>2, LenProperties
<1>4. /\ p \in Seq(Pages) /\ Len(p) = size
      /\ \A i \in 1 .. size : p[i] = PromisedPage(ideal, at, b, i)
  <2>1. IsPromised(p, ideal, size, at, b)
    BY <1>0, PromisedIsFile
  <2> HIDE DEF p
  <2> QED BY <2>1 DEF IsPromised
<1>5. image = IF at = 0 THEN zeroed ELSE [zeroed EXCEPT ![at] = b]
  BY DEF Image
<1> HIDE DEF grown, image, p
<1>6. /\ zeroed \in Seq(Pages) /\ Len(zeroed) = Len(grown)
      /\ \A i \in 1 .. Len(grown) : zeroed[i] = IF f.size < i /\ i <= upTo THEN "0" ELSE grown[i]
  <2> DEFINE top == upTo
  <2> HIDE DEF top
  <2>1. zeroed = [i \in 1 .. Len(grown) |-> IF f.size < i /\ i <= top THEN "0" ELSE grown[i]]
    BY DEF ZeroGap, top
  <2> HIDE DEF zeroed
  <2>2. \A i \in 1 .. Len(grown) : (IF f.size < i /\ i <= top THEN "0" ELSE grown[i]) \in Pages
    BY <1>2, <1>3, ElementOfSeq DEF Pages
  <2>3. zeroed \in Seq(Pages) /\ Len(zeroed) = Len(grown)
    BY <1>3, <2>1, <2>2, IsASeq
  <2> QED BY <2>1, <2>3 DEF top
<1> HIDE DEF zeroed
<1>7. /\ image \in Seq(Pages) /\ Len(image) = Len(grown)
      /\ \A i \in 1 .. Len(grown) : image[i] = IF at # 0 /\ i = at THEN b ELSE zeroed[i]
  <2>1. CASE at = 0
    BY <1>5, <1>6, <2>1
  <2>2. CASE at # 0
    <3>1. at \in 1 .. Len(zeroed)
      BY <1>1, <1>2, <1>3, <1>6, <2>2 DEF Greater
    <3> QED BY <1>5, <1>6, <2>2, <3>1, ExceptSeq
  <2> QED BY <2>1, <2>2
<1>8. ASSUME NEW i \in 1 .. size PROVE image[i] = p[i]
  <2>1. i \in 1 .. Len(grown)
    BY <1>2, <1>3
  <2>2. CASE i = at
    BY <1>4, <1>7, <2>1, <2>2 DEF PromisedPage
  <2>3. CASE i # at /\ i <= f.size
    <3>1. zeroed[i] = grown[i]
      BY <1>1, <1>6, <2>1, <2>3
    <3>2. grown[i] = ideal[i]
      BY <1>0, <1>1, <1>2, <1>3, <2>3
    <3> QED BY <1>0, <1>4, <1>7, <2>1, <2>3, <3>1, <3>2 DEF PromisedPage
  <2>4. CASE i # at /\ ~(i <= f.size)
    <3>1. i <= upTo
      BY <1>1, <2>4 DEF Greater
    <3>2. zeroed[i] = "0"
      BY <1>1, <1>6, <2>1, <2>4, <3>1
    <3> QED BY <1>0, <1>4, <1>7, <2>1, <2>4, <3>2 DEF PromisedPage
  <2> QED BY <2>2, <2>3, <2>4
<1>9. size <= Len(image)
  BY <1>2, <1>7
<1>10. IsImageOf(image, p, size)
  BY <1>4, <1>7, <1>8, <1>9 DEF IsImageOf
<1> QED BY <1>10 DEF image, p

(***************************************************************************)
(* Every action keeps the invariant.                                       *)
(***************************************************************************)

LEMMA FileCleaned ==
  ASSUME NEW f \in OpenFiles, NEW g, g = [f EXCEPT !.dirty = FALSE]
  PROVE  g \in OpenFiles /\ g.mem = f.mem /\ g.size = f.size
  BY DEF OpenFiles

\* What is known of an open handle, and of one that is not.
LEMMA Handle ==
  ASSUME SqInv
  PROVE  /\ sq.open => sq \in OpenFiles /\ Agrees(sq, sqIdeal)
         /\ ~sq.open => sq = Closed /\ sqJob = NoJob
  BY OpenIsOpen DEF SqInv, SqTyped, ImageAgrees, WritesPrefix

LEMMA SqInitInv == SqInit => SqInv
<1> SUFFICES ASSUME SqInit PROVE SqInv
  OBVIOUS
<1>1. sq = Closed /\ sqIdeal = Missing /\ sqJob = NoJob
  BY DEF SqInit
<1>2. sqDisk \in Seq(Pages) \cup {Missing}
  <2>1. <<>> \in Seq(Pages) /\ \A b \in SqPages : <<b>> \in Seq(Pages)
    BY DEF Pages
  <2> QED BY <2>1 DEF SqInit
<1> QED BY <1>1, <1>2 DEF SqInv, SqTyped, ImageAgrees, WritesPrefix, CleanIsStored

\* A handle that was written to: dirty, and no write back under way.
LEMMA ChangeKeeps ==
  ASSUME SqInv, sq.open, sqJob = NoJob, UNCHANGED <<sqDisk, sqJob>>,
         sq' \in OpenFiles, sq'.dirty, Agrees(sq', sqIdeal')
  PROVE  SqInv'
<1>1. SqTyped'
  BY DEF SqInv, SqTyped, Agrees
<1>2. ImageAgrees' /\ WritesPrefix'
  BY DEF ImageAgrees, WritesPrefix
<1>3. CleanIsStored'
  BY OpenIsOpen DEF CleanIsStored
<1> QED BY <1>1, <1>2, <1>3 DEF SqInv

LEMMA OpenKeeps ==
  ASSUME "missing" \notin SqPages, SqInv, NEW c \in BOOLEAN, NEW d \in BOOLEAN, cleonos_sqlite_open(c, d)
  PROVE  SqInv'
<1> DEFINE data == IF sqDisk = Missing THEN <<>> ELSE sqDisk
<1>1. data \in Seq(Pages) /\ (sqDisk # Missing => data = sqDisk) /\ (sqDisk = Missing => data = <<>>)
  BY DEF SqInv, SqTyped
<1>2. /\ sq' = [open |-> TRUE, mem |-> data, size |-> Len(data), dirty |-> FALSE, drop |-> d]
      /\ sqIdeal' = data /\ UNCHANGED <<sqDisk, sqJob>> /\ sqJob = NoJob
  BY DEF cleonos_sqlite_open
<1> HIDE DEF data
<1>3. Len(data) \in Nat
  BY <1>1, LenProperties
<1>4. sq' \in OpenFiles /\ sq'.mem = data /\ sq'.size = Len(data)
  BY <1>1, <1>2, <1>3 DEF OpenFiles
<1>5. SqTyped'
  BY <1>1, <1>2, <1>4 DEF SqInv, SqTyped
<1>6. ImageAgrees' /\ WritesPrefix'
  BY <1>1, <1>2, <1>3, <1>4 DEF ImageAgrees, WritesPrefix, Agrees
<1>7. CleanIsStored'
  BY <1>1, <1>2 DEF CleanIsStored
<1> QED BY <1>5, <1>6, <1>7 DEF SqInv

LEMMA WriteKeeps ==
  ASSUME SQ_CAPACITY \in Nat, SqInv, NEW at \in 1 .. SqMax, NEW b \in SqPages, cleonos_sqlite_write(at, b)
  PROVE  SqInv'
<1> DEFINE size == Greater(sq.size, at)
           mem == Image(sq, size, at, b)
           ideal == Promised(sqIdeal, size, at, b)
<1>1. /\ sq.open /\ sqJob = NoJob /\ UNCHANGED <<sqDisk, sqJob>>
      /\ sq' = [sq EXCEPT !.mem = mem, !.size = size, !.dirty = TRUE]
      /\ sqIdeal' = ideal
  BY DEF cleonos_sqlite_write
<1>2. sq \in OpenFiles /\ Agrees(sq, sqIdeal)
  BY <1>1, Handle
<1>3. size \in Nat /\ at \in Nat /\ b \in Pages /\ size = Greater(sq.size, at)
  BY <1>2 DEF OpenFiles, Greater, Pages
<1> HIDE DEF size
<1>4. /\ mem \in Seq(Pages) /\ ideal \in Seq(Pages) /\ size = Len(ideal) /\ size <= Len(mem)
      /\ \A i \in 1 .. size : mem[i] = ideal[i]
  <2>1. IsImageOf(mem, ideal, size)
    BY <1>2, <1>3, ImageFollows
  <2> HIDE DEF mem, ideal
  <2> QED BY <2>1 DEF IsImageOf
<1> HIDE DEF size, mem, ideal
<1>5. sq' \in OpenFiles /\ sq'.mem = mem /\ sq'.size = size /\ sq'.dirty
  <2>1. sq' = [sq EXCEPT !.mem = mem, !.size = size, !.dirty = TRUE]
    BY <1>1
  <2>2. sq \in OpenFiles
    BY <1>2
  <2>3. mem \in Seq(Pages)
    BY <1>4
  <2>4. size \in Nat
    BY <1>3
  <2> QED BY ONLY <2>1, <2>2, <2>3, <2>4 DEF OpenFiles
<1>6. Agrees(sq', sqIdeal')
  BY <1>1, <1>4, <1>5 DEF Agrees
<1> QED BY <1>1, <1>5, <1>6, ChangeKeeps

LEMMA TruncateKeeps ==
  ASSUME SQ_CAPACITY \in Nat, SqInv, NEW size \in 0 .. SqMax, cleonos_sqlite_truncate(size)
  PROVE  SqInv'
<1> DEFINE mem == Image(sq, size, 0, "0")
           ideal == Promised(sqIdeal, size, 0, "0")
<1>1. /\ sq.open /\ sqJob = NoJob /\ UNCHANGED <<sqDisk, sqJob>>
      /\ sq' = [sq EXCEPT !.mem = mem, !.size = size, !.dirty = TRUE]
      /\ sqIdeal' = ideal
  BY DEF cleonos_sqlite_truncate
<1>2. sq \in OpenFiles /\ Agrees(sq, sqIdeal)
  BY <1>1, Handle
<1>3. size \in Nat /\ "0" \in Pages
  BY DEF Pages
<1>4. /\ mem \in Seq(Pages) /\ ideal \in Seq(Pages) /\ size = Len(ideal) /\ size <= Len(mem)
      /\ \A i \in 1 .. size : mem[i] = ideal[i]
  <2>1. IsImageOf(mem, ideal, size)
    BY <1>2, <1>3, ImageFollows
  <2> HIDE DEF mem, ideal
  <2> QED BY <2>1 DEF IsImageOf
<1> HIDE DEF mem, ideal
<1>5. sq' \in OpenFiles /\ sq'.mem = mem /\ sq'.size = size /\ sq'.dirty
  <2>1. sq' = [sq EXCEPT !.mem = mem, !.size = size, !.dirty = TRUE]
    BY <1>1
  <2>2. sq \in OpenFiles
    BY <1>2
  <2>3. mem \in Seq(Pages)
    BY <1>4
  <2>4. size \in Nat
    BY <1>3
  <2> QED BY ONLY <2>1, <2>2, <2>3, <2>4 DEF OpenFiles
<1>6. Agrees(sq', sqIdeal')
  BY <1>1, <1>4, <1>5 DEF Agrees
<1> QED BY <1>1, <1>5, <1>6, ChangeKeeps

\* A handle that is gone, with nothing promised any more.
LEMMA GoneKeeps ==
  ASSUME SqInv, sq' = Closed, sqJob' = NoJob, sqIdeal' = Missing, sqDisk' \in {sqDisk, Missing}
  PROVE  SqInv'
<1>1. SqTyped'
  BY DEF SqInv, SqTyped
<1> QED BY <1>1 DEF SqInv, ImageAgrees, WritesPrefix, CleanIsStored

LEMMA FlushStartKeeps ==
  ASSUME SqInv, NEW for \in {"sync", "close"}, FlushStarts(for) PROVE SqInv'
<1>1. /\ sq.open /\ sqJob = NoJob /\ sq.dirty /\ sqDisk' = <<>>
      /\ sqJob' = [op |-> for, done |-> 0] /\ UNCHANGED <<sq, sqIdeal>>
  BY DEF FlushStarts
<1>2. sq \in OpenFiles /\ Agrees(sq, sqIdeal)
  BY <1>1, Handle
<1>3. sqJob' \in WriteBacks /\ sqJob'.done = 0 /\ sqJob' # NoJob
  <2>1. sqJob' \in WriteBacks /\ sqJob'.done = 0
    BY <1>1 DEF WriteBacks
  <2> QED BY <2>1, OpenIsOpen
<1>4. sqDisk' \in Seq(Pages) /\ Len(sqDisk') = 0
  <2>1. sqDisk' \in Seq(Pages)
    BY <1>1
  <2> QED BY <1>1, <2>1, EmptySeq
<1>5. SqTyped'
  BY <1>1, <1>2, <1>3, <1>4 DEF SqInv, SqTyped
<1>6. sq.size \in Nat
  BY <1>2 DEF OpenFiles
<1>7. ImageAgrees' /\ WritesPrefix' /\ CleanIsStored'
  BY <1>1, <1>2, <1>3, <1>4, <1>6, OpenIsOpen DEF SqInv, ImageAgrees, WritesPrefix, CleanIsStored
<1> QED BY <1>5, <1>7 DEF SqInv

LEMMA PageWriteKeeps ==
  ASSUME SqInv, cleonos_sqlite_write_whole_file PROVE SqInv'
<1>1. /\ sqJob # NoJob /\ sqJob.done < sq.size
      /\ sqDisk' = Append(sqDisk, sq.mem[sqJob.done + 1])
      /\ sqJob' = [sqJob EXCEPT !.done = @ + 1] /\ UNCHANGED <<sq, sqIdeal>>
  BY DEF cleonos_sqlite_write_whole_file
<1>2. /\ sq \in OpenFiles /\ Agrees(sq, sqIdeal) /\ sq.dirty /\ sqJob \in WriteBacks
      /\ sqDisk \in Seq(Pages) /\ Len(sqDisk) = sqJob.done
      /\ \A i \in 1 .. sqJob.done : sqDisk[i] = sqIdeal[i]
  BY <1>1 DEF SqInv, SqTyped, WritesPrefix, ImageAgrees
<1> DEFINE n == sqJob.done
           page == sq.mem[n + 1]
<1>3. n \in Nat /\ sq.size \in Nat /\ sq.mem \in Seq(Pages)
  BY <1>2 DEF WriteBacks, OpenFiles
<1>4. n + 1 \in 1 .. sq.size /\ n + 1 <= sq.size /\ sq.size <= Len(sq.mem) /\ Len(sq.mem) \in Nat
  BY <1>1, <1>2, <1>3, LenProperties DEF Agrees
<1>5. page \in Pages /\ page = sqIdeal[n + 1]
  BY <1>2, <1>3, <1>4, ElementOfSeq DEF Agrees
<1>6. sqJob' \in WriteBacks /\ sqJob'.done = n + 1 /\ sqJob' # NoJob
  <2>1. sqJob' \in WriteBacks /\ sqJob'.done = n + 1
    BY <1>1, <1>2, <1>3 DEF WriteBacks
  <2> QED BY <2>1, OpenIsOpen
<1>7. /\ sqDisk' \in Seq(Pages) /\ Len(sqDisk') = n + 1
      /\ \A i \in 1 .. n : sqDisk'[i] = sqDisk[i]
      /\ sqDisk'[n + 1] = page
  <2> HIDE DEF page
  <2> QED BY <1>1, <1>2, <1>5, AppendProperties DEF page
<1>8. \A i \in 1 .. (n + 1) : sqDisk'[i] = sqIdeal[i]
  <2>1. \A i \in 1 .. (n + 1) : i \in 1 .. n \/ i = n + 1
    BY <1>3
  <2> QED BY <1>2, <1>5, <1>7, <2>1
<1>9. SqTyped'
  BY <1>1, <1>6, <1>7 DEF SqInv, SqTyped
<1>10. ImageAgrees' /\ WritesPrefix' /\ CleanIsStored'
  BY <1>1, <1>2, <1>4, <1>6, <1>7, <1>8, OpenIsOpen DEF SqInv, ImageAgrees, WritesPrefix, CleanIsStored
<1> QED BY <1>9, <1>10 DEF SqInv

LEMMA FlushKeeps ==
  ASSUME SqInv, cleonos_sqlite_flush PROVE SqInv'
<1>1. /\ sqJob # NoJob /\ sqJob.done = sq.size /\ sqJob' = NoJob /\ UNCHANGED <<sqDisk, sqIdeal>>
      /\ sq' = IF sqJob.op = "close" THEN Closed ELSE [sq EXCEPT !.dirty = FALSE]
  BY DEF cleonos_sqlite_flush
<1>2. /\ sq \in OpenFiles /\ Agrees(sq, sqIdeal)
      /\ sqDisk \in Seq(Pages) /\ Len(sqDisk) = sq.size
      /\ \A i \in 1 .. sq.size : sqDisk[i] = sqIdeal[i]
  BY <1>1 DEF SqInv, SqTyped, WritesPrefix, ImageAgrees
<1>3. sqDisk = sqIdeal
  BY <1>2, SeqEqual DEF Agrees
<1>4. sq' = Closed \/ (sq' \in OpenFiles /\ sq'.mem = sq.mem /\ sq'.size = sq.size)
  BY <1>1, <1>2, FileCleaned
<1>5. SqTyped'
  BY <1>1, <1>4 DEF SqInv, SqTyped
<1>6. ImageAgrees' /\ WritesPrefix' /\ CleanIsStored'
  BY <1>1, <1>2, <1>3, <1>4 DEF ImageAgrees, WritesPrefix, CleanIsStored, Agrees
<1> QED BY <1>5, <1>6 DEF SqInv

LEMMA FlushFailsKeeps ==
  ASSUME SqInv, FlushFails PROVE SqInv'
<1>1. CASE sqJob.op = "close"
  BY <1>1, GoneKeeps DEF FlushFails
<1>2. CASE sqJob.op # "close"
  <2>1. sqJob # NoJob /\ sqJob' = NoJob /\ UNCHANGED <<sq, sqIdeal, sqDisk>>
    BY <1>2 DEF FlushFails
  <2>2. sq.dirty /\ sq \in OpenFiles
    BY <2>1 DEF SqInv, SqTyped, WritesPrefix
  <2>3. SqTyped' /\ ImageAgrees' /\ WritesPrefix'
    BY <2>1 DEF SqInv, SqTyped, ImageAgrees, WritesPrefix
  <2>4. CleanIsStored'
    BY <2>1, <2>2, OpenIsOpen DEF CleanIsStored
  <2> QED BY <2>3, <2>4 DEF SqInv
<1> QED BY <1>1, <1>2

LEMMA SqCloseKeeps ==
  ASSUME SqInv, cleonos_sqlite_close PROVE SqInv'
<1>1. CASE sq.open /\ ~sq.drop /\ FlushStarts("close")
  BY <1>1, FlushStartKeeps
<1>2. CASE /\ sq.open /\ sqJob = NoJob /\ (sq.drop \/ ~sq.dirty)
           /\ sq' = Closed
           /\ sqDisk' = IF sq.drop THEN Missing ELSE sqDisk
           /\ sqIdeal' = IF sq.drop THEN Missing ELSE sqIdeal
           /\ UNCHANGED <<sqJob, sqLock>>
  <2>1. CASE sq.drop
    BY <1>2, <2>1, GoneKeeps
  <2>2. CASE ~sq.drop
    <3>1. ~sq.dirty /\ sq' = Closed /\ UNCHANGED <<sqDisk, sqIdeal, sqJob>> /\ sqJob = NoJob
      BY <1>2, <2>2
    <3>2. SqTyped' /\ ImageAgrees' /\ WritesPrefix'
      BY <3>1 DEF SqInv, SqTyped, ImageAgrees, WritesPrefix
    <3>3. CleanIsStored'
      BY <3>1 DEF SqInv, CleanIsStored
    <3> QED BY <3>2, <3>3 DEF SqInv
  <2> QED BY <2>1, <2>2
<1> QED BY <1>1, <1>2 DEF cleonos_sqlite_close

LEMMA SqInvStep ==
  ASSUME SQ_CAPACITY \in Nat, "missing" \notin SqPages, SqInv, [SqNext]_sqVars PROVE SqInv'
<1>1. CASE \E c, d \in BOOLEAN : cleonos_sqlite_open(c, d)
  BY <1>1, OpenKeeps
<1>2. CASE \E d \in BOOLEAN : OpenFails(d)
  BY <1>2, Handle, GoneKeeps DEF OpenFails
<1>3. CASE \E at \in 1 .. SqMax, b \in SqPages : cleonos_sqlite_write(at, b)
  BY <1>3, WriteKeeps
<1>4. CASE \E size \in 0 .. SqMax : cleonos_sqlite_truncate(size)
  BY <1>4, TruncateKeeps
<1>5. CASE cleonos_sqlite_sync
  BY <1>5, FlushStartKeeps DEF cleonos_sqlite_sync
<1>6. CASE cleonos_sqlite_close
  BY <1>6, SqCloseKeeps
<1>7. CASE cleonos_sqlite_write_whole_file
  BY <1>7, PageWriteKeeps
<1>8. CASE cleonos_sqlite_flush
  BY <1>8, FlushKeeps
<1>9. CASE FlushFails
  BY <1>9, FlushFailsKeeps
<1>10. CASE ProgramEnds
  BY <1>10, GoneKeeps DEF ProgramEnds
<1>11. CASE cleonos_sqlite_delete
  BY <1>11, Handle, GoneKeeps DEF cleonos_sqlite_delete
<1>12. CASE UNCHANGED <<sqDisk, sq, sqIdeal, sqJob>>
  BY <1>12 DEF SqInv, SqTyped, ImageAgrees, WritesPrefix, CleanIsStored
<1>13. CASE \E level \in 0 .. 2 : cleonos_sqlite_lock(level) \/ cleonos_sqlite_unlock(level)
  BY <1>12, <1>13 DEF cleonos_sqlite_lock, cleonos_sqlite_unlock
<1> QED BY <1>1, <1>2, <1>3, <1>4, <1>5, <1>6, <1>7, <1>8, <1>9, <1>10, <1>11, <1>12, <1>13 DEF SqNext, sqVars

(***************************************************************************)
(* xRead gives the file that was promised, and a clean handle or a          *)
(* successful xClose leaves all of it on the disk: for files and writes of  *)
(* any length, whatever fails and wherever the program ends.  No page may   *)
(* be the mark the model uses for a file that is not there.                 *)
(***************************************************************************)
THEOREM SqliteIsSound == SqSpec => []SqliteSound
<1> USE SqAssumption
<1>1. SqInit => SqInv
  BY SqInitInv
<1>2. SqInv /\ [SqNext]_sqVars => SqInv'
  BY SqInvStep
<1>3. SqInv => SqliteSound
  <2> SUFFICES ASSUME SqInv PROVE ImageIsPromised
    BY DEF SqInv, SqliteSound
  <2> SUFFICES ASSUME sq.open
               PROVE  /\ sq.size = Len(sqIdeal)
                      /\ \A at \in 1 .. SqMax : cleonos_sqlite_read(sq, at) =
                            IF at <= Len(sqIdeal) THEN sqIdeal[at] ELSE "0"
    BY DEF ImageIsPromised
  <2>1. sq \in OpenFiles /\ Agrees(sq, sqIdeal)
    BY Handle
  <2>2. sq.size \in Nat
    BY <2>1 DEF OpenFiles
  <2> QED BY <2>1, <2>2 DEF Agrees, cleonos_sqlite_read
<1> QED BY <1>1, <1>2, <1>3, PTL DEF SqSpec

(***************************************************************************)
(* The account commands, for any number of them at the same time, any users*)
(* and any size of users.db: root's account stays the first one.           *)
(***************************************************************************)

DbLine == [name : Names \cup {"#"}, role : Roles, hash : Passwords \cup {"none"}]

KeepsRoot(db) ==
    /\ db \in Seq(DbLine) /\ Len(db) >= 2
    /\ db[1] = Comment /\ db[2].name = Root

AccountLine == [name : Names, role : Roles, hash : Passwords \cup {"none"}]

\* What a command that is under way has prepared: never the removal of root,
\* and never lines that lost it.
CommandOK(c) ==
    \/ c = Idle
    \/ \E pc \in {"create", "append"}, l \in AccountLine : c = [pc |-> pc, line |-> l]
    \/ \E l \in AccountLine, r \in BOOLEAN :
          c = [pc |-> "load", line |-> l, remove |-> r] /\ (r => l.name # Root)
    \/ \E db : KeepsRoot(db) /\ c = [pc |-> "write", next |-> db]

UsersInv ==
    /\ KeepsRoot(usersDb)
    /\ userCmd = [p \in UserProcs |-> userCmd[p]]
    /\ \A p \in UserProcs : CommandOK(userCmd[p])

(***************************************************************************)
(* Induction on the naturals, and what removing a name leaves.             *)
(***************************************************************************)

\* f holds the lines kept of the first lines of db, up to n.
KeepsUpTo(f, db, name, n) ==
    f = [m \in 0 .. n |-> IF m = 0 THEN <<>> ELSE Kept(f[m - 1], db[m], name)]

LEMMA KeepingExists ==
  ASSUME NEW db, NEW name, NEW n \in Nat
  PROVE  \E f : KeepsUpTo(f, db, name, n)
<1> DEFINE bad == {m \in Nat : ~\E f : KeepsUpTo(f, db, name, m)}
<1> SUFFICES ASSUME bad # {} PROVE FALSE
  OBVIOUS
<1>1. PICK m \in bad : \A y \in bad : m <= y
  BY LeastIndex
<1>2. m # 0
  <2> SUFFICES ASSUME m = 0 PROVE FALSE
    OBVIOUS
  <2> DEFINE f == [k \in 0 .. 0 |-> <<>>]
  <2>1. KeepsUpTo(f, db, name, 0)
    BY DEF KeepsUpTo
  <2> QED BY <1>1, <2>1
<1>3. m - 1 \in Nat /\ m - 1 \notin bad
  BY <1>1, <1>2
<1>4. PICK g : KeepsUpTo(g, db, name, m - 1)
  BY <1>3
<1> DEFINE f == [k \in 0 .. m |-> IF k = m THEN Kept(g[m - 1], db[m], name) ELSE g[k]]
<1>5. ASSUME NEW k \in 0 .. m
      PROVE  f[k] = IF k = 0 THEN <<>> ELSE Kept(f[k - 1], db[k], name)
  <2>1. CASE k = m
    <3>1. f[k] = Kept(g[m - 1], db[m], name) /\ f[m - 1] = g[m - 1]
      BY <1>2, <1>3, <2>1
    <3> QED BY <1>2, <2>1, <3>1
  <2>2. CASE k # m /\ k = 0
    BY <1>3, <1>4, <2>2 DEF KeepsUpTo
  <2>3. CASE k # m /\ k # 0
    <3>1. f[k] = g[k] /\ f[k - 1] = g[k - 1] /\ k \in 0 .. (m - 1)
      BY <1>3, <2>3
    <3>2. g[k] = Kept(g[k - 1], db[k], name)
      BY <1>4, <2>3, <3>1 DEF KeepsUpTo
    <3> QED BY <2>3, <3>1, <3>2
  <2> QED BY <2>1, <2>2, <2>3
<1>6. KeepsUpTo(f, db, name, m)
  <2> DEFINE g2 == [k \in 0 .. m |-> IF k = 0 THEN <<>> ELSE Kept(f[k - 1], db[k], name)]
  <2>1. f = g2
    BY <1>5
  <2> HIDE DEF f
  <2> QED BY <2>1 DEF KeepsUpTo
<1> QED BY <1>1, <1>6

LEMMA RemovedKeeps ==
  ASSUME NEW db, NEW name, Len(db) \in Nat
  PROVE  \E f : KeepsUpTo(f, db, name, Len(db)) /\ Removed(db, name) = f[Len(db)]
<1> DEFINE rest == CHOOSE f : f = [n \in 0 .. Len(db) |-> IF n = 0 THEN <<>> ELSE Kept(f[n - 1], db[n], name)]
<1>0. PICK g : KeepsUpTo(g, db, name, Len(db))
  BY KeepingExists
<1>1. g = [n \in 0 .. Len(db) |-> IF n = 0 THEN <<>> ELSE Kept(g[n - 1], db[n], name)]
  BY <1>0 DEF KeepsUpTo
<1>2. rest = [n \in 0 .. Len(db) |-> IF n = 0 THEN <<>> ELSE Kept(rest[n - 1], db[n], name)]
  BY <1>1
<1>3. Removed(db, name) = rest[Len(db)]
  BY DEF Removed
<1> QED BY <1>2, <1>3 DEF KeepsUpTo

\* Of the first n lines: the lines kept are lines, and begin as the file does.
KeptSoFar(s, db, n) ==
    /\ s \in Seq(DbLine)
    /\ n >= 1 => Len(s) >= 1 /\ s[1] = db[1]
    /\ n >= 2 => Len(s) >= 2 /\ s[2] = db[2]
    /\ n <= 1 => Len(s) = n

\* A line more leaves the first two as they are.
LEMMA AppendAfter ==
  ASSUME NEW s \in Seq(DbLine), NEW l \in DbLine
  PROVE  /\ Append(s, l) \in Seq(DbLine) /\ Len(Append(s, l)) = Len(s) + 1
         /\ Append(s, l)[Len(s) + 1] = l
         /\ \A i \in {1, 2} : i <= Len(s) => Append(s, l)[i] = s[i]
<1>1. /\ Append(s, l) \in Seq(DbLine) /\ Len(Append(s, l)) = Len(s) + 1 /\ Len(s) \in Nat
      /\ \A i \in 1 .. Len(s) : Append(s, l)[i] = s[i]
      /\ Append(s, l)[Len(s) + 1] = l
  BY AppendProperties, LenProperties
<1>2. \A i \in {1, 2} : i <= Len(s) => i \in 1 .. Len(s)
  BY <1>1
<1> QED BY <1>1, <1>2

\* Without another name than root's, the lines keep root.
LEMMA RemovedKeepsRoot ==
  ASSUME NEW db, KeepsRoot(db), NEW name \in UserNames, Root \notin UserNames, "#" \notin UserNames
  PROVE  KeepsRoot(Removed(db, name))
<1>0. /\ db \in Seq(DbLine) /\ Len(db) \in Nat /\ Len(db) >= 2 /\ DOMAIN db = 1 .. Len(db)
      /\ db[1] = Comment /\ db[2].name = Root
  BY LenProperties DEF KeepsRoot
<1>2. PICK f : KeepsUpTo(f, db, name, Len(db)) /\ Removed(db, name) = f[Len(db)]
  BY <1>0, RemovedKeeps
<1>3. /\ f[0] = <<>>
      /\ \A m \in 1 .. Len(db) : f[m] = Kept(f[m - 1], db[m], name)
  BY <1>0, <1>2 DEF KeepsUpTo
<1>4. db[1].name # name /\ db[2].name # name
  BY <1>0 DEF Comment
<1> DEFINE bad == {n \in Nat : n <= Len(db) /\ ~KeptSoFar(f[n], db, n)}
<1>5. KeptSoFar(f[0], db, 0)
  <2> DEFINE e == <<>>
  <2>1. e \in Seq(DbLine) /\ Len(e) = 0
    BY EmptySeq
  <2> HIDE DEF e
  <2>2. f[0] = e
    BY <1>3 DEF e
  <2> QED BY <2>1, <2>2 DEF KeptSoFar
<1>6. ASSUME NEW n \in 1 .. Len(db), KeptSoFar(f[n - 1], db, n - 1)
      PROVE  KeptSoFar(f[n], db, n)
  <2> DEFINE s == f[n - 1]
             l == db[n]
  <2>1. l \in DbLine /\ n \in Nat /\ n >= 1
    BY <1>0, ElementOfSeq
  <2>2. f[n] = Kept(s, l, name)
    BY <1>3
  <2>3. /\ s \in Seq(DbLine) /\ Len(s) \in Nat
        /\ n - 1 >= 1 => Len(s) >= 1 /\ s[1] = db[1]
        /\ n - 1 >= 2 => Len(s) >= 2 /\ s[2] = db[2]
        /\ n - 1 <= 1 => Len(s) = n - 1
    BY <1>6, LenProperties DEF KeptSoFar
  <2> HIDE DEF s
  <2>5. CASE l.name = name
    <3>1. f[n] = s
      BY <2>2, <2>5 DEF Kept
    <3>2. n # 1 /\ n # 2
      BY <1>4, <2>5
    <3> HIDE DEF l
    <3> QED BY <2>1, <2>3, <3>1, <3>2 DEF KeptSoFar
  <2>6. CASE l.name # name
    <3> DEFINE t == Append(s, l)
    <3>1. f[n] = t
      BY <2>2, <2>6 DEF Kept
    <3>2. /\ t \in Seq(DbLine) /\ Len(t) = Len(s) + 1 /\ t[Len(s) + 1] = l
          /\ 1 <= Len(s) => t[1] = s[1]
          /\ 2 <= Len(s) => t[2] = s[2]
      BY <2>1, <2>3, AppendAfter
    <3>3. l = db[n]
      OBVIOUS
    <3> HIDE DEF t, l
    <3>4. n >= 1 => Len(t) >= 1 /\ t[1] = db[1]
      <4>1. CASE n = 1
        BY <2>3, <3>2, <3>3, <4>1
      <4>2. CASE n # 1
        BY <2>1, <2>3, <3>2, <4>2
      <4> QED BY <4>1, <4>2
    <3>5. n >= 2 => Len(t) >= 2 /\ t[2] = db[2]
      <4>1. CASE n = 2
        <5>1. n - 1 <= 1 /\ n - 1 = 1
          BY ONLY <4>1
        <5>2. Len(s) = 1
          BY ONLY <2>3, <5>1
        <5>3. Len(t) = 2 /\ t[2] = l
          BY ONLY <3>2, <5>2
        <5>4. l = db[2]
          BY ONLY <3>3, <4>1
        <5> QED BY <5>3, <5>4
      <4>2. CASE n # 2 /\ n >= 2
        <5>1. n - 1 >= 2
          <6>1. n \in Nat
            BY <2>1
          <6> QED BY ONLY <4>2, <6>1
        <5> QED BY <2>3, <3>2, <4>2, <5>1
      <4> QED BY <4>1, <4>2
    <3>6. n <= 1 => Len(t) = n
      BY <2>1, <2>3, <3>2
    <3> QED BY <3>1, <3>2, <3>4, <3>5, <3>6 DEF KeptSoFar
  <2> QED BY <2>5, <2>6
<1>7. bad = {}
  <2> SUFFICES ASSUME bad # {} PROVE FALSE
    OBVIOUS
  <2>1. PICK n \in bad : \A y \in bad : n <= y
    BY LeastIndex
  <2>2. n # 0
    BY <1>5, <2>1
  <2>3. n - 1 \in Nat /\ n - 1 \notin bad /\ n \in 1 .. Len(db)
    BY <1>0, <2>1, <2>2
  <2>4. KeptSoFar(f[n - 1], db, n - 1)
    BY <1>0, <2>3
  <2> QED BY <1>6, <2>1, <2>3, <2>4
<1>8. KeptSoFar(f[Len(db)], db, Len(db))
  BY <1>0, <1>7
<1> QED BY <1>0, <1>2, <1>8 DEF KeptSoFar, KeepsRoot

\* Nor does writing another record for a name.
LEMMA ReplacedKeepsRoot ==
  ASSUME NEW db, KeepsRoot(db), NEW record \in AccountLine, "#" \notin UserNames
  PROVE  KeepsRoot(Replaced(db, record))
<1>0. /\ db \in Seq(DbLine) /\ Len(db) \in Nat /\ Len(db) >= 2 /\ DOMAIN db = 1 .. Len(db)
      /\ db[1] = Comment /\ db[2].name = Root
  BY LenProperties DEF KeepsRoot
<1> DEFINE r == Replaced(db, record)
<1>1. r = [i \in 1 .. Len(db) |-> IF db[i].name = record.name THEN record ELSE db[i]]
  BY <1>0 DEF Replaced
<1>2. \A i \in 1 .. Len(db) : (IF db[i].name = record.name THEN record ELSE db[i]) \in DbLine
  <2>1. record \in DbLine
    BY DEF AccountLine, DbLine
  <2> QED BY <1>0, <2>1, ElementOfSeq
<1> HIDE DEF r
<1>3. r \in Seq(DbLine)
  BY <1>0, <1>1, <1>2, IsASeq
<1>4. \A i \in 1 .. Len(db) : r[i].name = db[i].name
  BY <1>1
<1>5. 1 \in 1 .. Len(db) /\ 2 \in 1 .. Len(db)
  BY <1>0
<1>6. Len(r) >= 2
  <2>1. DOMAIN r = 1 .. Len(db) /\ DOMAIN r = 1 .. Len(r) /\ Len(r) \in Nat
    BY <1>1, <1>3, LenProperties
  <2> QED BY <1>0, <2>1
<1>7. r[1] = Comment
  <2>1. record.name # Comment.name
    BY DEF AccountLine, Comment, Names, Root
  <2> QED BY <1>0, <1>1, <1>5, <2>1
<1>8. r[2].name = Root
  BY <1>0, <1>4, <1>5
<1> QED BY <1>3, <1>6, <1>7, <1>8 DEF KeepsRoot, r

\* Nor a new account, be it a second one for root.
LEMMA AppendedKeepsRoot ==
  ASSUME NEW db, KeepsRoot(db), NEW line \in AccountLine
  PROVE  KeepsRoot(Append(db, line))
<1>0. db \in Seq(DbLine) /\ Len(db) \in Nat /\ Len(db) >= 2 /\ db[1] = Comment /\ db[2].name = Root
  BY LenProperties DEF KeepsRoot
<1>1. line \in DbLine
  BY DEF AccountLine, DbLine
<1> DEFINE t == Append(db, line)
<1>2. t \in Seq(DbLine) /\ Len(t) = Len(db) + 1 /\ t[1] = db[1] /\ t[2] = db[2]
  BY <1>0, <1>1, AppendAfter
<1> HIDE DEF t
<1> QED BY <1>0, <1>2 DEF KeepsRoot, t

(***************************************************************************)
(* The commands.                                                           *)
(***************************************************************************)

\* The account that is looked up is one of the file's.
LEMMA FindUserFinds ==
  ASSUME NEW db \in Seq(DbLine), NEW name \in Names, \E i \in DOMAIN db : db[i].name = name
  PROVE  FindUser(db, name) \in AccountLine /\ FindUser(db, name).name = name
<1>0. Len(db) \in Nat /\ DOMAIN db = 1 .. Len(db)
  BY LenProperties
<1> DEFINE at == {i \in 1 .. Len(db) : db[i].name = name}
           first == CHOOSE i \in DOMAIN db : db[i].name = name /\ \A j \in 1 .. i - 1 : db[j].name # name
<1>1. at \subseteq Nat /\ at # {}
  BY <1>0
<1>2. PICK m \in at : \A y \in at : m <= y
  <2> HIDE DEF at
  <2> QED BY <1>1, LeastIndex
<1>3. m \in DOMAIN db /\ db[m].name = name /\ \A j \in 1 .. m - 1 : db[j].name # name
  BY <1>0, <1>2
<1>4. first \in DOMAIN db /\ db[first].name = name
  BY <1>3
<1>5. FindUser(db, name) = db[first]
  BY DEF FindUser
<1> HIDE DEF first
<1>6. db[first] \in DbLine
  BY <1>0, <1>4, ElementOfSeq
<1> DEFINE l == db[first]
<1>7. l \in [name : Names \cup {"#"}, role : Roles, hash : Passwords \cup {"none"}] /\ l.name = name
  BY <1>4, <1>6 DEF DbLine
<1> HIDE DEF l
<1>8. l \in AccountLine
  BY <1>7 DEF AccountLine
<1> QED BY <1>5, <1>7, <1>8 DEF l

\* The record with another role, or with another password.
LEMMA NewRole ==
  ASSUME NEW l \in AccountLine, NEW role \in Roles
  PROVE  [l EXCEPT !.role = role] \in AccountLine
BY DEF AccountLine

LEMMA NewHash ==
  ASSUME NEW l \in AccountLine, NEW h \in Passwords
  PROVE  [l EXCEPT !.hash = h] \in AccountLine
BY DEF AccountLine

LEMMA RecordIsLine ==
  ASSUME NEW name \in Names, NEW role \in Roles, NEW h \in Passwords \cup {"none"}
  PROVE  RecordLine(name, role, h) \in AccountLine /\ RecordLine(name, role, h).name = name
BY DEF RecordLine, AccountLine

\* A step of one command: what it leaves in the file and what it goes on with.
LEMMA OneCommand ==
  ASSUME UsersInv, NEW p \in UserProcs, NEW cmd, CommandOK(cmd), Run(p, cmd), KeepsRoot(usersDb)'
  PROVE  UsersInv'
<1>1. userCmd' = [q \in UserProcs |-> IF q = p THEN cmd ELSE userCmd[q]]
  BY DEF UsersInv, Run
<1>2. userCmd' = [q \in UserProcs |-> userCmd'[q]]
  BY <1>1
<1>3. ASSUME NEW q \in UserProcs PROVE CommandOK(userCmd[q])'
  BY <1>1 DEF UsersInv, CommandOK
<1> QED BY <1>2, <1>3 DEF UsersInv

\* A step that leaves every command where it is.
LEMMA NoAccountCommand ==
  ASSUME UsersInv, UNCHANGED userCmd, KeepsRoot(usersDb)'
  PROVE  UsersInv'
BY DEF UsersInv, CommandOK

LEMMA IdleIsOK == CommandOK(Idle)
BY DEF CommandOK

\* What a command of a given stage holds.
LEMMA CommandParts ==
  ASSUME NEW c, CommandOK(c)
  PROVE  /\ c.pc \in {"create", "append"} => c.line \in AccountLine /\ c = [pc |-> c.pc, line |-> c.line]
         /\ c.pc = "load" => c.line \in AccountLine /\ c.remove \in BOOLEAN /\ (c.remove => c.line.name # Root)
         /\ c.pc = "write" => KeepsRoot(c.next)
<1>1. CASE c = Idle
  BY <1>1 DEF Idle
<1>2. CASE \E pc \in {"create", "append"}, l \in AccountLine : c = [pc |-> pc, line |-> l]
  <2>1. PICK pc \in {"create", "append"}, l \in AccountLine : c = [pc |-> pc, line |-> l]
    BY <1>2
  <2> QED BY <2>1
<1>3. CASE \E l \in AccountLine, r \in BOOLEAN :
              c = [pc |-> "load", line |-> l, remove |-> r] /\ (r => l.name # Root)
  <2>1. PICK l \in AccountLine, r \in BOOLEAN :
              c = [pc |-> "load", line |-> l, remove |-> r] /\ (r => l.name # Root)
    BY <1>3
  <2> QED BY <2>1
<1>4. CASE \E db : KeepsRoot(db) /\ c = [pc |-> "write", next |-> db]
  <2>1. PICK db : KeepsRoot(db) /\ c = [pc |-> "write", next |-> db]
    BY <1>4
  <2> QED BY <2>1
<1> QED BY <1>1, <1>2, <1>3, <1>4 DEF CommandOK


(***************************************************************************)
(* One lemma for each action.                                              *)
(***************************************************************************)

LEMMA UseraddKeeps ==
  ASSUME UsersInv, NEW p \in UserProcs, NEW name \in Names,
         NEW h \in Passwords, NEW role \in Roles, UseraddStart(p, name, h, role)
  PROVE  UsersInv'
<1> DEFINE l == RecordLine(name, role, h)
<1>1. l \in AccountLine
  BY DEF RecordLine, AccountLine
<1> HIDE DEF l
<1>2. KeepsRoot(usersDb)
  BY DEF UsersInv
<1>3. CASE usersDb' = Append(usersDb, l) /\ UNCHANGED userCmd
  BY <1>1, <1>2, <1>3, AppendedKeepsRoot, NoAccountCommand
<1>4. CASE Run(p, [pc |-> "create", line |-> l]) /\ UNCHANGED usersDb
  <2>1. CommandOK([pc |-> "create", line |-> l])
    BY <1>1 DEF CommandOK
  <2> QED BY <1>2, <1>4, <2>1, OneCommand
<1> QED BY <1>3, <1>4 DEF UseraddStart, l

LEMMA CreateFindKeeps ==
  ASSUME UsersInv, NEW p \in UserProcs, CreateFind(p)
  PROVE  UsersInv'
<1> DEFINE c == userCmd[p]
           goes == [c EXCEPT !.pc = "append"]
           next == IF Found(usersDb, c.line.name) THEN Idle ELSE goes
<1>1. c.pc = "create" /\ Run(p, next) /\ UNCHANGED usersDb
  BY DEF CreateFind
<1>2. c.line \in AccountLine /\ c = [pc |-> c.pc, line |-> c.line]
  BY <1>1, CommandParts DEF UsersInv
<1>3. goes = [pc |-> "append", line |-> c.line]
  BY <1>1, <1>2
<1>4. CommandOK(goes)
  BY <1>2, <1>3 DEF CommandOK
<1> HIDE DEF goes
<1>5. CommandOK(next) /\ KeepsRoot(usersDb)'
  BY <1>1, <1>4, IdleIsOK DEF UsersInv
<1> HIDE DEF next
<1> QED BY <1>1, <1>5, OneCommand

LEMMA CreateAppendKeeps ==
  ASSUME UsersInv, NEW p \in UserProcs, CreateAppend(p)
  PROVE  UsersInv'
<1>1. userCmd[p].line \in AccountLine
  BY CommandParts DEF UsersInv, CreateAppend
<1>2. usersDb' = Append(usersDb, userCmd[p].line) \/ usersDb' = usersDb
  BY DEF CreateAppend
<1>3. KeepsRoot(usersDb)'
  BY <1>1, <1>2, AppendedKeepsRoot DEF UsersInv
<1> QED BY <1>3, IdleIsOK, OneCommand DEF CreateAppend

LEMMA UsermodKeeps ==
  ASSUME UsersInv, "#" \notin UserNames, NEW p \in UserProcs, NEW name \in Names,
         NEW role \in Roles, UsermodStart(p, name, role)
  PROVE  UsersInv'
<1> DEFINE record == [FindUser(usersDb, name) EXCEPT !.role = role]
<1>1. KeepsRoot(usersDb) /\ usersDb \in Seq(DbLine) /\ \E i \in DOMAIN usersDb : usersDb[i].name = name
  BY DEF UsersInv, KeepsRoot, UsermodStart, Found
<1>2. record \in AccountLine
  BY <1>1, FindUserFinds, NewRole
<1>3. \/ usersDb' = Replaced(usersDb, record) /\ UNCHANGED userCmd
      \/ Run(p, [pc |-> "load", line |-> record, remove |-> FALSE]) /\ UNCHANGED usersDb
  BY DEF UsermodStart
<1> HIDE DEF record
<1>4. CASE usersDb' = Replaced(usersDb, record) /\ UNCHANGED userCmd
  BY <1>1, <1>2, <1>4, ReplacedKeepsRoot, NoAccountCommand
<1>5. CASE Run(p, [pc |-> "load", line |-> record, remove |-> FALSE]) /\ UNCHANGED usersDb
  <2>1. CommandOK([pc |-> "load", line |-> record, remove |-> FALSE])
    BY <1>2 DEF CommandOK
  <2> QED BY <1>1, <1>5, <2>1, OneCommand
<1> QED BY <1>3, <1>4, <1>5

LEMMA ChangePasswordKeeps ==
  ASSUME UsersInv, NEW p \in UserProcs, NEW name \in Names,
         NEW h \in Passwords, ChangePassword(p, name, h)
  PROVE  UsersInv'
<1> DEFINE record == [FindUser(usersDb, name) EXCEPT !.hash = h]
<1>1. KeepsRoot(usersDb) /\ usersDb \in Seq(DbLine) /\ \E i \in DOMAIN usersDb : usersDb[i].name = name
  BY DEF UsersInv, KeepsRoot, ChangePassword, Found
<1>2. record \in AccountLine
  BY <1>1, FindUserFinds, NewHash
<1>3. Run(p, [pc |-> "load", line |-> record, remove |-> FALSE]) /\ UNCHANGED usersDb
  BY DEF ChangePassword
<1> HIDE DEF record
<1>4. CommandOK([pc |-> "load", line |-> record, remove |-> FALSE])
  BY <1>2 DEF CommandOK
<1> QED BY <1>1, <1>3, <1>4, OneCommand

LEMMA UserdelKeeps ==
  ASSUME UsersInv, Root \notin UserNames, "#" \notin UserNames,
         NEW p \in UserProcs, NEW name \in Names, UserdelStart(p, name)
  PROVE  UsersInv'
<1> DEFINE record == RecordLine(name, "user", "none")
<1>1. name \in UserNames /\ KeepsRoot(usersDb)
  BY DEF UserdelStart, MayRemove, Names, UsersInv
<1>2. record \in AccountLine /\ record.name # Root
  BY <1>1 DEF RecordLine, AccountLine, Names, Roles, Root
<1>3. \/ usersDb' = Removed(usersDb, name) /\ UNCHANGED userCmd
      \/ Run(p, [pc |-> "load", line |-> record, remove |-> TRUE]) /\ UNCHANGED usersDb
  BY DEF UserdelStart
<1> HIDE DEF record
<1>4. CASE usersDb' = Removed(usersDb, name) /\ UNCHANGED userCmd
  BY <1>1, <1>4, RemovedKeepsRoot, NoAccountCommand
<1>5. CASE Run(p, [pc |-> "load", line |-> record, remove |-> TRUE]) /\ UNCHANGED usersDb
  <2>1. CommandOK([pc |-> "load", line |-> record, remove |-> TRUE])
    BY <1>2 DEF CommandOK
  <2> QED BY <1>1, <1>5, <2>1, OneCommand
<1> QED BY <1>3, <1>4, <1>5

LEMMA RewriteLoadKeeps ==
  ASSUME UsersInv, Root \notin UserNames, "#" \notin UserNames, NEW p \in UserProcs, RewriteLoad(p)
  PROVE  UsersInv'
<1> DEFINE c == userCmd[p]
           lines == IF c.remove THEN Removed(usersDb, c.line.name) ELSE Replaced(usersDb, c.line)
           next == IF ~Found(usersDb, c.line.name) THEN Idle ELSE [pc |-> "write", next |-> lines]
<1>1. c.pc = "load" /\ (Run(p, next) \/ Run(p, Idle)) /\ UNCHANGED usersDb
  BY DEF RewriteLoad
<1>2. c.line \in AccountLine /\ c.remove \in BOOLEAN /\ (c.remove => c.line.name # Root) /\ KeepsRoot(usersDb)
  BY <1>1, CommandParts DEF UsersInv
<1>3. c.remove => c.line.name \in UserNames
  BY <1>2 DEF AccountLine, Names
<1>4. KeepsRoot(lines)
  BY <1>2, <1>3, RemovedKeepsRoot, ReplacedKeepsRoot
<1> HIDE DEF lines
<1>5. CommandOK([pc |-> "write", next |-> lines])
  BY <1>4 DEF CommandOK
<1>6. CommandOK(next)
  BY <1>5, IdleIsOK
<1> HIDE DEF next
<1> QED BY <1>1, <1>2, <1>6, IdleIsOK, OneCommand

LEMMA RewriteStoreKeeps ==
  ASSUME UsersInv, NEW p \in UserProcs, RewriteStore(p)
  PROVE  UsersInv'
<1>1. KeepsRoot(userCmd[p].next) /\ KeepsRoot(usersDb)
  BY CommandParts DEF UsersInv, RewriteStore
<1>2. usersDb' = usersDb \/ usersDb' = userCmd[p].next
  BY DEF RewriteStore
<1>3. KeepsRoot(usersDb)'
  BY <1>1, <1>2
<1> QED BY <1>3, IdleIsOK, OneCommand DEF RewriteStore

LEMMA PasswdKeeps ==
  ASSUME UsersInv, "#" \notin UserNames, NEW p \in UserProcs, NEW name \in Names,
         NEW h \in Passwords, NEW g \in Passwords, Passwd(p, name, h, g)
  PROVE  UsersInv'
<1> DEFINE record == [FindUser(usersDb, name) EXCEPT !.hash = g]
<1>1. KeepsRoot(usersDb) /\ usersDb \in Seq(DbLine) /\ \E i \in DOMAIN usersDb : usersDb[i].name = name
  BY DEF UsersInv, KeepsRoot, Passwd, Found
<1>2. record \in AccountLine
  BY <1>1, FindUserFinds, NewHash
<1>3. usersDb' = Replaced(usersDb, record) /\ UNCHANGED userCmd
  BY DEF Passwd
<1> HIDE DEF record
<1> QED BY <1>1, <1>2, <1>3, ReplacedKeepsRoot, NoAccountCommand

(***************************************************************************)
(* The theorem.                                                            *)
(***************************************************************************)

LEMMA UsersStart ==
  ASSUME Passwords # {}, "#" \notin UserNames, UsersInit
  PROVE  UsersInv
<1> DEFINE h == CHOOSE x \in Passwords : TRUE
           l == RecordLine(Root, "admin", h)
<1>1. h \in Passwords
  OBVIOUS
<1> HIDE DEF h
<1>2. l \in DbLine /\ l.name = Root /\ Comment \in DbLine /\ Comment.name # Root
  BY <1>1 DEF RecordLine, DbLine, Names, Roles, Comment, Root
<1> HIDE DEF l
<1>3. usersDb = <<Comment, l>>
  BY DEF UsersInit, l, h
<1>4. usersDb \in Seq(DbLine) /\ DOMAIN usersDb = 1 .. 2
  BY <1>2, <1>3
<1>5. usersDb[1] = Comment /\ usersDb[2] = l
  BY <1>3
<1>6. Len(usersDb) = 2
  BY <1>3
<1>7. KeepsRoot(usersDb)
  BY <1>2, <1>4, <1>5, <1>6 DEF KeepsRoot
<1>8. userCmd = [p \in UserProcs |-> Idle]
  BY DEF UsersInit
<1> QED BY <1>7, <1>8, IdleIsOK DEF UsersInv

LEMMA UsersStep ==
  ASSUME UsersInv, [UsersNext]_usersVars, Root \notin UserNames, "#" \notin UserNames
  PROVE  UsersInv'
<1>1. CASE UNCHANGED usersVars
  BY <1>1, NoAccountCommand DEF usersVars, UsersInv
<1>2. CASE Logout \/ \E name \in Names, h \in Passwords : Login(name, h)
  <2>1. UNCHANGED <<usersDb, userCmd>>
    BY <1>2 DEF Logout, Login
  <2> QED BY <2>1, NoAccountCommand DEF UsersInv
<1>3. ASSUME NEW p \in UserProcs,
             CreateFind(p) \/ CreateAppend(p) \/ RewriteLoad(p) \/ RewriteStore(p)
      PROVE  UsersInv'
  BY <1>3, CreateFindKeeps, CreateAppendKeeps, RewriteLoadKeeps, RewriteStoreKeeps
<1>4. ASSUME NEW p \in UserProcs, NEW name \in Names, UserdelStart(p, name)
      PROVE  UsersInv'
  BY <1>4, UserdelKeeps
<1>5. ASSUME NEW p \in UserProcs, NEW name \in Names, NEW role \in Roles, UsermodStart(p, name, role)
      PROVE  UsersInv'
  BY <1>5, UsermodKeeps
<1>6. ASSUME NEW p \in UserProcs, NEW name \in Names, NEW role \in Roles, NEW h \in Passwords,
             UseraddStart(p, name, h, role)
      PROVE  UsersInv'
  BY <1>6, UseraddKeeps
<1>7. ASSUME NEW p \in UserProcs, NEW name \in Names, NEW h \in Passwords, ChangePassword(p, name, h)
      PROVE  UsersInv'
  BY <1>7, ChangePasswordKeeps
<1>8. ASSUME NEW p \in UserProcs, NEW name \in Names, NEW h \in Passwords, NEW g \in Passwords,
             Passwd(p, name, h, g)
      PROVE  UsersInv'
  BY <1>8, PasswdKeeps
<1> QED BY ONLY [UsersNext]_usersVars, <1>1, <1>2, <1>3, <1>4, <1>5, <1>6, <1>7, <1>8 DEF UsersNext

\* A command that goes on to append its line was at create, and did not find the
\* account.
LEMMA GoesOnToAppend ==
  ASSUME UsersInv, [UsersNext]_usersVars, NEW p \in UserProcs,
         userCmd[p] # userCmd'[p], userCmd'[p].pc = "append"
  PROVE  /\ userCmd[p].pc = "create" /\ userCmd'[p].line = userCmd[p].line
         /\ ~Found(usersDb, userCmd[p].line.name)
<1>1. userCmd = [q \in UserProcs |-> userCmd[q]]
  BY DEF UsersInv
<1>2. ASSUME NEW q \in UserProcs, NEW cmd, Run(q, cmd), cmd.pc # "append"
      PROVE  FALSE
  <2>1. userCmd'[p] = IF p = q THEN cmd ELSE userCmd[p]
    BY <1>1, <1>2 DEF Run
  <2> QED BY <1>2, <2>1
<1>3. userCmd' # userCmd
  OBVIOUS
<1>4. Idle.pc # "append"
  BY DEF Idle
<1>5. PICK q \in UserProcs : CreateFind(q)
  <2>1. CASE \E q \in UserProcs : CreateAppend(q) \/ RewriteStore(q)
    BY <1>2, <1>4, <2>1 DEF CreateAppend, RewriteStore
  <2>2. ASSUME NEW q \in UserProcs, RewriteLoad(q) PROVE FALSE
    <3> DEFINE next == IF userCmd[q].remove THEN Removed(usersDb, userCmd[q].line.name)
                       ELSE Replaced(usersDb, userCmd[q].line)
    <3>1. Run(q, Idle) \/ Run(q, [pc |-> "write", next |-> next])
      BY <2>2 DEF RewriteLoad
    <3> HIDE DEF next
    <3> QED BY <1>2, <1>4, <3>1
  <2>3. ASSUME NEW q \in UserProcs, NEW name \in Names, UserdelStart(q, name) PROVE FALSE
    <3> DEFINE l == RecordLine(name, "user", "none")
    <3>1. Run(q, [pc |-> "load", line |-> l, remove |-> TRUE])
      BY <1>3, <2>3 DEF UserdelStart
    <3> HIDE DEF l
    <3> QED BY <1>2, <3>1
  <2>4. ASSUME NEW q \in UserProcs, NEW name \in Names, NEW role \in Roles, UsermodStart(q, name, role)
        PROVE FALSE
    <3> DEFINE l == [FindUser(usersDb, name) EXCEPT !.role = role]
    <3>1. Run(q, [pc |-> "load", line |-> l, remove |-> FALSE])
      BY <1>3, <2>4 DEF UsermodStart
    <3> HIDE DEF l
    <3> QED BY <1>2, <3>1
  <2>5. ASSUME NEW q \in UserProcs, NEW name \in Names, NEW h \in Passwords, ChangePassword(q, name, h)
        PROVE FALSE
    <3> DEFINE l == [FindUser(usersDb, name) EXCEPT !.hash = h]
    <3>1. Run(q, [pc |-> "load", line |-> l, remove |-> FALSE])
      BY <2>5 DEF ChangePassword
    <3> HIDE DEF l
    <3> QED BY <1>2, <3>1
  <2>6. ASSUME NEW q \in UserProcs, NEW name \in Names, NEW role \in Roles, NEW h \in Passwords,
               UseraddStart(q, name, h, role)
        PROVE FALSE
    <3> DEFINE l == RecordLine(name, role, h)
    <3>1. Run(q, [pc |-> "create", line |-> l])
      BY <1>3, <2>6 DEF UseraddStart
    <3> HIDE DEF l
    <3> QED BY <1>2, <3>1
  <2>7. ASSUME NEW q \in UserProcs, NEW name \in Names, NEW h \in Passwords, NEW g \in Passwords,
               Passwd(q, name, h, g)
        PROVE FALSE
    BY <1>3, <2>7 DEF Passwd
  <2>8. CASE UNCHANGED usersVars \/ Logout \/ \E name \in Names, h \in Passwords : Login(name, h)
    BY <1>3, <2>8 DEF usersVars, Logout, Login
  <2> QED BY ONLY [UsersNext]_usersVars, <2>1, <2>2, <2>3, <2>4, <2>5, <2>6, <2>7, <2>8 DEF UsersNext
<1> DEFINE goes == [userCmd[q] EXCEPT !.pc = "append"]
<1>6. /\ userCmd[q].pc = "create"
      /\ Run(q, IF Found(usersDb, userCmd[q].line.name) THEN Idle ELSE goes)
  BY <1>5 DEF CreateFind
<1>7. ~Found(usersDb, userCmd[q].line.name)
  BY <1>2, <1>4, <1>6
<1>8. Run(q, goes)
  BY <1>6, <1>7
<1>9. userCmd'[p] = IF p = q THEN goes ELSE userCmd[p]
  <2> HIDE DEF goes
  <2> QED BY <1>1, <1>8 DEF Run
<1>10. p = q
  BY <1>9
<1>11. userCmd[q] = [pc |-> userCmd[q].pc, line |-> userCmd[q].line]
  BY <1>6, CommandParts DEF UsersInv
<1>12. goes.line = userCmd[q].line
  BY <1>11
<1> QED BY <1>6, <1>7, <1>9, <1>10, <1>12

LEMMA SecondRoot ==
  ASSUME UsersInv, [UsersNext]_usersVars
  PROVE  SecondRootUnread
<1> SUFFICES ASSUME NEW p \in UserProcs, userCmd[p] # userCmd'[p], userCmd'[p].pc = "append",
                    userCmd'[p].line.name = Root
             PROVE  ~Loads(usersDb)
  BY DEF SecondRootUnread
<1>1. ~Found(usersDb, Root)
  BY GoesOnToAppend
<1>2. 2 \in DOMAIN usersDb /\ usersDb[2].name = Root
  BY LenProperties DEF UsersInv, KeepsRoot
<1> QED BY <1>1, <1>2 DEF Found

\* However many account commands run at the same time, wherever one of them
\* stands between reading users.db and writing it, and whichever write fails,
\* root's account stays the first of the file, the one cleonos_user_find answers
\* with, and the line that is no account stays before it (cu_db_rewrite_with,
\* cleonos_user_create, cleonos_user_remove).  useradd is not kept from adding a
\* second line for root; it gets to it only from a file that fills the buffer.
THEOREM RootIsKept == UsersSpec => AccountsSound
<1> USE UsersAssumption
<1>1. UsersInit => UsersInv
  BY UsersStart
<1>2. UsersInv /\ [UsersNext]_usersVars => UsersInv'
  BY UsersStep
<1>3. UsersInv => CommentStays /\ RootStays
  BY EmptySeq DEF UsersInv, KeepsRoot, CommentStays, RootStays
<1>4. UsersInv /\ [UsersNext]_usersVars => [SecondRootUnread]_usersVars
  BY SecondRoot
<1> QED BY <1>1, <1>2, <1>3, <1>4, PTL DEF UsersSpec, AccountsSound

(***************************************************************************)
(* The file commands, for any directories, names and contents.             *)
(***************************************************************************)

FcNode == [type : {0, 1, 2}, data : Seq(FcBlocks)]
FcEntry == [name : FcNames \cup {Outside}, data : Seq(FcBlocks)]

FcCp == [op : {"cp"}, src : FcFiles, dst : FcFiles, at : Nat]
FcMv == [op : {"mv"}, pc : {"write", "remove"}, src : FcFiles, dst : FcFiles, buf : Seq(FcBlocks)]
FcZip == [op : {"zip"}, todo : Seq(FcFiles)]
FcUnzip == [op : {"unzip"}, pc : {"entry", "data"}, dst : FcDirs, at : Nat \ {0}, off : Nat]

\* What mv has read is still under the old path, and once it may remove it also
\* under the new one.
MoveUnderWay ==
    fcJob \in FcMv =>
        /\ fc[fcJob.src] = File(fcJob.buf)
        /\ fcJob.pc = "remove" => fc[fcJob.dst] = File(fcJob.buf)

Output(dst, e) == FcJoin[dst, e.name]

\* The entry being written has a prefix of its data; the entries before it that
\* have no later namesake so far are all there, but those that lead outside.
UnzipUnderWay ==
    fcJob \in FcUnzip =>
        /\ fcJob.pc = "entry" => fcJob.at <= Len(archive) + 1
        /\ fcJob.pc = "data" =>
             /\ fcJob.at <= Len(archive) /\ archive[fcJob.at].name # Outside
             /\ Output(fcJob.dst, archive[fcJob.at]) \in FcFiles
             /\ fc[Output(fcJob.dst, archive[fcJob.at])].type = 1
             /\ fcJob.off <= Len(archive[fcJob.at].data)
             /\ Len(fc[Output(fcJob.dst, archive[fcJob.at])].data) = fcJob.off
             /\ \A k \in 1..fcJob.off : fc[Output(fcJob.dst, archive[fcJob.at])].data[k] = archive[fcJob.at].data[k]
        /\ \A i \in 1..(fcJob.at - 1) : archive[i].name # Outside =>
             /\ Output(fcJob.dst, archive[i]) \in FcFiles
             /\ \/ fc[Output(fcJob.dst, archive[i])] = File(archive[i].data)
                \/ \E j \in (i + 1)..(fcJob.at - 1) : archive[j].name = archive[i].name
                \/ fcJob.pc = "data" /\ archive[fcJob.at].name = archive[i].name

FcTypes ==
    /\ fc \in [FcPaths -> FcNode]
    /\ archive \in Seq(FcEntry)
    /\ fcJob \in {NoProcess} \cup FcCp \cup FcMv \cup FcZip \cup FcUnzip

FcInv == FcTypes /\ MoveUnderWay /\ UnzipUnderWay

\* Which command a process runs is told by its op.
LEMMA FcJobKinds ==
    ASSUME FcTypes
    PROVE  /\ fcJob.op = "none" <=> fcJob = NoProcess
           /\ fcJob.op = "cp" => fcJob \in FcCp
           /\ fcJob.op = "mv" <=> fcJob \in FcMv
           /\ fcJob.op = "zip" => fcJob \in FcZip
           /\ fcJob.op = "unzip" <=> fcJob \in FcUnzip
BY DEF FcTypes, FcCp, FcMv, FcZip, FcUnzip, NoProcess

LEMMA LongerPrefix ==
    ASSUME NEW S, NEW s \in Seq(S), NEW d \in Seq(S), Len(s) < Len(d),
           \A k \in 1..Len(s) : s[k] = d[k]
    PROVE  LET longer == Append(s, d[Len(s) + 1])
           IN  /\ longer \in Seq(S) /\ Len(longer) = Len(s) + 1
               /\ \A k \in 1..(Len(s) + 1) : longer[k] = d[k]
<1>1. Len(s) \in Nat /\ Len(d) \in Nat
  OBVIOUS
<1>2. d[Len(s) + 1] \in S
  BY <1>1
<1> DEFINE longer == Append(s, d[Len(s) + 1])
<1>3. /\ longer \in Seq(S) /\ Len(longer) = Len(s) + 1
      /\ \A k \in 1..Len(s) : longer[k] = s[k]
      /\ longer[Len(s) + 1] = d[Len(s) + 1]
  BY <1>2, AppendProperties
<1>4. \A k \in 1..(Len(s) + 1) : k \in 1..Len(s) \/ k = Len(s) + 1
  BY <1>1
<1> QED BY <1>3, <1>4

LEMMA FcNodes ==
    /\ None \in FcNode /\ Dir \in FcNode
    /\ File(<<>>) \in FcNode /\ File(<<>>).type = 1 /\ File(<<>>).data = <<>>
    /\ \A d \in Seq(FcBlocks) : File(d) \in FcNode /\ File(d).type = 1 /\ File(d).data = d
    /\ \A n \in FcNode : n.type = 1 => n = File(n.data)
    /\ \A d : File(d) # None /\ File(d) # Dir
    /\ None.type = 0 /\ Dir.type = 2
<1>1. <<>> \in Seq(FcBlocks)
  OBVIOUS
<1>2. None \in FcNode /\ Dir \in FcNode
  BY <1>1 DEF None, Dir, FcNode
<1>3. \A d \in Seq(FcBlocks) : File(d) \in FcNode /\ File(d).type = 1 /\ File(d).data = d
  BY DEF File, FcNode
<1>4. \A n \in FcNode : n.type = 1 => n = File(n.data)
  BY DEF File, FcNode
<1>5. \A d : File(d) # None /\ File(d) # Dir
  BY DEF File, None, Dir
<1>6. None.type = 0 /\ Dir.type = 2
  BY DEF None, Dir
<1> QED BY <1>1, <1>2, <1>3, <1>4, <1>5, <1>6

LEMMA FcStart == FcInit => FcInv
<1> SUFFICES ASSUME FcInit PROVE FcInv
  OBVIOUS
<1>1. \A b \in FcBlocks : <<b>> \in Seq(FcBlocks)
  OBVIOUS
<1>2. fc \in [FcPaths -> FcNode]
  <2>1. {None, Dir} \cup {File(<<b>>) : b \in FcBlocks} \subseteq FcNode
    BY <1>1, FcNodes
  <2>2. fc \in [FcPaths -> {None, Dir} \cup {File(<<b>>) : b \in FcBlocks}]
    BY DEF FcInit
  <2> QED BY <2>1, <2>2
<1>3. fcJob = NoProcess /\ archive \in Seq(FcEntry)
  <2>1. ASSUME NEW n \in FcNames \cup {Outside} PROVE [name |-> n, data |-> <<>>] \in FcEntry
    BY DEF FcEntry
  <2> DEFINE first == [name |-> Outside, data |-> <<>>]
  <2>2. first \in FcEntry
    BY <2>1
  <2>3. ASSUME NEW n \in FcNames, archive = <<first, [name |-> n, data |-> <<>>]>>
        PROVE  archive \in Seq(FcEntry)
    <3> DEFINE e == [name |-> n, data |-> <<>>]
    <3>1. e \in FcEntry /\ archive = <<first, e>>
      BY <2>1, <2>3
    <3> HIDE DEF first, e
    <3> QED BY <2>2, <3>1
  <2>4. archive = <<>> => archive \in Seq(FcEntry)
    OBVIOUS
  <2> QED BY <2>3, <2>4 DEF FcInit
<1>4. FcTypes
  BY <1>2, <1>3 DEF FcTypes
<1>5. fcJob.op = "none"
  BY <1>3 DEF NoProcess
<1> QED BY <1>4, <1>5, FcJobKinds DEF FcInv, MoveUnderWay, UnzipUnderWay

\* A command that ends leaves nothing under way.
LEMMA FcEnded ==
    ASSUME fc' \in [FcPaths -> FcNode], archive' \in Seq(FcEntry), fcJob' = NoProcess
    PROVE  FcInv'
<1>1. fcJob' \notin FcMv /\ fcJob' \notin FcUnzip
  BY DEF NoProcess, FcMv, FcUnzip
<1> QED BY <1>1 DEF FcInv, FcTypes, MoveUnderWay, UnzipUnderWay

\* Nor does one that neither moves nor unpacks.
LEMMA FcOther ==
    ASSUME fc' \in [FcPaths -> FcNode], archive' \in Seq(FcEntry), fcJob' \in FcCp \cup FcZip
    PROVE  FcInv'
<1>1. fcJob' \notin FcMv /\ fcJob' \notin FcUnzip
  BY DEF FcCp, FcZip, FcMv, FcUnzip
<1> QED BY <1>1 DEF FcInv, FcTypes, MoveUnderWay, UnzipUnderWay

LEMMA FcFailing == ASSUME FcInv, Fails PROVE FcInv'
<1>1. fc' \in [FcPaths -> FcNode] /\ archive' \in Seq(FcEntry) /\ fcJob' = NoProcess
  BY DEF FcInv, FcTypes, Fails, Done
<1> QED BY <1>1, FcEnded

\* The commands that are done in one call.
LEMMA FcCalls ==
    ASSUME FcInv, NEW p \in FcPaths,
           Rm(p) \/ Mkdir(p) \/ Touch(p) \/ Cat(p) \/ Cd(p) \/ Ls(p)
    PROVE  FcInv'
<1> USE DEF FcInv, FcTypes
<1>1. CASE Fails
  BY <1>1, FcFailing
<1>2. CASE ~Fails
  <2>1. archive' = archive /\ fcJob' = NoProcess
    BY <1>2 DEF Rm, Mkdir, Touch, Cat, Cd, Ls, Done, Quiet
  <2>2. \/ fc' = fc
        \/ fc' = [fc EXCEPT ![p] = None]
        \/ fc' = [fc EXCEPT ![p] = Dir]
        \/ fc' = [fc EXCEPT ![p] = File(<<>>)]
    BY <1>2 DEF Rm, Mkdir, Touch, Cat, Cd, Ls
  <2>3. None \in FcNode /\ Dir \in FcNode /\ File(<<>>) \in FcNode
    BY FcNodes
  <2>4. fc' \in [FcPaths -> FcNode]
    BY <2>2, <2>3
  <2> QED BY <2>1, <2>4, FcEnded
<1> QED BY <1>1, <1>2

LEMMA FcWriting ==
    ASSUME FcInv, NEW p \in FcPaths, NEW b \in FcBlocks, Write(p, <<b>>) \/ AppendTo(p, <<b>>)
    PROVE  FcInv'
<1> USE DEF FcInv, FcTypes
<1>1. <<b>> \in Seq(FcBlocks) /\ fc[p].data \o <<b>> \in Seq(FcBlocks)
  BY DEF FcNode
<1>2. CASE Fails
  BY <1>2, FcFailing
<1>3. CASE ~Fails
  <2>1. archive' = archive /\ fcJob' = NoProcess
    BY <1>3 DEF Write, AppendTo, Done, Quiet
  <2>2. \/ fc' = [fc EXCEPT ![p] = File(<<b>>)]
        \/ fc' = [fc EXCEPT ![p] = File(fc[p].data \o <<b>>)]
    BY <1>3 DEF Write, AppendTo
  <2>3. File(<<b>>) \in FcNode /\ File(fc[p].data \o <<b>>) \in FcNode
    BY <1>1, FcNodes
  <2>4. fc' \in [FcPaths -> FcNode]
    BY <2>2, <2>3
  <2> QED BY <2>1, <2>4, FcEnded
<1> QED BY <1>2, <1>3

LEMMA FcCpOpen ==
    ASSUME FcInv, NEW s \in FcFiles, NEW d \in FcFiles, CpOpen(s, d)
    PROVE  FcInv'
<1> USE DEF FcInv, FcTypes
<1>0. s \in FcPaths /\ d \in FcPaths
  BY DEF FcPaths
<1>1. CASE Fails
  BY <1>1, FcFailing
<1>2. CASE CpOpen(s, d) /\ ~Fails
  <2>1. fc' = [fc EXCEPT ![d] = File(<<>>)] /\ archive' = archive
        /\ fcJob' = [op |-> "cp", src |-> s, dst |-> d, at |-> 0]
    BY <1>2 DEF CpOpen, Quiet, Continue
  <2>2. File(<<>>) \in FcNode
    BY FcNodes
  <2>3. fc' \in [FcPaths -> FcNode]
    BY <2>1, <2>2
  <2>4. fcJob' \in FcCp
    BY <2>1 DEF FcCp
  <2> QED BY <2>1, <2>3, <2>4, FcOther
<1> QED BY <1>1, <1>2

LEMMA FcCpBlock == ASSUME FcInv, CpBlock PROVE FcInv'
<1> USE DEF FcInv, FcTypes
<1>1. CASE Fails
  BY <1>1, FcFailing
<1>3. CASE CpBlock /\ ~Fails
  <2>0. fcJob \in FcCp
    BY <1>3, FcJobKinds DEF CpBlock
  <2>1. CASE fcJob' = NoProcess /\ UNCHANGED <<fc, archive>>
    BY <2>1, FcEnded
  <2>2. CASE ~(fcJob' = NoProcess /\ UNCHANGED <<fc, archive>>)
    <3> DEFINE from == fc[fcJob.src].data
               into == fc[fcJob.dst]
    <3>1. /\ fcJob.at < Len(from)
          /\ fc' = [fc EXCEPT ![fcJob.dst].data = Append(@, from[fcJob.at + 1])]
          /\ fcJob' = [fcJob EXCEPT !.at = @ + 1]
          /\ archive' = archive
      BY <1>3, <2>2 DEF CpBlock, Continue, Quiet, Done
    <3>2. fcJob.src \in FcPaths /\ fcJob.dst \in FcPaths /\ fcJob.at \in Nat
      BY <2>0 DEF FcCp, FcPaths
    <3>3. from \in Seq(FcBlocks) /\ into \in FcNode /\ into.data \in Seq(FcBlocks)
      BY <3>2 DEF FcNode
    <3>4. from[fcJob.at + 1] \in FcBlocks
      BY <3>1, <3>2, <3>3
    <3>5. Append(into.data, from[fcJob.at + 1]) \in Seq(FcBlocks)
      BY <3>3, <3>4
    <3>6. [into EXCEPT !.data = Append(into.data, from[fcJob.at + 1])] \in FcNode
      BY <3>3, <3>5 DEF FcNode
    <3>7. fc' \in [FcPaths -> FcNode]
      BY <3>1, <3>2, <3>6
    <3>8. fcJob' \in FcCp
      BY <3>1, <2>0 DEF FcCp
    <3> QED BY <3>1, <3>7, <3>8, FcOther
  <2> QED BY <2>1, <2>2
<1> QED BY <1>1, <1>3

LEMMA FcMvRead ==
    ASSUME FcInv, NEW s \in FcFiles, NEW d \in FcFiles, MvRead(s, d)
    PROVE  FcInv'
<1> USE DEF FcInv, FcTypes
<1>0. s \in FcPaths /\ d \in FcPaths
  BY DEF FcPaths
<1>1. CASE Fails
  BY <1>1, FcFailing
<1>2. CASE MvRead(s, d) /\ ~Fails
  <2>1. /\ fc[s].type = 1 /\ fc' = fc /\ archive' = archive
        /\ fcJob' = [op |-> "mv", pc |-> "write", src |-> s, dst |-> d, buf |-> fc[s].data]
    BY <1>2 DEF MvRead, Continue
  <2>2. fc[s] = File(fc[s].data) /\ fc[s].data \in Seq(FcBlocks)
    BY <1>0, <2>1, FcNodes DEF FcNode
  <2>3. fcJob' \in FcMv /\ fcJob' \notin FcUnzip
    BY <2>1, <2>2 DEF FcMv, FcUnzip
  <2> QED BY <2>1, <2>2, <2>3 DEF MoveUnderWay, UnzipUnderWay
<1> QED BY <1>1, <1>2

LEMMA FcMvWrite == ASSUME FcInv, MvWrite PROVE FcInv'
<1> USE DEF FcInv, FcTypes
<1>1. CASE Fails
  BY <1>1, FcFailing
<1>3. CASE MvWrite /\ ~Fails
  <2>0. fcJob \in FcMv
    BY <1>3, FcJobKinds DEF MvWrite
  <2>1. /\ fc' = [fc EXCEPT ![fcJob.dst] = File(fcJob.buf)] /\ archive' = archive
        /\ fcJob' = [fcJob EXCEPT !.pc = "remove"]
    BY <1>3 DEF MvWrite, Continue, Quiet
  <2>2. fcJob.src \in FcPaths /\ fcJob.dst \in FcPaths /\ fcJob.buf \in Seq(FcBlocks)
    BY <2>0 DEF FcMv, FcPaths
  <2>3. fcJob' \in FcMv /\ fcJob' \notin FcUnzip /\ fcJob'.src = fcJob.src
        /\ fcJob'.dst = fcJob.dst /\ fcJob'.buf = fcJob.buf
    BY <2>1, <2>0 DEF FcMv, FcUnzip
  <2>4. fc[fcJob.src] = File(fcJob.buf)
    BY <2>0 DEF MoveUnderWay
  <2>5. fc' \in [FcPaths -> FcNode] /\ fc'[fcJob.src] = File(fcJob.buf)
        /\ fc'[fcJob.dst] = File(fcJob.buf)
    BY <2>1, <2>2, <2>4, FcNodes
  <2> QED BY <2>1, <2>3, <2>5 DEF MoveUnderWay, UnzipUnderWay
<1> QED BY <1>1, <1>3

LEMMA FcMvRemove == ASSUME FcInv, MvRemove PROVE FcInv'
<1> USE DEF FcInv, FcTypes
<1>1. CASE Fails
  BY <1>1, FcFailing
<1>4. CASE MvRemove /\ ~Fails
  <2>0. fcJob \in FcMv
    BY <1>4, FcJobKinds DEF MvRemove
  <2>1. /\ fc' = [fc EXCEPT ![fcJob.src] = None] /\ archive' = archive /\ fcJob' = NoProcess
    BY <1>4 DEF MvRemove, Done, Quiet
  <2>2. fc' \in [FcPaths -> FcNode]
    BY <2>0, <2>1, FcNodes DEF FcMv, FcPaths
  <2> QED BY <2>1, <2>2, FcEnded
<1> QED BY <1>1, <1>4

LEMMA FcZipOpen ==
    ASSUME FcInv, NEW s \in FcFiles, NEW d \in FcFiles, ZipOpen(<<s, d>>)
    PROVE  FcInv'
<1> USE DEF FcInv, FcTypes
<1>1. CASE ZipOpen(<<s, d>>)
  <2>1. fcJob' \in FcZip
    BY <1>1 DEF ZipOpen, Continue, FcZip
  <2>2. fc' = fc /\ archive' = <<>>
    BY <1>1 DEF ZipOpen
  <2>3. <<>> \in Seq(FcEntry)
    OBVIOUS
  <2> QED BY <2>1, <2>2, <2>3, FcOther
<1> QED BY <1>1

LEMMA FcZipAdd == ASSUME FcInv, ZipAdd PROVE FcInv'
<1> USE DEF FcInv, FcTypes
<1>2. CASE ZipAdd
  <2>0. fcJob \in FcZip /\ fcJob.todo # <<>>
    BY <1>2, FcJobKinds DEF ZipAdd
  <2> DEFINE p == Head(fcJob.todo)
  <2>1. p \in FcFiles /\ Tail(fcJob.todo) \in Seq(FcFiles)
    BY <2>0 DEF FcZip
  <2>2. FcBase[p] \in FcNames /\ fc[p].data \in Seq(FcBlocks)
    BY <2>1 DEF FcNames, FcNode, FcPaths
  <2>3. fc[p].data # <<>> => Front(fc[p].data) \in Seq(FcBlocks)
    BY <2>2 DEF Front
  <2>4. archive' \in Seq(FcEntry)
    <3>1. CASE archive' = archive
      BY <3>1
    <3>2. CASE archive' = Append(archive, [name |-> FcBase[p], data |-> fc[p].data])
      <4>1. [name |-> FcBase[p], data |-> fc[p].data] \in FcEntry
        BY <2>2 DEF FcEntry
      <4> QED BY <3>2, <4>1
    <3>3. CASE archive' = Append(archive, [name |-> FcBase[p], data |-> Front(fc[p].data)])
               /\ fc[p].data # <<>>
      <4>1. [name |-> FcBase[p], data |-> Front(fc[p].data)] \in FcEntry
        BY <2>2, <2>3, <3>3 DEF FcEntry
      <4> QED BY <3>3, <4>1
    <3> QED BY <1>2, <3>1, <3>2, <3>3 DEF ZipAdd
  <2>5. fc' = fc
    BY <1>2 DEF ZipAdd
  <2>6. CASE fcJob' = NoProcess
    BY <2>4, <2>5, <2>6, FcEnded
  <2>7. CASE fcJob' # NoProcess
    <3>1. fcJob' = [fcJob EXCEPT !.todo = Tail(@)]
      BY <1>2, <2>7 DEF ZipAdd, Continue, Done
    <3>2. fcJob' \in FcZip
      BY <3>1, <2>0, <2>1 DEF FcZip
    <3> QED BY <2>4, <2>5, <3>2, FcOther
  <2> QED BY <2>6, <2>7
<1> QED BY <1>2

LEMMA FcZipClose == ASSUME FcInv, ZipClose PROVE FcInv'
BY FcEnded DEF FcInv, FcTypes, ZipClose, Done

\* unzip opens its next entry: the file is empty now, and what earlier entries
\* of other names have brought is somewhere else.
LEMMA FcUnzipEntry == ASSUME FcInv, UnzipEntry PROVE FcInv'
<1> USE DEF FcInv, FcTypes
<1>1. CASE Fails
  BY <1>1, FcFailing
<1>2. CASE ~Fails
  <2> DEFINE at == fcJob.at
             p == Output(fcJob.dst, archive[at])
             f == WithParents(p)
  <2>0. fcJob \in FcUnzip /\ fcJob.pc = "entry" /\ at \in Nat \ {0} /\ fcJob.dst \in FcDirs
        /\ at <= Len(archive)
    <3>1. fcJob \in FcUnzip /\ fcJob.pc = "entry" /\ at <= Len(archive)
      BY FcJobKinds DEF UnzipEntry
    <3> QED BY <3>1 DEF FcUnzip
  <2>1. /\ p \in FcFiles /\ archive[at].name # Outside
        /\ fc' = OpenOutput(f, p)
        /\ fcJob' = [fcJob EXCEPT !.pc = "data", !.off = 0]
        /\ archive' = archive
    BY <1>2 DEF UnzipEntry, Continue, Quiet, Output
  <2>2. p \in FcPaths /\ FcParent[p] \in FcPaths
    BY <2>1, FileCommandsAssumption DEF FcPaths
  <2>3. f \in [FcPaths -> FcNode]
    BY <2>2, FcNodes DEF WithParents
  <2>4. File(<<>>) \in FcNode /\ File(<<>>).type = 1 /\ File(<<>>).data = <<>>
    BY FcNodes
  <2>5. fc' \in [FcPaths -> FcNode] /\ fc'[p] = File(<<>>)
    BY <2>1, <2>2, <2>3, <2>4 DEF OpenOutput
  <2>6. /\ fcJob' \in FcUnzip /\ fcJob' \notin FcMv
        /\ fcJob'.pc = "data" /\ fcJob'.at = at /\ fcJob'.dst = fcJob.dst /\ fcJob'.off = 0
    BY <2>1, <2>0 DEF FcUnzip, FcMv
  <2>8. ASSUME NEW q \in FcPaths, q # p, NEW d, fc[q] = File(d)
        PROVE  fc'[q] = File(d)
    <3>1. f[q] = File(d)
      BY <2>2, <2>8, FcNodes DEF WithParents
    <3> QED BY <3>1, <2>1, <2>3, <2>8 DEF OpenOutput
  <2>9. ASSUME NEW i \in 1..(at - 1), archive[i].name # Outside
        PROVE  /\ Output(fcJob.dst, archive[i]) \in FcFiles
               /\ \/ fc'[Output(fcJob.dst, archive[i])] = File(archive[i].data)
                  \/ \E j \in (i + 1)..(at - 1) : archive[j].name = archive[i].name
                  \/ archive[at].name = archive[i].name
    <3>1. i \in 1..Len(archive) /\ at \in 1..Len(archive)
      BY <2>0
    <3>2. Output(fcJob.dst, archive[i]) \in FcFiles /\ Output(fcJob.dst, archive[i]) \in FcPaths
      BY <2>0, <2>9, <3>1 DEF UnzipUnderWay, FcPaths
    <3>3. archive[i].name \in FcNames /\ archive[at].name \in FcNames
      <4>1. archive[i] \in FcEntry /\ archive[at] \in FcEntry
        BY <3>1
      <4> QED BY <2>1, <2>9, <4>1 DEF FcEntry
    <3>4. Output(fcJob.dst, archive[i]) = p => archive[at].name = archive[i].name
      BY <2>0, <2>1, <3>3, FileCommandsAssumption DEF Output
    <3>5. \/ fc[Output(fcJob.dst, archive[i])] = File(archive[i].data)
          \/ \E j \in (i + 1)..(at - 1) : archive[j].name = archive[i].name
      BY <2>0, <2>9 DEF UnzipUnderWay
    <3> QED BY <2>8, <3>2, <3>4, <3>5
  <2>10. at \in 1..Len(archive)
    BY <2>0
  <2>11. archive[at].data \in Seq(FcBlocks) /\ Len(archive[at].data) \in Nat
    <3>1. archive[at] \in FcEntry
      BY <2>10
    <3> QED BY <3>1 DEF FcEntry
  <2>12. UnzipUnderWay'
    BY <2>0, <2>1, <2>4, <2>5, <2>6, <2>9, <2>10, <2>11 DEF UnzipUnderWay
  <2> HIDE DEF at, p, f
  <2> QED BY <2>1, <2>5, <2>6, <2>12 DEF MoveUnderWay
<1> QED BY <1>1, <1>2

\* unzip writes a block of an entry, or finds it written.
LEMMA OutsideIsNoName == \A n \in FcNames : n # Outside
BY FileCommandsAssumption

\* unzip passes over an entry that leads outside.
LEMMA FcUnzipSkips == ASSUME FcInv, UnzipSkips PROVE FcInv'
<1> USE DEF FcInv, FcTypes
<1> DEFINE at == fcJob.at
<1>0. /\ fcJob \in FcUnzip /\ fcJob.pc = "entry" /\ at \in Nat \ {0} /\ fcJob.dst \in FcDirs
      /\ at <= Len(archive) /\ archive[at].name = Outside
  <2>1. fcJob \in FcUnzip /\ fcJob.pc = "entry" /\ at <= Len(archive) /\ archive[at].name = Outside
    BY FcJobKinds DEF UnzipSkips
  <2> QED BY <2>1 DEF FcUnzip
<1>1. fcJob' = [fcJob EXCEPT !.at = at + 1] /\ UNCHANGED <<fc, archive>>
  BY DEF UnzipSkips, Continue
<1>2. /\ fcJob' \in FcUnzip /\ fcJob' \notin FcMv
      /\ fcJob'.pc = "entry" /\ fcJob'.at = at + 1 /\ fcJob'.dst = fcJob.dst
  <2>1. fcJob' = [op |-> "unzip", pc |-> "entry", dst |-> fcJob.dst, at |-> at + 1, off |-> fcJob.off]
    BY <1>0, <1>1 DEF FcUnzip
  <2>2. at + 1 \in Nat \ {0}
    BY <1>0
  <2> QED BY <1>0, <2>1, <2>2 DEF FcUnzip, FcMv
<1>3. ASSUME NEW i \in 1..at, archive[i].name # Outside
      PROVE  /\ Output(fcJob.dst, archive[i]) \in FcFiles
             /\ \/ fc[Output(fcJob.dst, archive[i])] = File(archive[i].data)
                \/ \E j \in (i + 1)..at : archive[j].name = archive[i].name
  <2>1. i \in 1..(at - 1)
    BY <1>0, <1>3
  <2>2. /\ Output(fcJob.dst, archive[i]) \in FcFiles
        /\ \/ fc[Output(fcJob.dst, archive[i])] = File(archive[i].data)
           \/ \E j \in (i + 1)..(at - 1) : archive[j].name = archive[i].name
    BY <1>0, <1>3, <2>1 DEF UnzipUnderWay
  <2>3. \A j \in (i + 1)..(at - 1) : j \in (i + 1)..at
    BY <1>0, <2>1
  <2> QED BY <2>2, <2>3
<1> HIDE DEF at
<1>4. UnzipUnderWay'
  <2>1. fcJob'.at - 1 = at /\ fcJob'.at <= Len(archive) + 1
    BY <1>0, <1>2
  <2> QED BY <1>1, <1>2, <1>3, <2>1 DEF UnzipUnderWay
<1> QED BY <1>1, <1>2, <1>4 DEF MoveUnderWay

LEMMA FcUnzipData == ASSUME FcInv, UnzipData PROVE FcInv'
<1> USE DEF FcInv, FcTypes
<1> DEFINE at == fcJob.at
           e == archive[at]
           p == Output(fcJob.dst, archive[at])
           n == fcJob.off + 1
<1>0. /\ fcJob \in FcUnzip /\ fcJob.pc = "data" /\ at \in Nat \ {0} /\ fcJob.dst \in FcDirs
      /\ fcJob.off \in Nat /\ at \in 1..Len(archive)
  <2>1. fcJob \in FcUnzip /\ fcJob.pc = "data"
    BY FcJobKinds DEF UnzipData
  <2>2. at <= Len(archive)
    BY <2>1 DEF UnzipUnderWay
  <2> QED BY <2>1, <2>2 DEF FcUnzip
<1>1. e.name \in FcNames /\ e.data \in Seq(FcBlocks) /\ Len(e.data) \in Nat
  <2>1. e \in FcEntry
    BY <1>0
  <2>2. e.name # Outside
    BY <1>0 DEF UnzipUnderWay
  <2> QED BY <2>1, <2>2 DEF FcEntry
<1>2. /\ p \in FcFiles /\ fc[p].type = 1 /\ Len(fc[p].data) = fcJob.off
      /\ fcJob.off <= Len(e.data)
      /\ \A k \in 1..fcJob.off : fc[p].data[k] = e.data[k]
  BY <1>0 DEF UnzipUnderWay
<1>3. p \in FcPaths /\ fc[p] \in FcNode /\ fc[p].data \in Seq(FcBlocks)
  BY <1>2 DEF FcPaths, FcNode
<1>4. CASE Fails
  BY <1>4, FcFailing
<1>5. CASE /\ n <= Len(e.data)
           /\ fc' = [fc EXCEPT ![p].data =
                        IF n <= Len(@) THEN [@ EXCEPT ![n] = e.data[n]] ELSE Append(@, e.data[n])]
           /\ fcJob' = [fcJob EXCEPT !.off = n]
           /\ archive' = archive
  <2> DEFINE longer == Append(fc[p].data, e.data[n])
  <2>1. e.data[n] \in FcBlocks
    BY <1>0, <1>1, <1>5
  <2>2. /\ longer \in Seq(FcBlocks) /\ Len(longer) = n
        /\ \A k \in 1..n : longer[k] = e.data[k]
    <3>1. Len(fc[p].data) < Len(e.data)
      BY <1>0, <1>1, <1>2, <1>5
    <3> HIDE DEF e, p
    <3> QED BY <1>1, <1>2, <1>3, <3>1, LongerPrefix
  <2>3. ~(n <= Len(fc[p].data))
    BY <1>0, <1>2
  <2>4. fc' = [fc EXCEPT ![p] = [fc[p] EXCEPT !.data = longer]]
    BY <1>5, <2>3
  <2>5. [fc[p] EXCEPT !.data = longer] \in FcNode /\ [fc[p] EXCEPT !.data = longer].type = 1
        /\ [fc[p] EXCEPT !.data = longer].data = longer
    BY <1>2, <1>3, <2>2 DEF FcNode
  <2>6. fc' \in [FcPaths -> FcNode] /\ fc'[p].type = 1 /\ fc'[p].data = longer
    BY <1>3, <2>4, <2>5
  <2>7. /\ fcJob' \in FcUnzip /\ fcJob' \notin FcMv
        /\ fcJob'.pc = "data" /\ fcJob'.at = at /\ fcJob'.dst = fcJob.dst /\ fcJob'.off = n
    BY <1>0, <1>5 DEF FcUnzip, FcMv
  <2>9. ASSUME NEW i \in 1..(at - 1), archive[i].name # Outside
        PROVE  /\ Output(fcJob.dst, archive[i]) \in FcFiles
               /\ \/ fc'[Output(fcJob.dst, archive[i])] = File(archive[i].data)
                  \/ \E j \in (i + 1)..(at - 1) : archive[j].name = archive[i].name
                  \/ archive[at].name = archive[i].name
    <3>1. i \in 1..Len(archive)
      BY <1>0
    <3>2. Output(fcJob.dst, archive[i]) \in FcFiles /\ Output(fcJob.dst, archive[i]) \in FcPaths
      BY <1>0, <2>9, <3>1 DEF UnzipUnderWay, FcPaths
    <3>3. archive[i].name \in FcNames
      <4>1. archive[i] \in FcEntry
        BY <3>1
      <4> QED BY <2>9, <4>1 DEF FcEntry
    <3>4. Output(fcJob.dst, archive[i]) = p => archive[at].name = archive[i].name
      BY <1>0, <1>1, <1>2, <3>3, FileCommandsAssumption DEF Output
    <3>5. \/ fc[Output(fcJob.dst, archive[i])] = File(archive[i].data)
          \/ \E j \in (i + 1)..(at - 1) : archive[j].name = archive[i].name
          \/ archive[at].name = archive[i].name
      BY <1>0, <2>9 DEF UnzipUnderWay
    <3>6. Output(fcJob.dst, archive[i]) # p => fc'[Output(fcJob.dst, archive[i])] = fc[Output(fcJob.dst, archive[i])]
      BY <2>4, <3>2
    <3> QED BY <3>2, <3>4, <3>5, <3>6
  <2> HIDE DEF at, e, p, longer
  <2>10. p = Output(fcJob'.dst, archive'[fcJob'.at]) /\ e = archive'[fcJob'.at]
    BY <1>5, <2>7 DEF p, e
  <2>11. UnzipUnderWay'
    <3>1. /\ fcJob'.at <= Len(archive') /\ archive'[fcJob'.at].name # Outside
          /\ Output(fcJob'.dst, archive'[fcJob'.at]) \in FcFiles
          /\ fc'[Output(fcJob'.dst, archive'[fcJob'.at])].type = 1
          /\ fcJob'.off <= Len(archive'[fcJob'.at].data)
          /\ Len(fc'[Output(fcJob'.dst, archive'[fcJob'.at])].data) = fcJob'.off
      BY <1>0, <1>2, <1>5, <2>2, <2>6, <2>7, <2>10, <1>1, OutsideIsNoName
    <3>2. \A k \in 1..fcJob'.off :
             fc'[Output(fcJob'.dst, archive'[fcJob'.at])].data[k] = archive'[fcJob'.at].data[k]
      BY <2>2, <2>6, <2>7, <2>10
    <3>3. \A i \in 1..(fcJob'.at - 1) : archive'[i].name # Outside =>
            /\ Output(fcJob'.dst, archive'[i]) \in FcFiles
            /\ \/ fc'[Output(fcJob'.dst, archive'[i])] = File(archive'[i].data)
               \/ \E j \in (i + 1)..(fcJob'.at - 1) : archive'[j].name = archive'[i].name
               \/ fcJob'.pc = "data" /\ archive'[fcJob'.at].name = archive'[i].name
      BY <1>5, <2>7, <2>9
    <3>4. fcJob'.pc # "entry"
      BY <2>7
    <3> QED BY <3>1, <3>2, <3>3, <3>4 DEF UnzipUnderWay
  <2> QED BY <1>5, <2>6, <2>7, <2>11 DEF MoveUnderWay
<1>6. CASE /\ n > Len(e.data)
           /\ fcJob' = [fcJob EXCEPT !.pc = "entry", !.at = @ + 1]
           /\ UNCHANGED <<fc, archive>>
  <2>1. fc[p] = File(e.data)
    <3>1. fc[p].data = e.data
      BY <1>0, <1>1, <1>2, <1>3, <1>6, SeqEqual
    <3> QED BY <1>2, <1>3, <3>1, FcNodes
  <2>2. /\ fcJob' \in FcUnzip /\ fcJob' \notin FcMv
        /\ fcJob'.pc = "entry" /\ fcJob'.at = at + 1 /\ fcJob'.dst = fcJob.dst
    <3>1. fcJob' = [op |-> "unzip", pc |-> "entry", dst |-> fcJob.dst, at |-> at + 1, off |-> fcJob.off]
      BY <1>0, <1>6 DEF FcUnzip
    <3>2. at + 1 \in Nat \ {0}
      BY <1>0
    <3> QED BY <1>0, <3>1, <3>2 DEF FcUnzip, FcMv
  <2>4. ASSUME NEW i \in 1..at, archive[i].name # Outside
        PROVE  /\ Output(fcJob.dst, archive[i]) \in FcFiles
               /\ \/ fc'[Output(fcJob.dst, archive[i])] = File(archive[i].data)
                  \/ \E j \in (i + 1)..at : archive[j].name = archive[i].name
    <3>1. CASE i = at
      BY <1>0, <1>2, <1>6, <2>1, <3>1
    <3>2. CASE i \in 1..(at - 1)
      <4>1. Output(fcJob.dst, archive[i]) \in FcFiles
        BY <1>0, <2>4, <3>2 DEF UnzipUnderWay
      <4>2. \/ fc[Output(fcJob.dst, archive[i])] = File(archive[i].data)
            \/ \E j \in (i + 1)..(at - 1) : archive[j].name = archive[i].name
            \/ archive[at].name = archive[i].name
        BY <1>0, <2>4, <3>2 DEF UnzipUnderWay
      <4>3. at \in (i + 1)..at /\ \A j \in (i + 1)..(at - 1) : j \in (i + 1)..at
        BY <1>0, <3>2
      <4> QED BY <1>6, <4>1, <4>2, <4>3
    <3> QED BY <1>0, <3>1, <3>2
  <2> HIDE DEF at, e, p
  <2>5. UnzipUnderWay'
    <3>1. fcJob'.at - 1 = at /\ fcJob'.at <= Len(archive) + 1
      BY <1>0, <2>2
    <3> QED BY <1>6, <2>2, <2>4, <3>1 DEF UnzipUnderWay
  <2> QED BY <1>6, <2>2, <2>5 DEF MoveUnderWay
<1> QED BY <1>4, <1>5, <1>6 DEF UnzipData, Continue, Quiet, Output

LEMMA FcUnzips ==
    ASSUME FcInv, NEW d \in FcDirs, Unzip(d)
    PROVE  FcInv'
<1> USE DEF FcInv, FcTypes
<1>1. CASE Unzip(d)
  <2>1. /\ fcJob' = [op |-> "unzip", pc |-> "entry", dst |-> d, at |-> 1, off |-> 0]
        /\ UNCHANGED <<fc, archive>>
    BY <1>1 DEF Unzip, Continue
  <2>2. fcJob' \in FcUnzip /\ fcJob' \notin FcMv /\ fcJob'.at = 1 /\ fcJob'.pc = "entry"
    BY <2>1 DEF FcUnzip, FcMv
  <2>3. Len(archive) \in Nat
    OBVIOUS
  <2> QED BY <2>1, <2>2, <2>3 DEF MoveUnderWay, UnzipUnderWay
<1> QED BY <1>1

LEMMA FcUnzipEnd == ASSUME FcInv, UnzipEnd PROVE FcInv'
BY FcEnded DEF FcInv, FcTypes, UnzipEnd, Done

LEMMA FcStep == FcInv /\ [FcNext]_fcVars => FcInv'
<1> SUFFICES ASSUME FcInv, [FcNext]_fcVars PROVE FcInv'
  OBVIOUS
<1>1. CASE UNCHANGED fcVars
  BY <1>1 DEF fcVars, FcInv, FcTypes, MoveUnderWay, UnzipUnderWay, Output
<1>2. CASE \E s, d \in FcFiles : CpOpen(s, d) \/ MvRead(s, d) \/ ZipOpen(<<s, d>>)
  BY <1>2, FcCpOpen, FcMvRead, FcZipOpen
<1>3. CASE \E p \in FcPaths : Rm(p) \/ Mkdir(p) \/ Touch(p) \/ Cat(p) \/ Cd(p) \/ Ls(p)
  BY <1>3, FcCalls
<1>4. CASE \E p \in FcPaths, b \in FcBlocks : Write(p, <<b>>) \/ AppendTo(p, <<b>>)
  BY <1>4, FcWriting
<1>5. CASE \E d \in FcDirs : Unzip(d)
  BY <1>5, FcUnzips
<1>6. CASE CpBlock \/ MvWrite \/ MvRemove \/ ZipAdd \/ ZipClose
  BY <1>6, FcCpBlock, FcMvWrite, FcMvRemove, FcZipAdd, FcZipClose
<1>7. CASE UnzipSkips \/ UnzipEntry \/ UnzipData \/ UnzipEnd
  BY <1>7, FcUnzipSkips, FcUnzipEntry, FcUnzipData, FcUnzipEnd
<1>8. CASE FcKilled
  BY <1>8, FcFailing DEF FcKilled
<1> QED BY <1>1, <1>2, <1>3, <1>4, <1>5, <1>6, <1>7, <1>8 DEF FcNext

LEMMA FcAlways == FcSpec => []FcInv
BY FcStart, FcStep, PTL DEF FcSpec

\* mv (mv_main.c) removes the old path only after its content was written under
\* the new one.
LEMMA FcMovesKeep ==
    ASSUME FcInv, FcNext, NEW p \in FcFiles,
           fcJob.op = "mv", fcJob.src # fcJob.dst, fc[p].type = 1, fc'[p] = None
    PROVE  \E q \in FcFiles \ {p} : fc'[q].type = 1 /\ fc'[q].data = fc[p].data
<1>1. fcJob \in FcMv
  BY FcJobKinds DEF FcInv
<1>2. fcJob # NoProcess
  BY <1>1 DEF FcMv, NoProcess
<1>3. p \in FcPaths /\ fc \in [FcPaths -> FcNode] /\ fc[p] \in FcNode
  BY DEF FcPaths, FcInv, FcTypes
<1>4. fc'[p] # fc[p]
  BY <1>3, FcNodes
<1>5. fcJob.src \in FcPaths /\ fcJob.dst \in FcPaths /\ fcJob.buf \in Seq(FcBlocks)
      /\ fcJob.dst \in FcFiles
  BY <1>1 DEF FcMv, FcPaths
<1>6. MvWrite \/ MvRemove
  BY <1>2, <1>4 DEF FcNext, CpOpen, MvRead, ZipOpen, Rm, Mkdir, Touch, Cat, Cd, Ls, Write, AppendTo,
        Unzip, CpBlock, ZipAdd, ZipClose, UnzipSkips, UnzipEntry, UnzipData, UnzipEnd, FcKilled, Fails
<1>7. fc' # fc
  BY <1>4
<1>8. CASE MvWrite
  <2>1. fc' = [fc EXCEPT ![fcJob.dst] = File(fcJob.buf)]
    BY <1>7, <1>8 DEF MvWrite, Fails
  <2>2. fc'[p] = fc[p] \/ fc'[p] = File(fcJob.buf)
    BY <1>3, <2>1
  <2> QED BY <1>4, <2>2, FcNodes
<1>9. CASE MvRemove
  <2>1. fc' = [fc EXCEPT ![fcJob.src] = None] /\ fcJob.pc = "remove"
    BY <1>7, <1>9 DEF MvRemove, Fails
  <2>2. p = fcJob.src
    BY <1>3, <1>4, <2>1
  <2>3. fc[p] = File(fcJob.buf) /\ fc[fcJob.dst] = File(fcJob.buf)
    BY <1>1, <2>1, <2>2 DEF FcInv, MoveUnderWay
  <2>4. fc'[fcJob.dst] = File(fcJob.buf)
    BY <1>3, <1>5, <2>1, <2>2, <2>3
  <2> QED BY <1>5, <2>2, <2>3, <2>4, FcNodes
<1> QED BY <1>6, <1>8, <1>9

\* unzip (unzip_main.c) reports success after its last entry only.
LEMMA FcUnzipsAll ==
    ASSUME FcInv, FcNext, fcJob.op = "unzip", fcJob' = NoProcess, fcRet',
           NEW i \in DOMAIN archive, archive[i].name # Outside,
           \A j \in (i + 1)..Len(archive) : archive[j].name # archive[i].name
    PROVE  fc'[FcJoin[fcJob.dst, archive[i].name]] = File(archive[i].data)
<1>1. fcJob \in FcUnzip
  BY FcJobKinds DEF FcInv
<1>2. fcJob # NoProcess /\ fcJob.at \in Nat \ {0}
  BY <1>1 DEF FcUnzip, NoProcess
<1>3. ~Fails
  BY DEF Fails, Done
<1>4. UnzipSkips \/ UnzipEntry \/ UnzipData \/ UnzipEnd
  BY <1>2, <1>3 DEF FcNext, CpOpen, MvRead, ZipOpen, Rm, Mkdir, Touch, Cat, Cd, Ls, Write, AppendTo,
        Unzip, CpBlock, MvWrite, MvRemove, ZipAdd, ZipClose, FcKilled
<1>5. ~UnzipEntry
  <2> SUFFICES ASSUME UnzipEntry PROVE FALSE
    OBVIOUS
  <2>1. fcJob' = [fcJob EXCEPT !.pc = "data", !.off = 0]
    BY <1>3 DEF UnzipEntry, Continue
  <2> QED BY <1>1, <2>1 DEF FcUnzip, NoProcess
<1>6. ~UnzipData
  <2> SUFFICES ASSUME UnzipData PROVE FALSE
    OBVIOUS
  <2>1. fcJob' = [fcJob EXCEPT !.off = fcJob.off + 1] \/ fcJob' = [fcJob EXCEPT !.pc = "entry", !.at = @ + 1]
    BY <1>3 DEF UnzipData, Continue
  <2>2. fcJob'.op = "none"
    BY DEF NoProcess
  <2>3. fcJob'.op = "unzip"
    BY <1>1, <2>1 DEF FcUnzip
  <2> QED BY <2>2, <2>3
<1>12. ~UnzipSkips
  <2> SUFFICES ASSUME UnzipSkips PROVE FALSE
    OBVIOUS
  <2>1. fcJob' = [fcJob EXCEPT !.at = @ + 1]
    BY DEF UnzipSkips, Continue
  <2>2. fcJob'.op = "none"
    BY DEF NoProcess
  <2>3. fcJob'.op = "unzip"
    BY <1>1, <2>1 DEF FcUnzip
  <2> QED BY <2>2, <2>3
<1>7. UnzipEnd
  BY <1>4, <1>5, <1>6, <1>12
<1>8. fc' = fc /\ fcJob.at > Len(archive) /\ fcJob.pc = "entry"
  BY <1>7 DEF UnzipEnd
<1>9. archive \in Seq(FcEntry) /\ i \in 1..Len(archive) /\ Len(archive) \in Nat
  BY DEF FcInv, FcTypes
<1>10. i \in 1..(fcJob.at - 1) /\ \A j \in (i + 1)..(fcJob.at - 1) : j \in (i + 1)..Len(archive)
  <2>1. fcJob.at <= Len(archive) + 1
    BY <1>1, <1>8 DEF FcInv, UnzipUnderWay
  <2> QED BY <1>2, <1>8, <1>9, <2>1
<1>11. fc[Output(fcJob.dst, archive[i])] = File(archive[i].data)
  BY <1>1, <1>8, <1>10 DEF FcInv, UnzipUnderWay
<1> QED BY <1>8, <1>11 DEF Output

\* The commands mv and unzip lose nothing, whichever of their calls fails and
\* whenever they are killed, on every tree of paths.
THEOREM FilesAreSound == FcSpec => MoveKeepsData /\ UnzipGivesArchive
<1>1. FcInv /\ [FcNext]_fcVars =>
        [\A p \in FcFiles :
          fcJob.op = "mv" /\ fcJob.src # fcJob.dst /\ fc[p].type = 1 /\ fc'[p] = None
          => \E q \in FcFiles \ {p} : fc'[q].type = 1 /\ fc'[q].data = fc[p].data]_fcVars
  BY FcMovesKeep
<1>2. FcInv /\ [FcNext]_fcVars =>
        [fcJob.op = "unzip" /\ fcJob' = NoProcess /\ fcRet' =>
          \A i \in DOMAIN archive :
             /\ archive[i].name # Outside
             /\ \A j \in i + 1..Len(archive) : archive[j].name # archive[i].name
             => fc'[FcJoin[fcJob.dst, archive[i].name]] = File(archive[i].data)]_fcVars
  BY FcUnzipsAll
<1> QED BY <1>1, <1>2, FcAlways, PTL DEF FcSpec, MoveKeepsData, UnzipGivesArchive

(***************************************************************************)
(* The file layers of the ported programs, for any number and size of files.*)
(***************************************************************************)

MfByte == MfBytes \cup {"0", "?"}
MfFile ==
    [used : {TRUE}, path : MfPaths, data : Seq(MfByte), pos : Nat, writable : BOOLEAN,
     dirty : BOOLEAN, ungot : BOOLEAN, error : BOOLEAN]

\* In minizip's layer only a file that is open for writing is marked as changed.
MzMarks(f) == layer \notin {"doom", "bdt", "tcc"} /\ f.dirty => f.writable

MfSlot(f) == f = Free \/ (f \in MfFile /\ MzMarks(f))

MfInv ==
    /\ layer \in Layers
    /\ mfDisk \in [MfPaths -> {NoFile} \cup Seq(MfByte)]
    /\ mfds = [k \in 1..MF_MAX |-> mfds[k]]
    /\ \A k \in 1..MF_MAX : MfSlot(mfds[k])

LEMMA MfFields ==
    ASSUME NEW f \in MfFile
    PROVE  /\ f.path \in MfPaths /\ f.data \in Seq(MfByte) /\ Len(f.data) \in Nat
           /\ f.pos \in Nat /\ f.pos + 1 \in Nat
<1>1. f.path \in MfPaths /\ f.data \in Seq(MfByte) /\ f.pos \in Nat
  BY DEF MfFile
<1> QED BY <1>1

LEMMA PutAtTyped ==
    ASSUME NEW data \in Seq(MfByte), NEW pos \in Nat, NEW b \in MfByte, NEW gap \in MfByte
    PROVE  PutAt(data, pos, b, gap) \in Seq(MfByte)
<1> DEFINE n == IF pos + 1 > Len(data) THEN pos + 1 ELSE Len(data)
           put(i) == IF i = pos + 1 THEN b ELSE IF i <= Len(data) THEN data[i] ELSE gap
<1>1. n \in Nat
  OBVIOUS
<1>2. ASSUME NEW i \in 1..n PROVE put(i) \in MfByte
  <2>1. i \in Nat /\ i >= 1 /\ Len(data) \in Nat
    BY <1>1
  <2>2. i <= Len(data) => data[i] \in MfByte
    BY <2>1
  <2> QED BY <2>2
<1>3. [i \in 1..n |-> put(i)] \in Seq(MfByte)
  BY <1>1, <1>2, IsASeq
<1> QED BY <1>3 DEF PutAt

LEMMA OpenFileTyped ==
    ASSUME NEW path \in MfPaths, NEW data \in Seq(MfByte), NEW pos \in Nat,
           NEW writable \in BOOLEAN, NEW dirty \in BOOLEAN
    PROVE  LET f == OpenFile(path, data, pos, writable, dirty)
           IN  /\ f \in MfFile /\ f.used /\ f.dirty = dirty /\ f.writable = writable
BY DEF OpenFile, MfFile

LEMMA OpenedTyped ==
    ASSUME MfInv, NEW path \in MfPaths, NEW mode \in Modes
    PROVE  MfSlot(Opened(path, mode))
<1> DEFINE held == mfDisk[path]
<1>1. held = NoFile \/ held \in Seq(MfByte)
  BY DEF MfInv
<1>2. <<>> \in Seq(MfByte) /\ Len(<<>>) = 0
  OBVIOUS
<1>3. (mode = "a") \in BOOLEAN /\ Writes(mode) \in BOOLEAN /\ (mode \in {"w", "w+"}) \in BOOLEAN
  BY DEF Writes
<1>4. CASE layer = "doom"
  <2> DEFINE data == IF (~Writes(mode) \/ mode = "a") /\ held # NoFile THEN held ELSE <<>>
  <2>1. data \in Seq(MfByte) /\ Len(data) \in Nat
    BY <1>1, <1>2
  <2> HIDE DEF data
  <2>2. OpenFile(path, data, IF mode = "a" THEN Len(data) ELSE 0, Writes(mode), mode \in {"w", "w+"}) \in MfFile
    BY <1>3, <2>1, OpenFileTyped
  <2>3. dg_fopen(path, mode) = Free \/ dg_fopen(path, mode) \in MfFile
    BY <2>2 DEF dg_fopen, data
  <2> QED BY <1>4, <2>3 DEF Opened, MfSlot, MzMarks
<1>5. CASE layer \in {"bdt", "tcc"}
  <2> DEFINE data == IF held # NoFile /\ mode \notin {"w", "w+"} THEN held ELSE <<>>
  <2>1. data \in Seq(MfByte) /\ Len(data) \in Nat
    BY <1>1, <1>2
  <2> HIDE DEF data
  <2>2. OpenFile(path, data, IF mode = "a" THEN Len(data) ELSE 0, Writes(mode), FALSE) \in MfFile
    BY <1>3, <2>1, OpenFileTyped
  <2>3. bdt_fopen(path, mode) = Free \/ bdt_fopen(path, mode) \in MfFile
    BY <2>2 DEF bdt_fopen, data
  <2> QED BY <1>5, <2>3 DEF Opened, tcc_fopen, MfSlot, MzMarks
<1>6. CASE layer \notin {"doom", "bdt", "tcc"}
  <2>1. Opened(path, mode) = cleonos_mz_open64(path, mode)
    BY <1>6 DEF Opened
  <2>2. CASE mode \in {"w", "w+"}
    <3> DEFINE f == OpenFile(path, <<>>, 0, TRUE, TRUE)
    <3>1. f \in MfFile /\ f.writable = TRUE
      BY <1>2, OpenFileTyped
    <3>2. Opened(path, mode) = f
      BY <2>1, <2>2 DEF cleonos_mz_open64
    <3> HIDE DEF f
    <3> QED BY <3>1, <3>2 DEF MfSlot, MzMarks
  <2>3. CASE mode \notin {"w", "w+"} /\ held = NoFile
    BY <2>1, <2>3 DEF cleonos_mz_open64, MfSlot
  <2>4. CASE mode \notin {"w", "w+"} /\ held # NoFile
    <3> DEFINE f == OpenFile(path, held, 0, Writes(mode), Writes(mode))
    <3>1. f \in MfFile /\ f.writable = Writes(mode) /\ f.dirty = Writes(mode)
      BY <1>1, <1>3, <2>4, OpenFileTyped
    <3>2. Opened(path, mode) = f
      BY <2>1, <2>4 DEF cleonos_mz_open64
    <3> HIDE DEF f
    <3> QED BY <3>1, <3>2 DEF MfSlot, MzMarks
  <2> QED BY <2>2, <2>3, <2>4
<1> QED BY <1>4, <1>5, <1>6

\* A changed slot keeps the invariant when the new file is one.
LEMMA MfSlotChanged ==
    ASSUME MfInv, NEW k \in 1..MF_MAX, NEW f, MfSlot(f),
           mfds' = [mfds EXCEPT ![k] = f],
           layer' = layer, mfDisk' \in [MfPaths -> {NoFile} \cup Seq(MfByte)]
    PROVE  MfInv'
<1>1. \A j \in 1..MF_MAX : mfds'[j] = IF j = k THEN f ELSE mfds[j]
  BY DEF MfInv
<1>2. mfds' = [j \in 1..MF_MAX |-> mfds'[j]]
  BY DEF MfInv
<1>3. \A j \in 1..MF_MAX : MfSlot(mfds'[j])
  BY <1>1 DEF MfInv
<1>4. \A j \in 1..MF_MAX : MfSlot(mfds[j])'
  BY <1>3 DEF MfSlot, MzMarks
<1> QED BY <1>2, <1>4 DEF MfInv

LEMMA MfDiskChanged ==
    ASSUME MfInv, mfds' = mfds, layer' = layer, mfDisk' \in [MfPaths -> {NoFile} \cup Seq(MfByte)]
    PROVE  MfInv'
BY DEF MfInv, MfSlot, MzMarks

LEMMA MfStart == MfInit => MfInv
<1> SUFFICES ASSUME MfInit PROVE MfInv
  OBVIOUS
<1>1. ASSUME NEW p \in MfPaths PROVE mfDisk[p] \in {NoFile} \cup Seq(MfByte)
  <2>1. mfDisk[p] \in {NoFile, <<>>} \cup {<<b, b>> : b \in MfBytes}
    BY DEF MfInit
  <2>2. ASSUME NEW b \in MfBytes PROVE <<b, b>> \in Seq(MfByte)
    BY DEF MfByte
  <2>3. <<>> \in Seq(MfByte)
    OBVIOUS
  <2> QED BY <2>1, <2>2, <2>3
<1>2. mfDisk \in [MfPaths -> {NoFile} \cup Seq(MfByte)]
  BY <1>1 DEF MfInit
<1> QED BY <1>2 DEF MfInit, MfInv, MfSlot

LEMMA MfUsed ==
    ASSUME MfInv, NEW k \in 1..MF_MAX, mfds[k].used
    PROVE  mfds[k] \in MfFile /\ MzMarks(mfds[k])
BY DEF MfInv, MfSlot, Free

LEMMA MfOpenStep ==
    ASSUME MfInv, NEW p \in MfPaths, NEW m \in Modes, MfOpen(p, m)
    PROVE  MfInv'
<1>1. PICK k \in Slots : mfds' = [mfds EXCEPT ![k] = Opened(p, m)] /\ UNCHANGED <<layer, mfDisk>>
  BY DEF MfOpen
<1>2. k \in 1..MF_MAX
  BY <1>1 DEF Slots, dg_fd_alloc_slot, bdt_fd_alloc, tcc_fd_alloc, FirstFree
<1>3. mfDisk' \in [MfPaths -> {NoFile} \cup Seq(MfByte)]
  BY <1>1 DEF MfInv
<1> QED BY <1>1, <1>2, <1>3, OpenedTyped, MfSlotChanged

LEMMA ReadStep ==
    ASSUME MfInv, NEW k \in 1..MF_MAX, MfRead(k) \/ Ungetc(k)
    PROVE  MfInv'
<1> DEFINE f == mfds[k]
<1>1. f \in MfFile /\ MzMarks(f)
  BY MfUsed DEF MfRead, Ungetc
<1>2. PICK g : /\ mfds' = [mfds EXCEPT ![k] = g]
               /\ g = ReadByte(f) \/ g = [f EXCEPT !.ungot = TRUE]
  BY DEF MfRead, Ungetc, dg_read, bdt_read, tcc_read, cleonos_mz_read
<1>3. f.pos + 1 \in Nat
  BY <1>1, MfFields
<1>4. g \in {[f EXCEPT !.ungot = FALSE], [f EXCEPT !.pos = @ + 1], f, [f EXCEPT !.ungot = TRUE]}
  BY <1>2 DEF ReadByte
<1>5. g \in MfFile /\ g.dirty = f.dirty /\ g.writable = f.writable
  BY <1>1, <1>3, <1>4 DEF MfFile
<1>6. MfSlot(g)
  BY <1>1, <1>5 DEF MfSlot, MzMarks
<1>7. layer' = layer /\ mfDisk' \in [MfPaths -> {NoFile} \cup Seq(MfByte)]
  BY DEF MfRead, Ungetc, MfInv
<1> QED BY <1>2, <1>6, <1>7, MfSlotChanged

LEMMA WriteStep ==
    ASSUME MfInv, NEW k \in 1..MF_MAX, NEW b \in MfBytes, MfWrite(k, b)
    PROVE  MfInv'
<1> DEFINE f == mfds[k]
<1>1. f \in MfFile /\ MzMarks(f)
  BY MfUsed DEF MfWrite
<1>2. PICK g : /\ mfds' = [mfds EXCEPT ![k] = g]
               /\ \/ g = f
                  \/ g = Written(f, b) /\ (layer \notin {"doom", "bdt", "tcc"} => f.writable)
                  \/ g = [f EXCEPT !.error = TRUE]
  BY DEF MfWrite, dg_write, bdt_write, tcc_write, cleonos_mz_write
<1>3. f.pos + 1 \in Nat /\ f.pos \in Nat /\ f.data \in Seq(MfByte)
  BY <1>1, MfFields
<1>4. PutAt(f.data, f.pos, b, "?") \in Seq(MfByte)
  BY <1>3, PutAtTyped DEF MfByte
<1>5. Written(f, b) = [f EXCEPT !.data = PutAt(f.data, f.pos, b, "?"), !.pos = f.pos + 1, !.dirty = TRUE]
  BY <1>1 DEF Written, MfFile
<1> DEFINE new == PutAt(f.data, f.pos, b, "?")
<1>6. Written(f, b) \in MfFile /\ Written(f, b).writable = f.writable
  <2>1. new \in Seq(MfByte)
    BY <1>4
  <2> HIDE DEF new
  <2> QED BY <1>1, <1>3, <1>5, <2>1 DEF MfFile, new
<1>7. [f EXCEPT !.error = TRUE] \in MfFile /\ [f EXCEPT !.error = TRUE].dirty = f.dirty
      /\ [f EXCEPT !.error = TRUE].writable = f.writable
  BY <1>1 DEF MfFile
<1>8. MfSlot(g)
  BY <1>1, <1>2, <1>6, <1>7 DEF MfSlot, MzMarks
<1>9. layer' = layer /\ mfDisk' \in [MfPaths -> {NoFile} \cup Seq(MfByte)]
  BY DEF MfWrite, MfInv
<1> QED BY <1>2, <1>8, <1>9, MfSlotChanged

LEMMA SeekStep ==
    ASSUME MfInv, NEW k \in 1..MF_MAX, NEW to \in 0..MfMaxSize, MfSeek(k, to)
    PROVE  MfInv'
<1> DEFINE f == mfds[k]
<1>1. f \in MfFile /\ MzMarks(f)
  BY MfUsed DEF MfSeek
<1>2. PICK g : /\ mfds' = [mfds EXCEPT ![k] = g]
               /\ \/ g = [f EXCEPT !.pos = to]
                  \/ g = [f EXCEPT !.pos = to, !.ungot = FALSE]
                  \/ g = f
                  \/ g = [f EXCEPT !.data = PutAt(@, to - 1, "0", "0"), !.pos = to] /\ to > Len(f.data)
  <2>1. to \in Nat /\ Len(f.data) \in Nat
    BY <1>1, MemFilesAssumption, MfFields
  <2>2. to <= Len(f.data) \/ to > Len(f.data)
    BY <2>1
  <2> DEFINE g == CASE layer = "doom" -> dg_lseek(f, to) [] layer = "bdt" -> bdt_lseek(f, to)
                    [] layer = "tcc" -> tcc_lseek(f, to) [] OTHER -> cleonos_mz_seek64(f, to)
  <2>3. mfds' = [mfds EXCEPT ![k] = g]
    BY DEF MfSeek
  <2>4. \/ g = dg_lseek(f, to) \/ g = bdt_lseek(f, to) \/ g = cleonos_mz_seek64(f, to)
    BY DEF tcc_lseek
  <2>5. \/ g = [f EXCEPT !.pos = to]
        \/ g = [f EXCEPT !.pos = to, !.ungot = FALSE]
        \/ g = f
        \/ g = [f EXCEPT !.data = PutAt(@, to - 1, "0", "0"), !.pos = to] /\ to > Len(f.data)
    <3> HIDE DEF g
    <3> QED BY <2>2, <2>4 DEF dg_lseek, bdt_lseek, cleonos_mz_seek64
  <2> HIDE DEF g
  <2> QED BY <2>3, <2>5
<1>3. to \in Nat /\ f.data \in Seq(MfByte) /\ Len(f.data) \in Nat
  <2>1. to \in Nat
    BY MemFilesAssumption
  <2> QED BY <1>1, <2>1, MfFields
<1>4. to > Len(f.data) => PutAt(f.data, to - 1, "0", "0") \in Seq(MfByte)
  <2>1. to > Len(f.data) => to - 1 \in Nat
    BY <1>3
  <2> QED BY <1>3, <2>1, PutAtTyped DEF MfByte
<1> DEFINE new == PutAt(f.data, to - 1, "0", "0")
<1>5. g \in MfFile /\ g.dirty = f.dirty /\ g.writable = f.writable
  <2>1. CASE g = [f EXCEPT !.data = new, !.pos = to] /\ to > Len(f.data)
    <3>1. new \in Seq(MfByte)
      BY <1>4, <2>1
    <3> HIDE DEF new
    <3> QED BY <1>1, <1>3, <2>1, <3>1 DEF MfFile
  <2>2. CASE g \in {[f EXCEPT !.pos = to], [f EXCEPT !.pos = to, !.ungot = FALSE], f}
    BY <1>1, <1>3, <2>2 DEF MfFile
  <2> QED BY <1>2, <2>1, <2>2
<1>6. MfSlot(g)
  BY <1>1, <1>5 DEF MfSlot, MzMarks
<1>7. layer' = layer /\ mfDisk' \in [MfPaths -> {NoFile} \cup Seq(MfByte)]
  BY DEF MfSeek, MfInv
<1> QED BY <1>2, <1>6, <1>7, MfSlotChanged

\* A flush and a close put nothing but the file's data on the disk.
LEMMA StoreStep ==
    ASSUME MfInv, NEW k \in 1..MF_MAX, MfFlush(k) \/ MfClose(k)
    PROVE  MfInv'
<1> DEFINE f == mfds[k]
<1>1. f \in MfFile /\ MzMarks(f)
  BY MfUsed DEF MfFlush, MfClose
<1>2. f.path \in MfPaths /\ f.data \in Seq(MfByte)
  BY <1>1 DEF MfFile
<1>3. layer' = layer
  BY DEF MfFlush, MfClose
<1>4. mfDisk' = mfDisk \/ mfDisk' = [mfDisk EXCEPT ![f.path] = f.data]
  BY DEF MfFlush, MfClose, dg_close, bdt_close, tcc_close, cleonos_mz_close, CloseKeeps, FsWrite,
         FsWriteRefused, Stored, NotStored
<1>5. mfDisk' \in [MfPaths -> {NoFile} \cup Seq(MfByte)]
  BY <1>2, <1>4 DEF MfInv
<1>6. mfds' = mfds \/ mfds' = [mfds EXCEPT ![k] = Clean(f)] \/ mfds' = [mfds EXCEPT ![k] = Free]
  BY DEF MfFlush, MfClose, dg_close, bdt_close, tcc_close, cleonos_mz_close, CloseKeeps
<1>7. MfSlot(Clean(f))
  BY <1>1 DEF MfSlot, MzMarks, Clean, MfFile
<1>8. MfSlot(Free)
  BY DEF MfSlot
<1> QED BY <1>3, <1>5, <1>6, <1>7, <1>8, MfSlotChanged, MfDiskChanged

LEMMA UnlinkStep == ASSUME MfInv, NEW p \in MfPaths, MfUnlink(p) PROVE MfInv'
<1>1. UNCHANGED <<layer, mfds>>
  BY DEF MfUnlink
<1>2. mfDisk' = mfDisk \/ mfDisk' = [mfDisk EXCEPT ![p] = NoFile]
  BY DEF MfUnlink
<1> QED BY <1>1, <1>2, MfDiskChanged DEF MfInv

LEMMA RenameStep ==
    ASSUME MfInv, NEW p \in MfPaths, NEW q \in MfPaths, MfRename(p, q)
    PROVE  MfInv'
<1>1. UNCHANGED <<layer, mfds>>
  BY DEF MfRename
<1>2. PICK copied : /\ copied = mfDisk \/ copied = [mfDisk EXCEPT ![q] = mfDisk[p]]
                    /\ mfDisk' = copied \/ mfDisk' = [copied EXCEPT ![p] = NoFile]
  BY DEF MfRename
<1>3. copied \in [MfPaths -> {NoFile} \cup Seq(MfByte)]
  BY <1>2 DEF MfInv
<1> QED BY <1>1, <1>2, <1>3, MfDiskChanged

LEMMA MfStep == MfInv /\ [MfNext]_mfVars => MfInv'
<1> SUFFICES ASSUME MfInv, [MfNext]_mfVars PROVE MfInv'
  OBVIOUS
<1>1. CASE UNCHANGED mfVars
  BY <1>1 DEF mfVars, MfInv, MfSlot, MzMarks
<1>2. CASE MfNext
  BY <1>2, MfOpenStep, ReadStep, WriteStep, SeekStep, StoreStep, UnlinkStep, RenameStep DEF MfNext
<1> QED BY <1>1, <1>2

LEMMA MfAlways == MfSpec => []MfInv
BY MfStart, MfStep, PTL DEF MfSpec

\* A close that reports success has stored what was changed.
LEMMA MfCloses ==
    ASSUME MfInv, MfNext, "tcc" \notin Layers,
           mfRet'.op = "close", mfRet'.ok, mfRet' # mfRet, ~mfRet'.file.error,
           mfRet'.file.dirty, mfRet'.file.data # <<>>
    PROVE  mfDisk'[mfRet'.file.path] = mfRet'.file.data
<1>1. PICK k \in 1..MF_MAX : MfClose(k)
  <2>1. \A p \in MfPaths, m \in Modes : ~MfOpen(p, m)
    BY DEF MfOpen, Returns
  <2>2. ASSUME NEW p \in MfPaths, NEW q \in MfPaths PROVE ~MfUnlink(p) /\ ~MfRename(p, q)
    <3>1. MfUnlink(p) => mfRet'.op = "unlink"
      BY DEF MfUnlink, Returns
    <3>2. MfRename(p, q) => mfRet'.op = "rename"
      BY DEF MfRename, Returns
    <3> QED BY <3>1, <3>2
  <2>3. \A k \in 1..MF_MAX : ~MfRead(k) /\ ~Ungetc(k)
    BY DEF MfRead, Ungetc, Returns
  <2>4. \A k \in 1..MF_MAX : ~MfFlush(k)
    BY DEF MfFlush, Returns
  <2>5. \A k \in 1..MF_MAX, b \in MfBytes : ~MfWrite(k, b)
    BY DEF MfWrite, Returns
  <2>6. \A k \in 1..MF_MAX, to \in 0..MfMaxSize : ~MfSeek(k, to)
    BY DEF MfSeek, Returns
  <2> QED BY <2>1, <2>2, <2>3, <2>4, <2>5, <2>6 DEF MfNext
<1> DEFINE f == mfds[k]
<1>2. f \in MfFile /\ MzMarks(f)
  BY <1>1, MfUsed DEF MfClose
<1>3. mfRet'.file = f
  BY <1>1 DEF MfClose, dg_close, bdt_close, tcc_close, cleonos_mz_close, CloseKeeps, Returns
<1>4. f.path \in MfPaths /\ f.data \in Seq(MfByte) /\ f.data # <<>> /\ f.dirty /\ ~f.error
  BY <1>2, <1>3 DEF MfFile
<1>5. Len(f.data) # 0
  BY <1>4
<1>6. layer # "tcc"
  BY DEF MfInv
<1>7. ToStore(f)
  BY <1>2, <1>4 DEF ToStore, MzMarks
<1>8. ~Accepts(f, 0)
  BY <1>5, <1>6 DEF Accepts, dg_fd_flush_slot, bdt_stream_flush_file, MzWrote
<1>9. Stored(f.path, f.data)
  <2>1. FsWrite(f.path, f.data, LAMBDA r : Accepts(f, r))
    BY <1>1, <1>7 DEF MfClose, dg_close, bdt_close, tcc_close, cleonos_mz_close, CloseKeeps, Returns
  <2> QED BY <2>1, <1>8 DEF FsWrite
<1>10. mfDisk'[f.path] = f.data
  BY <1>4, <1>9 DEF Stored, MfInv
<1> QED BY <1>3, <1>10

\* A changed file whose close reports success is on the disk (doom_compat.c,
\* bdt_cleonos_compat.c, minizip_cleonos_io.c); tcc's layer, which takes fs_write's 0
\* for success, is left out.
THEOREM CloseStores == MfSpec /\ "tcc" \notin Layers => CloseMeansStored
<1> SUFFICES ASSUME "tcc" \notin Layers PROVE MfSpec => CloseMeansStored
  OBVIOUS
<1>1. MfInv /\ [MfNext]_mfVars =>
        [mfRet'.op = "close" /\ mfRet'.ok /\ mfRet' # mfRet /\ ~mfRet'.file.error
            /\ mfRet'.file.dirty /\ mfRet'.file.data # <<>>
         => mfDisk'[mfRet'.file.path] = mfRet'.file.data ]_mfVars
  BY MfCloses
<1> QED BY <1>1, MfAlways, PTL DEF MfSpec, CloseMeansStored

(***************************************************************************)
(* The editor vim, for any text and keys, limits of lines and columns, and *)
(* size of the screen.                                                     *)
(***************************************************************************)

(***************************************************************************)
(* Sequences.                                                              *)
(***************************************************************************)

LEMMA InsertAtGrows ==
    ASSUME NEW S, NEW s \in Seq(S), NEW i \in 1..Len(s) + 1, NEW x \in S
    PROVE  /\ InsertAt(s, i, x) \in Seq(S) /\ Len(InsertAt(s, i, x)) = Len(s) + 1
<1> DEFINE a == SubSeq(s, 1, i - 1)
           b == SubSeq(s, i, Len(s))
           o == <<x>>
<1>0. Len(s) \in Nat /\ \A j \in 1..Len(s) : s[j] \in S
  BY LenProperties, ElementOfSeq
<1>1. a \in Seq(S) /\ Len(a) = i - 1
  BY <1>0, SubSeqProperties
<1>2. b \in Seq(S) /\ Len(b) = Len(s) + 1 - i
  BY <1>0, SubSeqProperties
<1>3. o \in Seq(S) /\ Len(o) = 1
  OBVIOUS
<1>4. InsertAt(s, i, x) = (a \o o) \o b
  BY DEF InsertAt
<1> HIDE DEF a, b, o
<1>5. PICK c \in Seq(S) : c = a \o o /\ Len(c) = i
  <2>1. a \o o \in Seq(S) /\ Len(a \o o) = Len(a) + Len(o)
    BY <1>1, <1>3, ConcatProperties
  <2>2. Len(a \o o) = i
    BY <1>0, <1>1, <1>3, <2>1
  <2> QED BY <2>1, <2>2
<1>6. c \o b \in Seq(S) /\ Len(c \o b) = Len(c) + Len(b)
  BY <1>2, <1>5, ConcatProperties
<1> QED BY <1>0, <1>2, <1>4, <1>5, <1>6

LEMMA RemoveAtShrinks ==
    ASSUME NEW S, NEW s \in Seq(S), NEW i \in 1..Len(s)
    PROVE  RemoveAt(s, i) \in Seq(S) /\ Len(RemoveAt(s, i)) = Len(s) - 1
<1> DEFINE a == SubSeq(s, 1, i - 1)
           b == SubSeq(s, i + 1, Len(s))
<1>0. Len(s) \in Nat /\ \A j \in 1..Len(s) : s[j] \in S
  BY LenProperties, ElementOfSeq
<1>1. a \in Seq(S) /\ Len(a) = i - 1
  BY <1>0, SubSeqProperties
<1>2. b \in Seq(S) /\ Len(b) = Len(s) - i
  BY <1>0, SubSeqProperties
<1>3. RemoveAt(s, i) = a \o b
  BY DEF RemoveAt
<1> HIDE DEF a, b
<1>4. a \o b \in Seq(S) /\ Len(a \o b) = Len(a) + Len(b)
  BY <1>1, <1>2, ConcatProperties
<1> QED BY <1>0, <1>1, <1>2, <1>3, <1>4

LEMMA RemoveAtBefore ==
    ASSUME NEW S, NEW s \in Seq(S), NEW i \in 1..Len(s), NEW j \in 1..i - 1
    PROVE  RemoveAt(s, i)[j] = s[j]
<1> DEFINE a == SubSeq(s, 1, i - 1)
           b == SubSeq(s, i + 1, Len(s))
<1>0. Len(s) \in Nat /\ \A k \in 1..Len(s) : s[k] \in S
  BY LenProperties, ElementOfSeq
<1>1. a \in Seq(S) /\ Len(a) = i - 1 /\ a[j] = s[j]
  BY <1>0, SubSeqProperties
<1>2. b \in Seq(S) /\ Len(b) \in Nat
  BY <1>0, SubSeqProperties
<1>3. RemoveAt(s, i) = a \o b
  BY DEF RemoveAt
<1> HIDE DEF a, b
<1>4. \A k \in 1..Len(a) + Len(b) : (a \o b)[k] = IF k <= Len(a) THEN a[k] ELSE b[k - Len(a)]
  BY <1>1, <1>2, ConcatProperties
<1> QED BY <1>0, <1>1, <1>2, <1>3, <1>4

LEMMA PartOf ==
    ASSUME NEW S, NEW s \in Seq(S), NEW i \in 1..Len(s) + 1, NEW j \in 0..Len(s), j >= i - 1
    PROVE  SubSeq(s, i, j) \in Seq(S) /\ Len(SubSeq(s, i, j)) = j - i + 1
<1>0. Len(s) \in Nat /\ \A k \in 1..Len(s) : s[k] \in S
  BY LenProperties, ElementOfSeq
<1>1. \A k \in i..j : s[k] \in S
  BY <1>0
<1>2. i \in Int /\ j \in Int
  BY <1>0
<1> QED BY <1>0, <1>1, <1>2, SubSeqProperties

(***************************************************************************)
(* The editor.                                                             *)
(***************************************************************************)

Keys == InsertKeys \cup NormalKeys
Chars == Keys \cup {" ", "j"}
Pending == {"none", "jj", "gg", "dd"}

VimState ==
    [lines : Seq(Seq(Chars)), line : Nat, col : Nat, top : Nat \ {0}, mode : {"normal", "insert", "command"},
     modified : BOOLEAN, quit : BOOLEAN, pending : Pending, path : {NoName, "f"}]

\* The cursor is in the buffer.
VimGood(e) ==
    /\ e \in VimState
    /\ e.line \in 1..Len(e.lines) /\ e.col \in 0..Len(e.lines[e.line])

\* n is e with the cursor moved.
Moves(e, n) ==
    /\ VimGood(n)
    /\ n.lines = e.lines /\ n.modified = e.modified
    /\ n.top = e.top /\ n.mode = e.mode /\ n.quit = e.quit /\ n.pending = e.pending /\ n.path = e.path

\* n is e after an edit.
Edits(e, n) ==
    /\ VimGood(n)
    /\ (n.lines = e.lines /\ n.modified = e.modified) \/ n.modified
    /\ n.top = e.top /\ n.quit = e.quit /\ n.path = e.path

\* n is e after an edit of the cursor's line.
LineEdits(e, n) ==
    /\ Edits(e, n)
    /\ n.line = e.line /\ n.mode = e.mode /\ n.pending = e.pending
    /\ Len(n.lines) = Len(e.lines) /\ \A i \in 1..Len(e.lines) : i # e.line => n.lines[i] = e.lines[i]

LEMMA BufferLines ==
    ASSUME NEW e, VimGood(e)
    PROVE  /\ e.lines \in Seq(Seq(Chars)) /\ Len(e.lines) \in Nat \ {0} /\ DOMAIN e.lines = 1..Len(e.lines)
           /\ \A i \in 1..Len(e.lines) : e.lines[i] \in Seq(Chars) /\ Len(e.lines[i]) \in Nat
           /\ Line(e) = e.lines[e.line] /\ Line(e) \in Seq(Chars) /\ Len(Line(e)) \in Nat
           /\ e.line \in 1..Len(e.lines) /\ e.col \in 0..Len(Line(e))
<1>1. e.lines \in Seq(Seq(Chars)) /\ e.line \in 1..Len(e.lines) /\ e.col \in 0..Len(e.lines[e.line])
  BY DEF VimGood, VimState
<1>2. Len(e.lines) \in Nat /\ DOMAIN e.lines = 1..Len(e.lines)
  BY <1>1, LenProperties
<1>3. \A i \in 1..Len(e.lines) : e.lines[i] \in Seq(Chars) /\ Len(e.lines[i]) \in Nat
  BY <1>1, ElementOfSeq, LenProperties
<1> QED BY <1>1, <1>2, <1>3 DEF Line

LEMMA CursorSet ==
    ASSUME NEW e, VimGood(e), NEW a \in 1..Len(e.lines), NEW b \in 0..Len(e.lines[a]),
           NEW n, n = [e EXCEPT !.line = a, !.col = b]
    PROVE  Moves(e, n) /\ n.line = a /\ n.col = b
<1>1. e \in VimState /\ a \in Nat /\ b \in Nat
  BY BufferLines DEF VimGood
<1>2. n \in VimState
  BY <1>1 DEF VimState
<1>3. /\ n.lines = e.lines /\ n.modified = e.modified /\ n.line = a /\ n.col = b
      /\ n.top = e.top /\ n.mode = e.mode /\ n.quit = e.quit /\ n.pending = e.pending /\ n.path = e.path
  BY <1>1 DEF VimState
<1> QED BY <1>2, <1>3 DEF Moves, VimGood

LEMMA ColumnSet ==
    ASSUME NEW e, VimGood(e), NEW b \in 0..Len(Line(e)), NEW n, n = [e EXCEPT !.col = b]
    PROVE  Moves(e, n) /\ n.line = e.line /\ n.col = b
<1>1. e \in VimState /\ b \in Nat /\ e.line \in 1..Len(e.lines) /\ b \in 0..Len(e.lines[e.line])
  BY BufferLines DEF VimGood
<1>2. n \in VimState
  BY <1>1 DEF VimState
<1>3. /\ n.lines = e.lines /\ n.modified = e.modified /\ n.line = e.line /\ n.col = b
      /\ n.top = e.top /\ n.mode = e.mode /\ n.quit = e.quit /\ n.pending = e.pending /\ n.path = e.path
  BY <1>1 DEF VimState
<1> QED BY <1>1, <1>2, <1>3 DEF Moves, VimGood

\* ush_vim_keep_cursor_valid, when only the cursor is out of place.
LEMMA CursorKept ==
    ASSUME NEW e \in VimState, e.lines # <<>>, e.line > 0
    PROVE  Moves(e, ush_vim_keep_cursor_valid(e))
<1> DEFINE line == Least(e.line, Len(e.lines))
           col == Least(e.col, Len(e.lines[line]))
           n == [e EXCEPT !.line = line, !.col = col]
<1>1. e.lines \in Seq(Seq(Chars)) /\ e.line \in Nat /\ e.col \in Nat
  BY DEF VimState
<1>2. Len(e.lines) \in Nat \ {0} /\ \A i \in 1..Len(e.lines) : e.lines[i] \in Seq(Chars) /\ Len(e.lines[i]) \in Nat
  BY <1>1, EmptySeq, LenProperties, ElementOfSeq
<1>3. line \in 1..Len(e.lines) /\ line \in Nat
  BY <1>1, <1>2 DEF Least
<1> HIDE DEF line
<1>4. col \in 0..Len(e.lines[line]) /\ col \in Nat
  BY <1>1, <1>2, <1>3 DEF Least
<1> HIDE DEF col
<1>5. n \in VimState
  BY <1>3, <1>4 DEF VimState
<1>6. /\ n.lines = e.lines /\ n.modified = e.modified /\ n.line = line /\ n.col = col
      /\ n.top = e.top /\ n.mode = e.mode /\ n.quit = e.quit /\ n.pending = e.pending /\ n.path = e.path
  BY DEF VimState
<1>7. ush_vim_keep_cursor_valid(e) = n
  <2>1. [e EXCEPT !.line = line, !.col = Least(@, Len(e.lines[line]))] = n
    BY DEF col
  <2> QED BY <2>1 DEF ush_vim_keep_cursor_valid, line
<1> HIDE DEF n
<1>8. Moves(e, n)
  BY <1>3, <1>4, <1>5, <1>6 DEF Moves, VimGood
<1> QED BY <1>7, <1>8

\* A cursor in the buffer stays where it is.
LEMMA CursorStays ==
    ASSUME NEW e, VimGood(e)
    PROVE  ush_vim_keep_cursor_valid(e) = e
<1>1. Least(e.line, Len(e.lines)) = e.line
  BY BufferLines DEF Least
<1>2. Least(e.col, Len(e.lines[e.line])) = e.col
  BY BufferLines DEF Least
<1>3. [e EXCEPT !.line = e.line, !.col = e.col] = e
  BY DEF VimGood, VimState
<1> QED BY <1>1, <1>2, <1>3 DEF ush_vim_keep_cursor_valid

\* A cursor key.
LEMMA MovedMoves ==
    ASSUME NEW e, VimGood(e), NEW key \in Arrows
    PROVE  Moves(e, Moved(e, key))
<1>0. Moves(e, e)
  BY DEF Moves
<1>1. CASE key = "left"
  <2>1. CASE e.col > 0
    <3>1. e.col - 1 \in 0..Len(Line(e))
      BY <2>1, BufferLines
    <3>2. Moved(e, key) = [e EXCEPT !.col = e.col - 1]
      BY <1>1, <2>1 DEF Moved, ush_vim_move_left
    <3> QED BY <3>1, <3>2, ColumnSet
  <2>2. CASE ~(e.col > 0) /\ e.line > 1
    <3>1. PICK a \in 1..Len(e.lines) : a = e.line - 1
      BY <2>2, BufferLines
    <3>2. PICK b \in 0..Len(e.lines[a]) : b = Len(e.lines[a])
      <4>1. Len(e.lines[a]) \in Nat
        BY BufferLines
      <4> QED BY <4>1
    <3>3. Moved(e, key) = [e EXCEPT !.line = a, !.col = b]
      BY <1>1, <2>2, <3>1, <3>2 DEF Moved, ush_vim_move_left
    <3> QED BY <3>3, CursorSet
  <2>3. CASE ~(e.col > 0) /\ ~(e.line > 1)
    BY <1>0, <1>1, <2>3 DEF Moved, ush_vim_move_left
  <2> QED BY <2>1, <2>2, <2>3
<1>2. CASE key = "right"
  <2>1. CASE e.col < Len(Line(e))
    <3>1. e.col + 1 \in 0..Len(Line(e))
      BY <2>1, BufferLines
    <3>2. Moved(e, key) = [e EXCEPT !.col = e.col + 1]
      BY <1>2, <2>1 DEF Moved, ush_vim_move_right
    <3> QED BY <3>1, <3>2, ColumnSet
  <2>2. CASE ~(e.col < Len(Line(e))) /\ e.line < Len(e.lines)
    <3>1. PICK a \in 1..Len(e.lines) : a = e.line + 1
      BY <2>2, BufferLines
    <3>2. PICK b \in 0..Len(e.lines[a]) : b = 0
      BY BufferLines
    <3>3. Moved(e, key) = [e EXCEPT !.line = a, !.col = b]
      BY <1>2, <2>2, <3>1, <3>2 DEF Moved, ush_vim_move_right
    <3> QED BY <3>3, CursorSet
  <2>3. CASE ~(e.col < Len(Line(e))) /\ ~(e.line < Len(e.lines))
    BY <1>0, <1>2, <2>3 DEF Moved, ush_vim_move_right
  <2> QED BY <2>1, <2>2, <2>3
<1>3. ASSUME NEW a \in 1..Len(e.lines)
      PROVE  Moves(e, ush_vim_keep_cursor_valid([e EXCEPT !.line = a]))
  <2> DEFINE n == [e EXCEPT !.line = a]
  <2>1. a \in Nat /\ a > 0 /\ e \in VimState
    BY BufferLines DEF VimGood
  <2>2. n \in VimState /\ n.line > 0
    BY <2>1 DEF VimState
  <2>3. /\ n.lines = e.lines /\ n.modified = e.modified
        /\ n.top = e.top /\ n.mode = e.mode /\ n.quit = e.quit /\ n.pending = e.pending /\ n.path = e.path
    BY <2>1 DEF VimState
  <2>4. n.lines # <<>>
    BY <2>3, BufferLines, EmptySeq
  <2> HIDE DEF n
  <2>5. Moves(n, ush_vim_keep_cursor_valid(n))
    BY <2>2, <2>4, CursorKept
  <2> QED BY <2>3, <2>5 DEF Moves, n
<1>4. CASE key = "up"
  <2>1. CASE e.line > 1
    <3>1. e.line - 1 \in 1..Len(e.lines)
      BY <2>1, BufferLines
    <3>2. Moved(e, key) = ush_vim_keep_cursor_valid([e EXCEPT !.line = e.line - 1])
      BY <1>4, <2>1 DEF Moved, ush_vim_move_up
    <3> QED BY <1>3, <3>1, <3>2
  <2>2. CASE ~(e.line > 1)
    <3>1. Moved(e, key) = ush_vim_keep_cursor_valid(e)
      BY <1>4, <2>2 DEF Moved, ush_vim_move_up
    <3> QED BY <1>0, <3>1, CursorStays
  <2> QED BY <2>1, <2>2
<1>5. CASE key = "down"
  <2>1. CASE e.line < Len(e.lines)
    <3>1. e.line + 1 \in 1..Len(e.lines)
      BY <2>1, BufferLines
    <3>2. Moved(e, key) = ush_vim_keep_cursor_valid([e EXCEPT !.line = e.line + 1])
      BY <1>5, <2>1 DEF Moved, ush_vim_move_down
    <3> QED BY <1>3, <3>1, <3>2
  <2>2. CASE ~(e.line < Len(e.lines))
    <3>1. Moved(e, key) = ush_vim_keep_cursor_valid(e)
      BY <1>5, <2>2 DEF Moved, ush_vim_move_down
    <3> QED BY <1>0, <3>1, CursorStays
  <2> QED BY <2>1, <2>2
<1>6. CASE key = "home"
  <2>1. Moved(e, key) = [e EXCEPT !.col = 0]
    BY <1>6 DEF Moved
  <2>2. 0 \in 0..Len(Line(e))
    BY BufferLines
  <2> QED BY <2>1, <2>2, ColumnSet
<1>7. CASE key = "end"
  <2>1. Moved(e, key) = [e EXCEPT !.col = Len(Line(e))]
    BY <1>7 DEF Moved
  <2>2. Len(Line(e)) \in 0..Len(Line(e))
    BY BufferLines
  <2> QED BY <2>1, <2>2, ColumnSet
<1> QED BY <1>1, <1>2, <1>4, <1>5, <1>6, <1>7 DEF Arrows

\* The cursor's line is replaced.
LEMMA TextSet ==
    ASSUME NEW e, VimGood(e), NEW text \in Seq(Chars), NEW b \in 0..Len(text),
           NEW n, n = [SetLine(e, text) EXCEPT !.col = b, !.modified = TRUE]
    PROVE  LineEdits(e, n) /\ n.col = b /\ n.modified
<1> DEFINE lines == [e.lines EXCEPT ![e.line] = text]
           m == [e EXCEPT !.lines = lines]
<1>1. e \in VimState /\ e.lines \in Seq(Seq(Chars)) /\ e.line \in 1..Len(e.lines) /\ Len(e.lines) \in Nat
      /\ DOMAIN e.lines = 1..Len(e.lines) /\ b \in Nat
  BY BufferLines, LenProperties DEF VimGood
<1>2. /\ lines \in Seq(Seq(Chars)) /\ Len(lines) = Len(e.lines) /\ lines[e.line] = text
      /\ \A i \in 1..Len(e.lines) : i # e.line => lines[i] = e.lines[i]
  BY <1>1, ExceptSeq
<1> HIDE DEF lines
<1>3. SetLine(e, text) = m
  BY <1>1 DEF SetLine, lines, VimState
<1>4. m \in VimState /\ n = [m EXCEPT !.col = b, !.modified = TRUE]
  BY <1>1, <1>2, <1>3 DEF VimState
<1>5. n \in VimState
  <2> HIDE DEF m
  <2> QED BY <1>1, <1>4 DEF VimState
<1>6. /\ n.lines = lines /\ n.modified = TRUE /\ n.line = e.line /\ n.col = b
      /\ n.top = e.top /\ n.mode = e.mode /\ n.quit = e.quit /\ n.pending = e.pending /\ n.path = e.path
  BY <1>1, <1>4 DEF VimState
<1>7. VimGood(n)
  BY <1>1, <1>2, <1>5, <1>6 DEF VimGood
<1> HIDE DEF m
<1> QED BY <1>2, <1>6, <1>7 DEF LineEdits, Edits

LEMMA NothingEdited == ASSUME NEW e, VimGood(e) PROVE LineEdits(e, e) /\ Edits(e, e)
BY DEF LineEdits, Edits

LEMMA InsertCharEdits ==
    ASSUME NEW e, VimGood(e), NEW c \in Chars
    PROVE  LineEdits(e, ush_vim_insert_char(e, c))
<1>1. CASE Len(Line(e)) + 1 >= USH_VIM_MAX_LINE_LEN
  BY <1>1, NothingEdited DEF ush_vim_insert_char
<1>2. CASE ~(Len(Line(e)) + 1 >= USH_VIM_MAX_LINE_LEN)
  <2>1. PICK text \in Seq(Chars) : text = InsertAt(Line(e), e.col + 1, c) /\ Len(text) = Len(Line(e)) + 1
    <3>1. PICK s \in Seq(Chars) : s = Line(e)
      BY BufferLines
    <3>2. PICK i \in 1..Len(s) + 1 : i = e.col + 1
      BY <3>1, BufferLines
    <3>3. InsertAt(s, i, c) \in Seq(Chars) /\ Len(InsertAt(s, i, c)) = Len(s) + 1
      BY InsertAtGrows
    <3> QED BY <3>1, <3>2, <3>3
  <2>2. PICK b \in 0..Len(text) : b = e.col + 1
    BY <2>1, BufferLines
  <2>3. SetLine(e, text).col = e.col
    BY DEF SetLine, VimGood, VimState
  <2>4. ush_vim_insert_char(e, c) = [SetLine(e, text) EXCEPT !.col = b, !.modified = TRUE]
    BY <1>2, <2>1, <2>2, <2>3 DEF ush_vim_insert_char
  <2> QED BY <2>4, TextSet
<1> QED BY <1>1, <1>2

\* Four spaces.
LEMMA LineEditsTwice ==
    ASSUME NEW e, NEW m, NEW n, LineEdits(e, m), LineEdits(m, n)
    PROVE  LineEdits(e, n)
BY DEF LineEdits, Edits

LEMMA TabEdits ==
    ASSUME NEW e, VimGood(e)
    PROVE  LET one(x) == ush_vim_insert_char(x, " ") IN LineEdits(e, one(one(one(one(e)))))
<1> DEFINE one(x) == ush_vim_insert_char(x, " ")
<1>1. ASSUME NEW x, LineEdits(e, x) PROVE LineEdits(e, one(x))
  <2>1. VimGood(x) /\ " " \in Chars
    BY <1>1 DEF LineEdits, Edits, Chars
  <2>2. LineEdits(x, one(x))
    BY <2>1, InsertCharEdits
  <2> HIDE DEF one
  <2> QED BY <1>1, <2>2, LineEditsTwice
<1>2. LineEdits(e, e)
  BY NothingEdited
<1> HIDE DEF one
<1>3. LineEdits(e, one(one(one(one(e)))))
  BY <1>1, <1>2
<1> QED BY <1>3 DEF one

LEMMA DeleteCharEdits ==
    ASSUME NEW e, VimGood(e)
    PROVE  LineEdits(e, ush_vim_delete_char(e))
<1>1. CASE e.col >= Len(Line(e))
  BY <1>1, NothingEdited DEF ush_vim_delete_char
<1>2. CASE ~(e.col >= Len(Line(e)))
  <2>1. PICK text \in Seq(Chars) : text = RemoveAt(Line(e), e.col + 1) /\ Len(text) = Len(Line(e)) - 1
    <3>1. PICK s \in Seq(Chars) : s = Line(e)
      BY BufferLines
    <3>2. PICK i \in 1..Len(s) : i = e.col + 1
      BY <1>2, <3>1, BufferLines
    <3>3. RemoveAt(s, i) \in Seq(Chars) /\ Len(RemoveAt(s, i)) = Len(s) - 1
      BY RemoveAtShrinks
    <3> QED BY <3>1, <3>2, <3>3
  <2>2. PICK b \in 0..Len(text) : b = e.col
    BY <1>2, <2>1, BufferLines
  <2>3. SetLine(e, text) = [SetLine(e, text) EXCEPT !.col = b]
    BY <2>2 DEF SetLine, VimGood, VimState
  <2>4. ush_vim_delete_char(e) = [SetLine(e, text) EXCEPT !.col = b, !.modified = TRUE]
    BY <1>2, <2>1, <2>3 DEF ush_vim_delete_char
  <2> QED BY <2>4, TextSet
<1> QED BY <1>1, <1>2

\* The lines are replaced, and the cursor is set.
LEMMA LinesSet ==
    ASSUME NEW e, VimGood(e), NEW lines \in Seq(Seq(Chars)), NEW a \in 1..Len(lines), NEW b \in 0..Len(lines[a]),
           NEW n, n = [e EXCEPT !.lines = lines, !.line = a, !.col = b, !.modified = TRUE]
    PROVE  Edits(e, n) /\ n.lines = lines /\ n.mode = e.mode /\ n.pending = e.pending
<1>1. e \in VimState /\ a \in Nat /\ b \in Nat
  <2>1. Len(lines) \in Nat /\ Len(lines[a]) \in Nat
    BY LenProperties, ElementOfSeq
  <2> QED BY <2>1 DEF VimGood
<1>2. n \in VimState
  BY <1>1 DEF VimState
<1>3. /\ n.lines = lines /\ n.modified = TRUE /\ n.line = a /\ n.col = b
      /\ n.top = e.top /\ n.mode = e.mode /\ n.quit = e.quit /\ n.pending = e.pending /\ n.path = e.path
  BY <1>1 DEF VimState
<1> QED BY <1>2, <1>3 DEF Edits, VimGood

\* n has another number of lines than e.
Resizes(e, n) == Edits(e, n) /\ n.mode = e.mode /\ (n = e \/ Len(n.lines) # Len(e.lines))

LEMMA SplitLineEdits ==
    ASSUME NEW e, VimGood(e)
    PROVE  Edits(e, ush_vim_split_line(e))
<1>1. CASE Len(e.lines) >= USH_VIM_MAX_LINES
  BY <1>1, NothingEdited DEF ush_vim_split_line
<1>2. CASE ~(Len(e.lines) >= USH_VIM_MAX_LINES)
  <2>0. PICK text \in Seq(Chars), ls \in Seq(Seq(Chars)) : text = Line(e) /\ ls = e.lines
    BY BufferLines
  <2>1. PICK a \in 1..Len(ls), c \in 0..Len(text) : text = Line(e) /\ ls = e.lines /\ a = e.line /\ c = e.col
    BY <2>0, BufferLines
  <2>2. Len(text) \in Nat /\ Len(ls) \in Nat
    BY LenProperties
  <2>3. PICK right \in Seq(Chars) : right = SubSeq(text, c + 1, Len(text))
    <3>1. c + 1 \in 1..Len(text) + 1 /\ Len(text) \in 0..Len(text) /\ Len(text) >= (c + 1) - 1
      BY <2>2
    <3> QED BY <3>1, PartOf
  <2>4. PICK left \in Seq(Chars) : left = SubSeq(text, 1, c)
    <3>1. 1 \in 1..Len(text) + 1 /\ c \in 0..Len(text) /\ c >= 1 - 1
      BY <2>2
    <3> QED BY <3>1, PartOf
  <2>5. PICK wider \in Seq(Seq(Chars)) : wider = InsertAt(ls, a + 1, right) /\ Len(wider) = Len(ls) + 1
    <3>1. PICK i \in 1..Len(ls) + 1 : i = a + 1
      BY <2>2
    <3>2. InsertAt(ls, i, right) \in Seq(Seq(Chars)) /\ Len(InsertAt(ls, i, right)) = Len(ls) + 1
      BY InsertAtGrows
    <3> QED BY <3>1, <3>2
  <2>6. PICK lines \in Seq(Seq(Chars)) : lines = [wider EXCEPT ![a] = left] /\ Len(lines) = Len(ls) + 1
    <3>1. a \in 1..Len(wider)
      BY <2>2, <2>5
    <3>2. [wider EXCEPT ![a] = left] \in Seq(Seq(Chars)) /\ Len([wider EXCEPT ![a] = left]) = Len(wider)
      BY <3>1, ExceptSeq
    <3> QED BY <2>5, <3>2
  <2>7. PICK a2 \in 1..Len(lines) : a2 = a + 1
    BY <2>2, <2>6
  <2>8. PICK b \in 0..Len(lines[a2]) : b = 0
    <3>1. Len(lines[a2]) \in Nat
      BY ElementOfSeq, LenProperties
    <3> QED BY <3>1
  <2>9. ush_vim_split_line(e) = [e EXCEPT !.lines = lines, !.line = a2, !.col = b, !.modified = TRUE]
    <3> DEFINE m == [e EXCEPT !.lines = wider]
               k == SetLine(m, left)
    <3>1. ush_vim_split_line(e) = [k EXCEPT !.line = k.line + 1, !.col = 0, !.modified = TRUE]
      BY <1>2, <2>1, <2>3, <2>4, <2>5 DEF ush_vim_split_line
    <3>2. m \in VimState /\ m.line = a /\ m.lines = wider
      BY <2>1 DEF VimGood, VimState
    <3>3. k = [m EXCEPT !.lines = lines]
      <4> HIDE DEF m
      <4> QED BY <2>6, <3>2 DEF SetLine, VimState
    <3>4. k = [e EXCEPT !.lines = lines]
      BY <3>3 DEF VimGood, VimState
    <3>5. k.line + 1 = a2
      BY <2>1, <2>7, <3>4 DEF VimGood, VimState
    <3> HIDE DEF k
    <3>6. ush_vim_split_line(e) = [k EXCEPT !.line = a2, !.col = b, !.modified = TRUE]
      BY <2>8, <3>1, <3>5
    <3> QED BY <3>4, <3>6 DEF VimGood, VimState
  <2>10. PICK n : n = [e EXCEPT !.lines = lines, !.line = a2, !.col = b, !.modified = TRUE]
    OBVIOUS
  <2>11. Edits(e, n)
    BY <2>10, LinesSet
  <2> QED BY <2>9, <2>10, <2>11
<1> QED BY <1>1, <1>2

LEMMA BackspaceEdits ==
    ASSUME NEW e, VimGood(e)
    PROVE  LineEdits(e, ush_vim_backspace(e)) \/ Resizes(e, ush_vim_backspace(e))
<1>1. CASE e.col > 0
  <2>1. PICK text \in Seq(Chars) : text = RemoveAt(Line(e), e.col) /\ Len(text) = Len(Line(e)) - 1
    <3>1. PICK s \in Seq(Chars) : s = Line(e)
      BY BufferLines
    <3>2. PICK i \in 1..Len(s) : i = e.col
      BY <1>1, <3>1, BufferLines
    <3>3. RemoveAt(s, i) \in Seq(Chars) /\ Len(RemoveAt(s, i)) = Len(s) - 1
      BY RemoveAtShrinks
    <3> QED BY <3>1, <3>2, <3>3
  <2>2. PICK b \in 0..Len(text) : b = e.col - 1
    BY <1>1, <2>1, BufferLines
  <2>3. SetLine(e, text).col = e.col
    BY DEF SetLine, VimGood, VimState
  <2>4. ush_vim_backspace(e) = [SetLine(e, text) EXCEPT !.col = b, !.modified = TRUE]
    BY <1>1, <2>1, <2>2, <2>3 DEF ush_vim_backspace
  <2> QED BY <2>4, TextSet
<1>2. CASE ~(e.col > 0) /\ (e.line = 1 \/ Len(e.lines[e.line - 1]) + Len(Line(e)) >= USH_VIM_MAX_LINE_LEN)
  BY <1>2, NothingEdited DEF ush_vim_backspace
<1>3. CASE ~(e.col > 0) /\ ~(e.line = 1 \/ Len(e.lines[e.line - 1]) + Len(Line(e)) >= USH_VIM_MAX_LINE_LEN)
  <2>0. PICK ls \in Seq(Seq(Chars)) : ls = e.lines
    BY BufferLines
  <2>1. PICK a \in 1..Len(ls) : ls = e.lines /\ a = e.line /\ a > 1 /\ Line(e) = ls[a]
    <3>1. e.line \in 1..Len(ls) /\ Line(e) = ls[e.line]
      BY <2>0, BufferLines
    <3>2. PICK a \in 1..Len(ls) : a = e.line
      BY <3>1
    <3>3. a > 1
      <4>1. a # 1
        BY <1>3, <3>2
      <4>2. Len(ls) \in Nat
        BY LenProperties
      <4> QED BY <4>1, <4>2
    <3> QED BY <2>0, <3>1, <3>2, <3>3
  <2>2. Len(ls) \in Nat /\ a - 1 \in 1..Len(ls)
    BY <2>1, LenProperties
  <2>3. PICK up \in Seq(Chars) : up = ls[a - 1]
    BY <2>2, ElementOfSeq
  <2>4. PICK both \in Seq(Chars) : both = up \o ls[a] /\ Len(both) >= Len(up)
    <3>1. PICK here \in Seq(Chars) : here = ls[a]
      BY ElementOfSeq
    <3>2. up \o here \in Seq(Chars) /\ Len(up \o here) = Len(up) + Len(here)
      BY ConcatProperties
    <3>3. Len(up) \in Nat /\ Len(here) \in Nat
      BY LenProperties
    <3>4. Len(up \o here) >= Len(up)
      BY <3>2, <3>3
    <3> QED BY <3>1, <3>2, <3>4
  <2>5. PICK m \in Seq(Seq(Chars)) : m = [ls EXCEPT ![a - 1] = both] /\ Len(m) = Len(ls) /\ m[a - 1] = both
    <3>1. PICK i \in 1..Len(ls) : i = a - 1
      BY <2>2
    <3>2. /\ [ls EXCEPT ![i] = both] \in Seq(Seq(Chars)) /\ Len([ls EXCEPT ![i] = both]) = Len(ls)
          /\ [ls EXCEPT ![i] = both][i] = both
      BY ExceptSeq
    <3> QED BY <3>1, <3>2
  <2>6. PICK lines \in Seq(Seq(Chars)) : lines = RemoveAt(m, a) /\ Len(lines) = Len(ls) - 1 /\ lines[a - 1] = both
    <3>1. a \in 1..Len(m)
      BY <2>5
    <3>2. RemoveAt(m, a) \in Seq(Seq(Chars)) /\ Len(RemoveAt(m, a)) = Len(m) - 1
      BY <3>1, RemoveAtShrinks
    <3>3. RemoveAt(m, a)[a - 1] = m[a - 1]
      BY <2>1, <2>2, <3>1, RemoveAtBefore
    <3> QED BY <2>5, <3>2, <3>3
  <2>7. PICK a2 \in 1..Len(lines) : a2 = a - 1
    BY <2>1, <2>2, <2>6
  <2>8. PICK b \in 0..Len(lines[a2]) : b = Len(up)
    <3>1. lines[a2] = both /\ Len(up) \in Nat /\ Len(both) \in Nat
      BY <2>6, <2>7, LenProperties
    <3> QED BY <2>4, <3>1
  <2>9. ush_vim_backspace(e) = [e EXCEPT !.lines = lines, !.line = a2, !.col = b, !.modified = TRUE]
    <3>1. [e.lines EXCEPT ![e.line - 1] = e.lines[e.line - 1] \o Line(e)] = m
      BY <2>1, <2>2, <2>3, <2>4, <2>5
    <3>2. RemoveAt(m, e.line) = lines /\ e.line - 1 = a2 /\ Len(e.lines[e.line - 1]) = b
      BY <2>1, <2>3, <2>6, <2>7, <2>8
    <3> DEFINE with(x, i, y) == [e EXCEPT !.lines = x, !.line = i, !.col = y, !.modified = TRUE]
    <3>4. ush_vim_backspace(e) =
            with(RemoveAt([e.lines EXCEPT ![e.line - 1] = e.lines[e.line - 1] \o Line(e)], e.line), e.line - 1, Len(e.lines[e.line - 1]))
      BY <1>3, Zenon DEF ush_vim_backspace
    <3>5. with(lines, a2, b) = [e EXCEPT !.lines = lines, !.line = a2, !.col = b, !.modified = TRUE]
      BY Zenon
    <3> HIDE DEF with
    <3> QED BY <3>1, <3>2, <3>4, <3>5
  <2>10. Edits(e, ush_vim_backspace(e)) /\ ush_vim_backspace(e).lines = lines /\ ush_vim_backspace(e).mode = e.mode
    <3>1. PICK n : n = [e EXCEPT !.lines = lines, !.line = a2, !.col = b, !.modified = TRUE]
      OBVIOUS
    <3>2. Edits(e, n)
      BY <3>1, LinesSet
    <3>3. n.lines = lines /\ n.mode = e.mode
      BY <3>1 DEF VimGood, VimState
    <3> QED BY <2>9, <3>1, <3>2, <3>3
  <2>11. Len(lines) # Len(e.lines)
    BY <2>1, <2>2, <2>6
  <2> QED BY <2>10, <2>11 DEF Resizes
<1> QED BY <1>1, <1>2, <1>3

LEMMA DeleteLineEdits ==
    ASSUME NEW e, VimGood(e)
    PROVE  /\ Edits(e, ush_vim_delete_line(e)) /\ ush_vim_delete_line(e) \in VimState
           /\ Len(e.lines) # 1 => Len(ush_vim_delete_line(e).lines) # Len(e.lines)
<1>0. PICK ls \in Seq(Seq(Chars)) : ls = e.lines /\ Len(ls) \in Nat \ {0}
  BY BufferLines
<1>1. CASE Len(e.lines) = 1
  <2>1. PICK lines \in Seq(Seq(Chars)) : lines = <<<<>>>> /\ Len(lines) = 1 /\ lines[1] = <<>>
    <3>1. <<>> \in Seq(Chars)
      OBVIOUS
    <3>2. <<<<>>>> \in Seq(Seq(Chars)) /\ Len(<<<<>>>>) = 1 /\ <<<<>>>>[1] = <<>>
      BY <3>1
    <3> QED BY <3>2
  <2>2. PICK a \in 1..Len(lines) : a = 1
    BY <2>1
  <2>3. PICK b \in 0..Len(lines[a]) : b = 0
    BY <2>1, <2>2
  <2>4. PICK n : n = [e EXCEPT !.lines = lines, !.line = a, !.col = b, !.modified = TRUE]
    OBVIOUS
  <2>5. Edits(e, n)
    BY <2>4, LinesSet
  <2>6. ush_vim_delete_line(e) = n
    BY <1>1, <2>1, <2>2, <2>3, <2>4 DEF ush_vim_delete_line
  <2> QED BY <1>1, <2>5, <2>6 DEF Edits, VimGood
<1>2. CASE Len(e.lines) # 1
  <2>1. PICK lines \in Seq(Seq(Chars)) : lines = RemoveAt(ls, e.line) /\ Len(lines) = Len(ls) - 1
    <3>1. PICK i \in 1..Len(ls) : i = e.line
      BY <1>0, BufferLines
    <3>2. RemoveAt(ls, i) \in Seq(Seq(Chars)) /\ Len(RemoveAt(ls, i)) = Len(ls) - 1
      BY RemoveAtShrinks
    <3> QED BY <3>1, <3>2
  <2>2. PICK m : m = [e EXCEPT !.lines = lines]
    OBVIOUS
  <2>3. m \in VimState /\ m.lines = lines /\ m.line > 0 /\ m.top = e.top /\ m.quit = e.quit /\ m.path = e.path
    <3>1. e \in VimState /\ e.line > 0
      BY BufferLines DEF VimGood
    <3> QED BY <2>2, <3>1 DEF VimState
  <2>4. m.lines # <<>>
    <3>1. Len(ls) # 1
      BY <1>0, <1>2
    <3>2. PICK a \in Nat \ {0} : a = Len(ls)
      BY <1>0
    <3>3. PICK b \in Nat : b = Len(lines)
      BY <2>1, LenProperties
    <3>4. b = a - 1 /\ a # 1
      BY <2>1, <3>1, <3>2, <3>3
    <3>5. b # 0
      BY <3>2, <3>4
    <3> QED BY <2>3, <3>3, <3>5, EmptySeq
  <2>5. PICK k : k = ush_vim_keep_cursor_valid(m) /\ Moves(m, k)
    BY <2>3, <2>4, CursorKept
  <2>6. PICK n : n = [k EXCEPT !.modified = TRUE]
    OBVIOUS
  <2>7. ush_vim_delete_line(e) = n
    BY <1>0, <1>2, <2>1, <2>2, <2>5, <2>6 DEF ush_vim_delete_line
  <2>8. n \in VimState /\ n.lines = k.lines /\ n.line = k.line /\ n.col = k.col /\ n.modified = TRUE
        /\ n.top = k.top /\ n.quit = k.quit /\ n.path = k.path
    <3>1. k \in VimState
      BY <2>5 DEF Moves, VimGood
    <3> QED BY <2>6, <3>1 DEF VimState
  <2>9. Edits(e, n)
    BY <2>3, <2>5, <2>8 DEF Edits, Moves, VimGood
  <2>10. Len(n.lines) # Len(e.lines)
    <3>1. n.lines = lines
      BY <2>3, <2>5, <2>8 DEF Moves
    <3> QED BY <1>0, <2>1, <3>1
  <2> QED BY <2>7, <2>8, <2>9, <2>10
<1> QED BY <1>1, <1>2

LEMMA PendingSet ==
    ASSUME NEW e, NEW m, Edits(e, m), NEW p \in Pending, NEW n, n = [m EXCEPT !.pending = p]
    PROVE  Edits(e, n) /\ n.lines = m.lines /\ n.line = m.line /\ n.col = m.col /\ n.modified = m.modified /\ n.mode = m.mode
<1>1. m \in VimState
  BY DEF Edits, VimGood
<1>2. n \in VimState /\ n.lines = m.lines /\ n.line = m.line /\ n.col = m.col /\ n.modified = m.modified
      /\ n.top = m.top /\ n.quit = m.quit /\ n.path = m.path /\ n.mode = m.mode
  BY <1>1 DEF VimState
<1> QED BY <1>2 DEF Edits, VimGood

LEMMA OnlyModeSet ==
    ASSUME NEW e, NEW m, Edits(e, m), NEW x \in {"normal", "insert", "command"}, NEW n, n = [m EXCEPT !.mode = x]
    PROVE  Edits(e, n) /\ n.lines = m.lines /\ n.line = m.line /\ n.col = m.col /\ n.modified = m.modified /\ n.mode = x
<1>1. m \in VimState
  BY DEF Edits, VimGood
<1>2. n \in VimState /\ n.lines = m.lines /\ n.line = m.line /\ n.col = m.col /\ n.modified = m.modified
      /\ n.top = m.top /\ n.quit = m.quit /\ n.path = m.path /\ n.mode = x
  BY <1>1 DEF VimState
<1> QED BY <1>2 DEF Edits, VimGood

LEMMA OpenBelowEdits ==
    ASSUME NEW e, VimGood(e)
    PROVE  /\ Edits(e, ush_vim_open_below_insert(e))
           /\ ush_vim_open_below_insert(e) = e \/ Len(ush_vim_open_below_insert(e).lines) # Len(e.lines)
<1>1. CASE Len(e.lines) >= USH_VIM_MAX_LINES
  BY <1>1, NothingEdited DEF ush_vim_open_below_insert
<1>2. CASE ~(Len(e.lines) >= USH_VIM_MAX_LINES)
  <2>1. PICK ls \in Seq(Seq(Chars)) : ls = e.lines /\ Len(ls) \in Nat
    BY BufferLines
  <2>2. PICK a \in 1..Len(ls) : a = e.line
    BY <2>1, BufferLines
  <2>3. PICK lines \in Seq(Seq(Chars)) : lines = InsertAt(ls, a + 1, <<>>) /\ Len(lines) = Len(ls) + 1 /\ lines[a + 1] \in Seq(Chars)
    <3>1. PICK i \in 1..Len(ls) + 1 : i = a + 1
      BY <2>1
    <3>2. PICK x \in Seq(Chars) : x = <<>>
      <4>1. <<>> \in Seq(Chars)
        OBVIOUS
      <4> QED BY <4>1
    <3>3. InsertAt(ls, i, x) \in Seq(Seq(Chars)) /\ Len(InsertAt(ls, i, x)) = Len(ls) + 1
      BY InsertAtGrows
    <3>4. i \in 1..Len(InsertAt(ls, i, x))
      BY <2>1, <3>3
    <3>5. InsertAt(ls, i, x)[i] \in Seq(Chars)
      BY <3>3, <3>4, ElementOfSeq
    <3> QED BY <3>1, <3>2, <3>3, <3>5
  <2>4. PICK a2 \in 1..Len(lines) : a2 = a + 1
    BY <2>1, <2>3
  <2>5. PICK b \in 0..Len(lines[a2]) : b = 0
    <3>1. Len(lines[a2]) \in Nat
      BY <2>3, <2>4, LenProperties
    <3> QED BY <3>1
  <2>6. PICK m : m = [e EXCEPT !.lines = lines, !.line = a2, !.col = b, !.modified = TRUE]
    OBVIOUS
  <2>7. Edits(e, m)
    BY <2>6, LinesSet
  <2>8. m.lines = lines
    BY <2>6 DEF VimGood, VimState
  <2>9. PICK n : n = [m EXCEPT !.mode = "insert"]
    OBVIOUS
  <2>10. Edits(e, n) /\ n.lines = m.lines
    BY <2>7, <2>9, OnlyModeSet
  <2>11. ush_vim_open_below_insert(e) = n
    <3>1. ush_vim_open_below_insert(e) =
            [e EXCEPT !.lines = lines, !.line = a2, !.col = b, !.mode = "insert", !.modified = TRUE]
      BY <1>2, <2>1, <2>2, <2>3, <2>4, <2>5 DEF ush_vim_open_below_insert
    <3> QED BY <2>6, <2>9, <3>1 DEF VimGood, VimState
  <2>12. Len(n.lines) # Len(e.lines)
    BY <2>1, <2>3, <2>8, <2>10
  <2> QED BY <2>10, <2>11, <2>12
<1> QED BY <1>1, <1>2

(***************************************************************************)
(* The keys.                                                               *)
(***************************************************************************)

\* What the main loop takes for changed covers what the key has changed.
Seen(e, n, key) ==
    \/ key = "enter" \/ Len(n.lines) # Len(e.lines)
    \/ \A i \in 1..Len(e.lines) : n.lines[i] # e.lines[i] => i = n.line /\ EditKeys(e.mode, key)

UnseenIn(e) ==
    \/ e.mode = "normal" /\ e.pending = "dd" /\ Len(e.lines) = 1
    \/ e.mode = "insert" /\ e.pending = "jj"

LEMMA SameIsSeen == ASSUME NEW e, NEW n, NEW key, n.lines = e.lines PROVE Seen(e, n, key)
BY DEF Seen

LEMMA MovesEdit == ASSUME NEW e, NEW n, Moves(e, n) PROVE Edits(e, n) /\ n.lines = e.lines
BY DEF Moves, Edits

LEMMA InsertedEdits ==
    ASSUME NEW e, VimGood(e), NEW key \in InsertKeys \ {"esc"}
    PROVE  /\ Edits(e, Inserted(e, key))
           /\ e.mode = "insert" => Seen(e, Inserted(e, key), key)
<1> DEFINE n == Inserted(e, key)
<1>0. Edits(e, e)
  BY NothingEdited
<1>1. CASE key = "j"
  <2>1. PICK k : k = [e EXCEPT !.pending = "jj"]
    OBVIOUS
  <2>2. n = k
    BY <1>1, <2>1 DEF Inserted, Arrows
  <2>3. Edits(e, k) /\ k.lines = e.lines
    BY <1>0, <2>1, PendingSet DEF Pending
  <2> QED BY <2>2, <2>3, SameIsSeen
<1>2. CASE key \in Arrows
  <2>1. n = Moved(e, key)
    BY <1>2 DEF Inserted, Arrows
  <2> QED BY <1>2, <2>1, MovedMoves, MovesEdit, SameIsSeen
<1>3. CASE key = "enter"
  <2>1. n = ush_vim_split_line(e)
    BY <1>3 DEF Inserted, Arrows
  <2> QED BY <1>3, <2>1, SplitLineEdits DEF Seen
<1>4. CASE key = "backspace"
  <2>1. n = ush_vim_backspace(e)
    BY <1>4 DEF Inserted, Arrows
  <2>2. LineEdits(e, n) \/ Resizes(e, n)
    BY <2>1, BackspaceEdits
  <2>3. e.mode = "insert" => EditKeys(e.mode, key)
    BY <1>4 DEF EditKeys
  <2> HIDE DEF n
  <2> QED BY <2>2, <2>3, SameIsSeen DEF LineEdits, Resizes, Edits, Seen, n
<1>5. CASE key = "tab"
  <2>1. LET one(x) == ush_vim_insert_char(x, " ") IN n = one(one(one(one(e))))
    BY <1>5 DEF Inserted, Arrows
  <2>2. LineEdits(e, n)
    BY <2>1, TabEdits
  <2>3. e.mode = "insert" => EditKeys(e.mode, key)
    BY <1>5 DEF EditKeys
  <2> HIDE DEF n
  <2> QED BY <2>2, <2>3 DEF LineEdits, Seen, n
<1>6. CASE key \notin Arrows \cup {"j", "enter", "backspace", "tab"}
  <2>1. n = ush_vim_insert_char(e, key)
    BY <1>6 DEF Inserted
  <2>2. key \in VimChars /\ key \in Chars
    BY <1>6 DEF InsertKeys, Chars, Keys
  <2>3. LineEdits(e, n)
    BY <2>1, <2>2, InsertCharEdits
  <2>4. e.mode = "insert" => EditKeys(e.mode, key)
    BY <2>2 DEF EditKeys
  <2> HIDE DEF n
  <2> QED BY <2>3, <2>4 DEF LineEdits, Seen, n
<1> QED BY <1>1, <1>2, <1>3, <1>4, <1>5, <1>6

LEMMA EditsTwice ==
    ASSUME NEW e, NEW m, NEW n, Edits(e, m), Edits(m, n)
    PROVE  Edits(e, n)
BY DEF Edits

LEMMA InsertModeEdits ==
    ASSUME NEW e, VimGood(e), e.mode = "insert", NEW key \in InsertKeys
    PROVE  LET n == ush_vim_handle_insert_mode(e, key)
           IN  Edits(e, n) /\ (~UnseenIn(e) => Seen(e, n, key))
<1> DEFINE n == ush_vim_handle_insert_mode(e, key)
<1>0. Edits(e, e)
  BY NothingEdited
<1>1. CASE key = "esc" \/ (e.pending = "jj" /\ key = "j")
  <2>1. PICK k : k = [e EXCEPT !.mode = "normal", !.pending = "none"]
    OBVIOUS
  <2>2. n = k
    BY <1>1, <2>1 DEF ush_vim_handle_insert_mode
  <2>3. Edits(e, k) /\ k.lines = e.lines
    <3>1. e \in VimState /\ "none" \in Pending
      BY DEF VimGood, Pending
    <3>2. /\ k \in VimState /\ k.line = e.line /\ k.col = e.col /\ k.lines = e.lines
          /\ k.modified = e.modified /\ k.top = e.top /\ k.quit = e.quit /\ k.path = e.path
      BY <2>1, <3>1 DEF VimState
    <3> QED BY <3>2 DEF Edits, VimGood
  <2> QED BY <2>2, <2>3, SameIsSeen
<1>2. CASE ~(key = "esc" \/ (e.pending = "jj" /\ key = "j")) /\ e.pending = "jj"
  <2>1. PICK k : k = ush_vim_insert_char(e, "j")
    OBVIOUS
  <2>2. Edits(e, k)
    <3>1. "j" \in Chars
      BY DEF Chars
    <3> QED BY <2>1, <3>1, InsertCharEdits DEF LineEdits
  <2>3. PICK m : m = [k EXCEPT !.pending = "none"]
    OBVIOUS
  <2>4. Edits(e, m)
    BY <2>2, <2>3, PendingSet DEF Pending
  <2>5. n = Inserted(m, key)
    BY <1>2, <2>1, <2>3 DEF ush_vim_handle_insert_mode
  <2>6. Edits(m, Inserted(m, key))
    BY <1>2, <2>4, InsertedEdits DEF Edits
  <2>7. Edits(e, n)
    BY <2>4, <2>5, <2>6, EditsTwice
  <2>8. UnseenIn(e)
    BY <1>2 DEF UnseenIn
  <2> QED BY <2>7, <2>8
<1>3. CASE ~(key = "esc" \/ (e.pending = "jj" /\ key = "j")) /\ e.pending # "jj"
  <2>1. n = Inserted(e, key)
    BY <1>3 DEF ush_vim_handle_insert_mode
  <2> QED BY <1>3, <2>1, InsertedEdits
<1> QED BY <1>1, <1>2, <1>3

LEMMA NormalModeEdits ==
    ASSUME NEW e, VimGood(e), e.mode = "normal", NEW key \in NormalKeys
    PROVE  LET n == ush_vim_handle_normal_mode(e, key)
           IN  Edits(e, n) /\ (~UnseenIn(e) => Seen(e, n, key))
<1> DEFINE n == ush_vim_handle_normal_mode(e, key)
<1>0. Edits(e, e)
  BY NothingEdited
<1>1. CASE e.pending = "dd"
  <2>1. PICK m : m = IF key = "d" THEN ush_vim_delete_line(e) ELSE e
    OBVIOUS
  <2>2. Edits(e, m) /\ (m = e \/ Len(e.lines) = 1 \/ Len(m.lines) # Len(e.lines))
    BY <1>0, <2>1, DeleteLineEdits
  <2>3. PICK k : k = [m EXCEPT !.pending = "none"]
    OBVIOUS
  <2>4. Edits(e, k) /\ k.lines = m.lines
    BY <2>2, <2>3, PendingSet DEF Pending
  <2>5. n = k
    BY <1>1, <2>1, <2>3 DEF ush_vim_handle_normal_mode
  <2>6. ~UnseenIn(e) => Len(e.lines) # 1
    BY <1>1 DEF UnseenIn
  <2>7. ~UnseenIn(e) => Seen(e, k, key)
    BY <2>2, <2>4, <2>6 DEF Seen
  <2> QED BY <2>4, <2>5, <2>7
<1>2. CASE e.pending = "gg"
  <2>1. PICK m : m = IF key = "g" THEN [e EXCEPT !.line = 1, !.col = 0] ELSE e
    OBVIOUS
  <2>2. Edits(e, m) /\ m.lines = e.lines
    <3>1. CASE key = "g"
      <4>1. PICK a \in 1..Len(e.lines) : a = 1
        BY BufferLines
      <4>2. PICK b \in 0..Len(e.lines[a]) : b = 0
        BY BufferLines
      <4>3. m = [e EXCEPT !.line = a, !.col = b]
        BY <2>1, <3>1, <4>1, <4>2
      <4>4. Moves(e, m)
        <5>1. a \in Nat /\ b \in Nat /\ e \in VimState
          BY BufferLines DEF VimGood
        <5>2. /\ m \in VimState /\ m.line = a /\ m.col = b /\ m.lines = e.lines /\ m.modified = e.modified
              /\ m.top = e.top /\ m.mode = e.mode /\ m.quit = e.quit /\ m.pending = e.pending /\ m.path = e.path
          BY <4>3, <5>1 DEF VimState
        <5> QED BY <5>2 DEF Moves, VimGood
      <4> QED BY <4>4, MovesEdit
    <3>2. CASE key # "g"
      BY <1>0, <2>1, <3>2
    <3> QED BY <3>1, <3>2
  <2>3. PICK k : k = [m EXCEPT !.pending = "none"]
    OBVIOUS
  <2>4. Edits(e, k) /\ k.lines = m.lines
    BY <2>2, <2>3, PendingSet DEF Pending
  <2>5. n = k
    BY <1>2, <2>1, <2>3 DEF ush_vim_handle_normal_mode
  <2> QED BY <2>2, <2>4, <2>5, SameIsSeen
<1> DEFINE plain == e.pending \notin {"dd", "gg"}
<1>3. CASE plain /\ key \in Arrows
  <2>1. n = Moved(e, key)
    BY <1>3 DEF ush_vim_handle_normal_mode, Arrows
  <2> QED BY <1>3, <2>1, MovedMoves, MovesEdit, SameIsSeen
<1>4. CASE plain /\ key = "G"
  <2>1. PICK m : m = [e EXCEPT !.line = Len(e.lines)]
    OBVIOUS
  <2>2. n = ush_vim_keep_cursor_valid(m)
    BY <1>4, <2>1 DEF ush_vim_handle_normal_mode, Arrows
  <2>3. PICK a \in Nat : a = Len(e.lines) /\ a > 0
    BY BufferLines
  <2>4. /\ m \in VimState /\ m.line > 0 /\ m.lines = e.lines /\ m.modified = e.modified
        /\ m.top = e.top /\ m.quit = e.quit /\ m.path = e.path
    <3>1. m = [e EXCEPT !.line = a] /\ e \in VimState
      BY <2>1, <2>3 DEF VimGood
    <3> QED BY <2>3, <3>1 DEF VimState
  <2>5. m.lines # <<>>
    BY <2>4, BufferLines, EmptySeq
  <2>6. Moves(m, n)
    BY <2>2, <2>4, <2>5, CursorKept
  <2>7. Edits(e, n) /\ n.lines = e.lines
    BY <2>4, <2>6 DEF Moves, Edits
  <2> QED BY <2>7, SameIsSeen
<1>5. CASE plain /\ key \in {"g", "d"}
  <2>1. PICK p \in Pending : n = [e EXCEPT !.pending = p]
    <3>1. n = [e EXCEPT !.pending = "gg"] \/ n = [e EXCEPT !.pending = "dd"]
      BY <1>5 DEF ush_vim_handle_normal_mode, Arrows
    <3> QED BY <3>1 DEF Pending
  <2>2. PICK k : k = [e EXCEPT !.pending = p]
    OBVIOUS
  <2>3. Edits(e, k) /\ k.lines = e.lines
    BY <1>0, <2>2, PendingSet
  <2> QED BY <2>1, <2>2, <2>3, SameIsSeen
<1>6. CASE plain /\ key \in {"i", ":"}
  <2>1. PICK x \in {"normal", "insert", "command"} : n = [e EXCEPT !.mode = x]
    BY <1>6 DEF ush_vim_handle_normal_mode, Arrows
  <2>2. PICK k : k = [e EXCEPT !.mode = x]
    OBVIOUS
  <2>3. Edits(e, k) /\ k.lines = e.lines
    BY <1>0, <2>2, OnlyModeSet
  <2> QED BY <2>1, <2>2, <2>3, SameIsSeen
<1>7. CASE plain /\ key = "a"
  <2>1. PICK b \in 0..Len(Line(e)) : b = Least(e.col + 1, Len(Line(e)))
    <3>1. PICK len \in Nat : len = Len(Line(e))
      BY BufferLines
    <3>2. PICK col \in 0..len : col = e.col
      BY <3>1, BufferLines
    <3>3. Least(col + 1, len) \in 0..len
      BY <3>1 DEF Least
    <3> QED BY <3>1, <3>2, <3>3
  <2>2. PICK m : m = [e EXCEPT !.col = b]
    OBVIOUS
  <2>3. Edits(e, m) /\ m.lines = e.lines
    BY <2>2, ColumnSet, MovesEdit
  <2>4. PICK k : k = [m EXCEPT !.mode = "insert"]
    OBVIOUS
  <2>5. Edits(e, k) /\ k.lines = m.lines
    BY <2>3, <2>4, OnlyModeSet
  <2>6. n = k
    <3>1. n = [e EXCEPT !.mode = "insert", !.col = b]
      BY <1>7, <2>1 DEF ush_vim_handle_normal_mode, Arrows
    <3> HIDE DEF n
    <3> QED BY <2>2, <2>4, <3>1 DEF VimGood, VimState
  <2> QED BY <2>3, <2>5, <2>6, SameIsSeen
<1>8. CASE plain /\ key = "o"
  <2>1. n = ush_vim_open_below_insert(e)
    BY <1>8 DEF ush_vim_handle_normal_mode, Arrows
  <2>2. Edits(e, n) /\ (n = e \/ Len(n.lines) # Len(e.lines))
    BY <2>1, OpenBelowEdits
  <2> HIDE DEF n
  <2> QED BY <2>2 DEF Seen, n
<1>9. CASE plain /\ key = "x"
  <2>1. n = ush_vim_delete_char(e)
    BY <1>9 DEF ush_vim_handle_normal_mode, Arrows
  <2>2. LineEdits(e, n)
    BY <2>1, DeleteCharEdits
  <2>3. EditKeys(e.mode, key)
    BY <1>9 DEF EditKeys
  <2> HIDE DEF n
  <2> QED BY <2>2, <2>3 DEF LineEdits, Seen, n
<1>10. CASE plain /\ key \in {"esc", "enter"}
  <2>1. n = e
    BY <1>10 DEF ush_vim_handle_normal_mode, Arrows
  <2> QED BY <1>0, <2>1, SameIsSeen
<1> QED BY <1>1, <1>2, <1>3, <1>4, <1>5, <1>6, <1>7, <1>8, <1>9, <1>10 DEF NormalKeys

(***************************************************************************)
(* The main loop.                                                          *)
(***************************************************************************)

InView(e) == e.top <= e.line /\ e.line < e.top + USH_VIM_VIEW_ROWS

\* n is e scrolled.
Scrolls(e, n) ==
    /\ VimGood(n) /\ InView(n)
    /\ n.lines = e.lines /\ n.line = e.line /\ n.col = e.col /\ n.modified = e.modified
    /\ n.mode = e.mode /\ n.quit = e.quit /\ n.pending = e.pending /\ n.path = e.path

LEMMA ShownScrolls ==
    ASSUME NEW e, VimGood(e)
    PROVE  Scrolls(e, Shown(e)) /\ (InView(e) => Shown(e) = e)
<1>0. USH_VIM_VIEW_ROWS \in Nat \ {0}
  BY VimAssumption
<1>1. Shown(e) = ush_vim_ensure_cursor_visible(e)
  BY CursorStays DEF Shown
<1>2. e \in VimState /\ e.line \in Nat \ {0} /\ e.top \in Nat \ {0}
  <2>1. e \in VimState /\ e.line \in 1..Len(e.lines) /\ Len(e.lines) \in Nat
    BY BufferLines DEF VimGood
  <2> QED BY <2>1 DEF VimState
<1>3. ASSUME NEW t \in Nat \ {0}, t <= e.line, e.line < t + USH_VIM_VIEW_ROWS,
             NEW n, n = [e EXCEPT !.top = t]
      PROVE  Scrolls(e, n)
  <2>1. /\ n \in VimState /\ n.top = t
        /\ n.lines = e.lines /\ n.line = e.line /\ n.col = e.col /\ n.modified = e.modified
        /\ n.mode = e.mode /\ n.quit = e.quit /\ n.pending = e.pending /\ n.path = e.path
    BY <1>2, <1>3 DEF VimState
  <2> QED BY <1>3, <2>1 DEF Scrolls, VimGood, InView
<1>4. CASE e.line < e.top
  <2>1. PICK t \in Nat \ {0} : t = e.line
    BY <1>2
  <2>2. t <= e.line /\ e.line < t + USH_VIM_VIEW_ROWS
    BY <1>0, <2>1
  <2>3. Shown(e) = [e EXCEPT !.top = t]
    BY <1>1, <1>4, <2>1 DEF ush_vim_ensure_cursor_visible
  <2> QED BY <1>2, <1>3, <1>4, <2>2, <2>3 DEF InView
<1>5. CASE ~(e.line < e.top) /\ e.line >= e.top + USH_VIM_VIEW_ROWS
  <2>1. PICK l \in Nat \ {0} : l = e.line
    BY <1>2
  <2>2. PICK p \in Nat \ {0} : p = e.top
    BY <1>2
  <2>3. PICK t \in Nat \ {0} : t = l - USH_VIM_VIEW_ROWS + 1
    BY <1>0, <1>5, <2>1, <2>2
  <2>4. t <= e.line /\ e.line < t + USH_VIM_VIEW_ROWS
    BY <1>0, <2>1, <2>3
  <2>5. Shown(e) = [e EXCEPT !.top = t]
    BY <1>1, <1>5, <2>1, <2>3 DEF ush_vim_ensure_cursor_visible
  <2>6. ~InView(e)
    BY <1>0, <1>5, <2>1, <2>2 DEF InView
  <2> QED BY <1>3, <2>4, <2>5, <2>6
<1>6. CASE ~(e.line < e.top) /\ ~(e.line >= e.top + USH_VIM_VIEW_ROWS)
  <2>1. Shown(e) = e
    BY <1>1, <1>6 DEF ush_vim_ensure_cursor_visible
  <2>2. InView(e)
    BY <1>0, <1>2, <1>6 DEF InView
  <2> QED BY <2>1, <2>2 DEF Scrolls
<1> QED BY <1>4, <1>5, <1>6

\* If the screen shows e and the main loop sees what the key did, it ends with
\* a screen that shows what the key left.
LEMMA RedrawnShows ==
    ASSUME NEW e, NEW n, NEW key, NEW s,
           VimGood(e), VimGood(n), Seen(e, n, key), n.path = e.path \/ key = "enter",
           s = ush_vim_render(e)
    PROVE  Redrawn(s, e, n, key) = ush_vim_render(n)
<1>1. CASE n.top # e.top \/ Len(n.lines) # Len(e.lines) \/ key = "enter"
  BY <1>1 DEF Redrawn
<1>2. CASE ~(n.top # e.top \/ Len(n.lines) # Len(e.lines) \/ key = "enter")
  <2> DEFINE h == e.mode # n.mode \/ e.modified # n.modified
             p == e.line # n.line \/ e.col # n.col \/ Len(e.lines) # Len(n.lines)
             dirty == IF LineDirty(e, n, key) THEN {Least(e.line, n.line), n.line} ELSE {}
             R == 0 .. USH_VIM_VIEW_ROWS - 1
             full == ush_vim_render(n)
             k == ush_vim_render_partial(s, n, h, p, dirty)
  <2>1. Redrawn(s, e, n, key) = k
    BY <1>2 DEF Redrawn
  <2>2. n.top = e.top /\ Len(n.lines) = Len(e.lines) /\ key # "enter" /\ n.path = e.path
    BY <1>2
  <2>3. /\ s.header = <<e.path, e.mode, e.modified>> /\ s.pos = <<e.line, e.col, Len(e.lines)>>
        /\ s.rows = [r \in R |-> ush_vim_render_line(e, e.top + r)]
    BY DEF ush_vim_render
  <2>4. full = [header |-> <<n.path, n.mode, n.modified>>, pos |-> <<n.line, n.col, Len(n.lines)>>,
                rows |-> [r \in R |-> ush_vim_render_line(n, n.top + r)]]
    BY DEF ush_vim_render
  <2>5. (IF h THEN full.header ELSE s.header) = full.header
    BY <2>2, <2>3, <2>4
  <2>6. (IF p THEN full.pos ELSE s.pos) = full.pos
    BY <2>2, <2>3, <2>4
  <2>7. ASSUME NEW r \in R
        PROVE  (IF n.top + r \in dirty THEN full.rows[r] ELSE s.rows[r]) = full.rows[r]
    <3>1. s.rows[r] = ush_vim_render_line(e, e.top + r) /\ full.rows[r] = ush_vim_render_line(n, n.top + r)
      BY <2>3, <2>4, <2>7
    <3>2. PICK i \in Nat \ {0} : i = e.top + r
      BY VimAssumption DEF VimGood, VimState
    <3>3. CASE i > Len(e.lines)
      <4>1. ~(i <= Len(e.lines)) /\ ~(i <= Len(n.lines))
        BY <2>2, <3>2, <3>3, BufferLines
      <4>2. ush_vim_render_line(e, i) = <<"~">> /\ ush_vim_render_line(n, i) = <<"~">>
        BY <4>1 DEF ush_vim_render_line
      <4> QED BY <2>2, <3>1, <3>2, <4>2
    <3>4. CASE ~(i > Len(e.lines))
      <4>1. i \in 1..Len(e.lines)
        BY <3>2, <3>4, BufferLines
      <4>2. CASE n.lines[i] = e.lines[i]
        <5>1. ush_vim_render_line(e, i) = ush_vim_render_line(n, i)
          BY <2>2, <4>2 DEF ush_vim_render_line
        <5> QED BY <2>2, <3>1, <3>2, <5>1
      <4>3. CASE n.lines[i] # e.lines[i]
        <5>1. i = n.line /\ EditKeys(e.mode, key)
          BY <2>2, <4>1, <4>3 DEF Seen
        <5>2. i \in dirty
          BY <5>1 DEF LineDirty
        <5>3. n.top + r \in dirty
          BY <2>2, <3>2, <5>2
        <5> QED BY <5>3
      <4> QED BY <4>2, <4>3
    <3> QED BY <3>3, <3>4
  <2>8. DOMAIN s.rows = R /\ full.rows = [r \in R |-> full.rows[r]]
    BY <2>3, <2>4
  <2>9. [r \in DOMAIN s.rows |-> IF n.top + r \in dirty THEN full.rows[r] ELSE s.rows[r]] = full.rows
    <3> HIDE DEF full, dirty, R
    <3> QED BY <2>7, <2>8
  <2>10. k = [header |-> IF h THEN full.header ELSE s.header, pos |-> IF p THEN full.pos ELSE s.pos,
              rows |-> [r \in DOMAIN s.rows |-> IF n.top + r \in dirty THEN full.rows[r] ELSE s.rows[r]]]
    BY DEF ush_vim_render_partial
  <2>11. k = [header |-> full.header, pos |-> full.pos, rows |-> full.rows]
    <3> HIDE DEF full, dirty, h, p
    <3> QED BY <2>5, <2>6, <2>9, <2>10
  <2>12. k = full
    <3> HIDE DEF k
    <3> QED BY <2>4, <2>11
  <2> QED BY <2>1, <2>12
<1> QED BY <1>1, <1>2

\* A command changes only the path, the mark, and whether the editor goes on.
LEMMA CommandRuns ==
    ASSUME NEW e, VimGood(e), InView(e), NEW c, NEW ok \in BOOLEAN,
           NEW n, n = Shown([ush_vim_run_command(e, c, ok) EXCEPT !.mode = "normal"])
    PROVE  /\ VimGood(n) /\ InView(n) /\ n.lines = e.lines
           /\ ~Saves(e, c) => n.modified = e.modified /\ n.path = e.path
           /\ Saves(e, c) /\ ~ok => n.modified = e.modified /\ n.path = e.path
<1> DEFINE k == ush_vim_run_command(e, c, ok)
           same(x) == /\ x \in VimState /\ x.lines = e.lines /\ x.line = e.line /\ x.col = e.col /\ x.top = e.top
                      /\ ~(Saves(e, c) /\ ok) => x.modified = e.modified /\ x.path = e.path
<1>0. e \in VimState
  BY DEF VimGood
<1>1. ASSUME NEW q \in BOOLEAN PROVE same([e EXCEPT !.quit = q])
  BY <1>0 DEF VimState
<1>2. same(e)
  BY <1>0
<1>3. ASSUME Saves(e, c) PROVE same(ush_vim_save_file(e, ok))
  BY <1>0, <1>3 DEF ush_vim_save_file, VimState
<1>4. same(k)
  <2>1. CASE c = "q"
    <3>1. PICK q \in BOOLEAN : q = ~e.modified
      BY <1>0 DEF VimState
    <3>2. k = [e EXCEPT !.quit = q]
      BY <2>1, <3>1 DEF ush_vim_run_command
    <3> HIDE DEF same, k
    <3> QED BY <1>1, <3>2
  <2>2. CASE c = "q!"
    <3>1. k = [e EXCEPT !.quit = TRUE]
      BY <2>2 DEF ush_vim_run_command
    <3> HIDE DEF same, k
    <3> QED BY <1>1, <3>1
  <2>3. CASE c = "wq" /\ e.path # NoName
    <3>1. PICK m : m = ush_vim_save_file(e, ok)
      OBVIOUS
    <3>2. same(m)
      BY <1>3, <2>3, <3>1 DEF Saves
    <3>3. k = [m EXCEPT !.quit = ok]
      BY <2>3, <3>1 DEF ush_vim_run_command
    <3>4. m \in VimState
      BY <3>2
    <3>5. /\ k \in VimState /\ k.lines = m.lines /\ k.line = m.line /\ k.col = m.col /\ k.top = m.top
          /\ k.modified = m.modified /\ k.path = m.path
      <4> HIDE DEF k
      <4> QED BY <3>3, <3>4 DEF VimState
    <3> HIDE DEF k
    <3> QED BY <3>2, <3>5
  <2>4. CASE (c = "w" /\ e.path # NoName) \/ c = "w f"
    <3>1. k = ush_vim_save_file(e, ok)
      BY <2>4 DEF ush_vim_run_command
    <3>2. Saves(e, c)
      BY <2>4 DEF Saves
    <3> HIDE DEF same, k
    <3> QED BY <1>3, <3>1, <3>2
  <2>5. CASE c \notin {"q", "q!", "w f"} /\ ~(c \in {"w", "wq"} /\ e.path # NoName)
    <3>1. k = e
      BY <2>5 DEF ush_vim_run_command
    <3> HIDE DEF same, k
    <3> QED BY <1>2, <3>1
  <2> QED BY <2>1, <2>2, <2>3, <2>4, <2>5
<1>5. PICK m : m = [k EXCEPT !.mode = "normal"]
  OBVIOUS
<1>6. same(m)
  <2>1. k \in VimState
    BY <1>4
  <2>2. /\ m \in VimState /\ m.lines = k.lines /\ m.line = k.line /\ m.col = k.col /\ m.top = k.top
        /\ m.modified = k.modified /\ m.path = k.path
    <3> HIDE DEF k
    <3> QED BY <1>5, <2>1 DEF VimState
  <2> HIDE DEF k
  <2> QED BY <1>4, <2>2
<1>7. VimGood(m) /\ InView(m)
  BY <1>6 DEF VimGood, InView
<1>8. n = m
  BY <1>5, <1>7, ShownScrolls
<1> QED BY <1>6, <1>7, <1>8

(***************************************************************************)
(* The file.                                                               *)
(***************************************************************************)

\* f holds what the lines past the limit have come to, up to line n.
RunsOn(f, s, kept, n) == f = [m \in 0..n |-> IF m < kept THEN <<>> ELSE f[m - 1] \o s[m]]

LEMMA RunningOnExists ==
    ASSUME NEW s, NEW kept \in Nat \ {0}, NEW n \in Nat
    PROVE  \E f : RunsOn(f, s, kept, n)
<1> DEFINE bad == {m \in Nat : ~\E f : RunsOn(f, s, kept, m)}
<1> SUFFICES ASSUME bad # {} PROVE FALSE
  OBVIOUS
<1>1. PICK m \in bad : \A y \in bad : m <= y
  BY LeastIndex
<1>2. m # 0
  <2> SUFFICES ASSUME m = 0 PROVE FALSE
    OBVIOUS
  <2> DEFINE f == [k \in 0..0 |-> <<>>]
  <2>1. RunsOn(f, s, kept, 0)
    BY DEF RunsOn
  <2> QED BY <1>1, <2>1
<1>3. m - 1 \in Nat /\ m - 1 \notin bad
  BY <1>1, <1>2
<1>4. PICK g : RunsOn(g, s, kept, m - 1)
  BY <1>3
<1> DEFINE f == [k \in 0..m |-> IF k < kept THEN <<>> ELSE IF k = m THEN g[m - 1] \o s[m] ELSE g[k]]
<1>5. ASSUME NEW k \in 0..m PROVE f[k] = IF k < kept THEN <<>> ELSE f[k - 1] \o s[k]
  <2>1. CASE k < kept
    BY <2>1
  <2>2. CASE ~(k < kept)
    <3>0. k # 0 /\ k - 1 \in 0..(m - 1) /\ k - 1 \in 0..m /\ k - 1 # m
      BY <1>3, <2>2
    <3>1. f[k - 1] = g[k - 1]
      <4>1. CASE k - 1 < kept
        <5>1. g[k - 1] = <<>>
          BY <1>4, <3>0, <4>1 DEF RunsOn
        <5> QED BY <3>0, <4>1, <5>1
      <4>2. CASE ~(k - 1 < kept)
        BY <3>0, <4>2
      <4> QED BY <4>1, <4>2
    <3>2. CASE k = m
      <4>1. f[k] = g[m - 1] \o s[m]
        BY <2>2, <3>2
      <4> QED BY <2>2, <3>1, <3>2, <4>1
    <3>3. CASE k # m
      <4>1. f[k] = g[k] /\ k \in 0..(m - 1)
        BY <1>3, <2>2, <3>3
      <4>2. g[k] = g[k - 1] \o s[k]
        BY <1>4, <2>2, <4>1 DEF RunsOn
      <4> QED BY <2>2, <3>1, <4>1, <4>2
    <3> QED BY <3>2, <3>3
  <2> QED BY <2>1, <2>2
<1>6. RunsOn(f, s, kept, m)
  <2> DEFINE g2 == [k \in 0..m |-> IF k < kept THEN <<>> ELSE f[k - 1] \o s[k]]
  <2>1. f = g2
    BY <1>5
  <2> HIDE DEF f
  <2> QED BY <2>1 DEF RunsOn
<1> QED BY <1>1, <1>6

LEMMA RunTogetherTyped ==
    ASSUME NEW S, NEW s \in Seq(Seq(S)), NEW kept \in Nat \ {0}
    PROVE  RunTogether(s, kept) \in Seq(S)
<1> DEFINE F == CHOOSE f : f = [n \in 0..Len(s) |-> IF n < kept THEN <<>> ELSE f[n - 1] \o s[n]]
<1>0. Len(s) \in Nat /\ \A i \in 1..Len(s) : s[i] \in Seq(S)
  BY LenProperties, ElementOfSeq
<1>2. RunTogether(s, kept) = F[Len(s)]
  BY DEF RunTogether
<1>3. PICK g : RunsOn(g, s, kept, Len(s))
  BY <1>0, RunningOnExists
<1>4. F = [n \in 0..Len(s) |-> IF n < kept THEN <<>> ELSE F[n - 1] \o s[n]]
  BY <1>3 DEF RunsOn
<1> HIDE DEF F
<1>5. ASSUME NEW n \in 0..Len(s) PROVE F[n] = IF n < kept THEN <<>> ELSE F[n - 1] \o s[n]
  <2> DEFINE body(k) == IF k < kept THEN <<>> ELSE F[k - 1] \o s[k]
  <2>1. F = [k \in 0..Len(s) |-> body(k)]
    BY <1>4, Zenon
  <2>2. F[n] = body(n)
    <3> HIDE DEF body
    <3> QED BY <2>1
  <2> QED BY <2>2
<1> DEFINE bad == {n \in 0..Len(s) : F[n] \notin Seq(S)}
<1>6. bad = {}
  <2> SUFFICES ASSUME bad # {} PROVE FALSE
    OBVIOUS
  <2>1. PICK m \in bad : \A y \in bad : m <= y
    <3>1. bad \subseteq Nat
      BY <1>0
    <3> HIDE DEF bad
    <3> QED BY <3>1, LeastIndex
  <2>2. CASE m < kept
    <3>1. m \in 0..Len(s) /\ F[m] \notin Seq(S)
      BY <2>1
    <3>2. F[m] = <<>>
      BY <1>5, <2>2, <3>1
    <3>3. <<>> \in Seq(S)
      OBVIOUS
    <3> QED BY <3>1, <3>2, <3>3
  <2>3. CASE ~(m < kept)
    <3>1. m \in 1..Len(s) /\ m - 1 \in 0..Len(s) /\ m - 1 < m
      BY <1>0, <2>1, <2>3
    <3>2. m - 1 \notin bad
      BY <1>0, <2>1, <3>1
    <3>3. F[m - 1] \in Seq(S) /\ s[m] \in Seq(S)
      BY <1>0, <3>1, <3>2
    <3>4. F[m] = F[m - 1] \o s[m]
      BY <1>5, <2>1, <2>3
    <3>5. F[m] \in Seq(S)
      BY <3>3, <3>4, ConcatProperties
    <3> QED BY <2>1, <3>5
  <2> QED BY <2>2, <2>3
<1> QED BY <1>0, <1>2, <1>6

\* A line of the file: its characters, and carriage returns.
FileLine == Seq(Chars \cup {"\r"})

LEMMA FitsTyped ==
    ASSUME NEW text \in FileLine
    PROVE  Fits(text) \in Seq(Chars)
<1> DEFINE pieces == [i \in DOMAIN text |-> PlainChar(text[i])]
           plain == RunTogether(pieces, 1)
<1>1. pieces \in Seq(Seq(Chars))
  <2>1. Len(text) \in Nat /\ DOMAIN text = 1..Len(text) /\ \A i \in 1..Len(text) : text[i] \in Chars \cup {"\r"}
    BY LenProperties, ElementOfSeq DEF FileLine
  <2>2. ASSUME NEW c \in Chars \cup {"\r"} PROVE PlainChar(c) \in Seq(Chars)
    BY DEF PlainChar
  <2>3. \A i \in 1..Len(text) : PlainChar(text[i]) \in Seq(Chars)
    BY <2>1, <2>2
  <2> QED BY <2>1, <2>3, IsASeq
<1> HIDE DEF pieces
<1>2. plain \in Seq(Chars)
  BY <1>1, RunTogetherTyped
<1>3. Fits(text) = SubSeq(plain, 1, Least(Len(plain), USH_VIM_MAX_LINE_LEN - 1))
  BY DEF Fits, pieces
<1> HIDE DEF plain
<1>0. Len(plain) \in Nat /\ USH_VIM_MAX_LINE_LEN - 1 \in Nat
  BY <1>2, VimAssumption, LenProperties
<1>4. PICK j \in 0..Len(plain) : j = Least(Len(plain), USH_VIM_MAX_LINE_LEN - 1)
  BY <1>0 DEF Least
<1>5. SubSeq(plain, 1, j) \in Seq(Chars)
  BY <1>0, <1>2, PartOf
<1> QED BY <1>3, <1>4, <1>5

\* A file that is not empty loads as a buffer.
LEMMA LoadTyped ==
    ASSUME NEW file \in Seq(FileLine), Len(file) > 0
    PROVE  ush_vim_load_file(file) \in Seq(Seq(Chars)) /\ Len(ush_vim_load_file(file)) > 0
<1> DEFINE kept == Least(Len(file), USH_VIM_MAX_LINES)
           rest == RunTogether(file, kept)
<1>0. Len(file) \in Nat /\ \A i \in 1..Len(file) : file[i] \in FileLine
  BY LenProperties, ElementOfSeq
<1>1. kept \in Nat \ {0} /\ kept <= Len(file)
  BY <1>0, VimAssumption DEF Least
<1>2. ush_vim_load_file(file) = [i \in 1..kept |-> Fits(IF i < kept THEN file[i] ELSE rest)]
  BY DEF ush_vim_load_file
<1> HIDE DEF kept
<1>6. rest \in FileLine
  BY <1>1, RunTogetherTyped DEF FileLine
<1> HIDE DEF rest
<1>7. ASSUME NEW i \in 1..kept PROVE Fits(IF i < kept THEN file[i] ELSE rest) \in Seq(Chars)
  <2>1. i \in 1..Len(file)
    BY <1>0, <1>1
  <2>2. PICK text \in FileLine : text = IF i < kept THEN file[i] ELSE rest
    BY <1>0, <1>6, <2>1
  <2> QED BY <2>2, FitsTyped
<1> DEFINE lines == [i \in 1..kept |-> Fits(IF i < kept THEN file[i] ELSE rest)]
<1>8. lines \in [1..kept -> Seq(Chars)]
  BY <1>7
<1> HIDE DEF lines
<1>9. lines \in Seq(Seq(Chars)) /\ Len(lines) = kept
  <2>1. lines \in Seq(Seq(Chars))
    BY <1>1, <1>8
  <2>2. DOMAIN lines = 1..kept /\ DOMAIN lines = 1..Len(lines) /\ Len(lines) \in Nat
    BY <1>8, <2>1, LenProperties
  <2> QED BY <1>1, <2>1, <2>2
<1> QED BY <1>1, <1>2, <1>9 DEF lines

(***************************************************************************)
(* The invariant.                                                          *)
(***************************************************************************)

VimInv == VimGood(ed) /\ InView(ed) /\ UnmodifiedIsSaved

LEMMA VimStarts == VimInit => VimInv
<1> SUFFICES ASSUME VimInit PROVE VimInv
  OBVIOUS
<1>1. PICK file \in VimFiles, named \in BOOLEAN :
        /\ vimDisk = file
        /\ ed = Started(IF named /\ file # NoDisk THEN ush_vim_load_file(file) ELSE <<<<>>>>,
                        IF named THEN "f" ELSE NoName)
        /\ vimPart = (named /\ file # NoDisk /\ ed.lines # file)
  BY DEF VimInit
<1>2. file # NoDisk => file \in Seq(FileLine) /\ Len(file) > 0
  <2>1. "j" \in Chars \cup {"\r"} /\ "\r" \in Chars \cup {"\r"}
    BY DEF Chars
  <2>2. <<"j">> \in FileLine /\ <<"j", "j", "j", "j">> \in FileLine /\ <<"j", "\r">> \in FileLine
    BY <2>1 DEF FileLine
  <2>3. PICK a \in FileLine, b \in FileLine, c \in FileLine :
           a = <<"j">> /\ b = <<"j", "j", "j", "j">> /\ c = <<"j", "\r">>
    BY <2>2
  <2>4. file # NoDisk => file = <<a>> \/ file = <<b>> \/ file = <<c, a>> \/ file = <<a, a, a, a>>
    BY <1>1, <2>3 DEF VimFiles
  <2>5. /\ <<a>> \in Seq(FileLine) /\ <<b>> \in Seq(FileLine)
        /\ <<c, a>> \in Seq(FileLine) /\ <<a, a, a, a>> \in Seq(FileLine)
    OBVIOUS
  <2>6. Len(<<a>>) > 0 /\ Len(<<b>>) > 0 /\ Len(<<c, a>>) > 0 /\ Len(<<a, a, a, a>>) > 0
    OBVIOUS
  <2> QED BY <2>4, <2>5, <2>6
<1>3. PICK lines : lines = IF named /\ file # NoDisk THEN ush_vim_load_file(file) ELSE <<<<>>>>
  OBVIOUS
<1>4. lines \in Seq(Seq(Chars)) /\ Len(lines) > 0
  <2>1. CASE named /\ file # NoDisk
    BY <1>2, <1>3, <2>1, LoadTyped
  <2>2. CASE ~(named /\ file # NoDisk)
    <3>1. PICK a \in Seq(Chars) : a = <<>>
      <4>1. <<>> \in Seq(Chars)
        OBVIOUS
      <4> QED BY <4>1
    <3>2. lines = <<a>>
      BY <1>3, <2>2, <3>1
    <3> QED BY <3>2
  <2> QED BY <2>1, <2>2
<1>5. PICK path \in {NoName, "f"} : path = IF named THEN "f" ELSE NoName
  OBVIOUS
<1>6. ed = [lines |-> lines, line |-> 1, col |-> 0, top |-> 1, mode |-> "normal", modified |-> FALSE,
            quit |-> FALSE, pending |-> "none", path |-> path]
  BY <1>1, <1>3, <1>5 DEF Started
<1>7. ed \in VimState
  BY <1>4, <1>6 DEF VimState, Pending
<1>8. VimGood(ed) /\ InView(ed)
  <2>1. ed.lines = lines /\ ed.line = 1 /\ ed.col = 0 /\ ed.top = 1
    BY <1>6
  <2>2. 1 \in 1..Len(lines) /\ 0 \in 0..Len(lines[1])
    <3>1. Len(lines) \in Nat
      BY <1>4, LenProperties
    <3>2. 1 \in 1..Len(lines)
      BY <1>4, <3>1
    <3>3. lines[1] \in Seq(Chars)
      BY <1>4, <3>2, ElementOfSeq
    <3>4. Len(lines[1]) \in Nat
      BY <3>3, LenProperties
    <3> QED BY <3>2, <3>4
  <2>3. 1 < 1 + USH_VIM_VIEW_ROWS
    BY VimAssumption
  <2> QED BY <1>7, <2>1, <2>2, <2>3 DEF VimGood, InView
<1>9. UnmodifiedIsSaved
  <2> SUFFICES ASSUME ed.path # NoName, ~vimPart
               PROVE  vimDisk = ed.lines \/ (vimDisk = NoDisk /\ ed.lines = <<<<>>>>)
    BY DEF UnmodifiedIsSaved
  <2>1. named /\ ed.lines = lines
    BY <1>5, <1>6
  <2> QED BY <1>1, <1>3, <2>1
<1> QED BY <1>8, <1>9 DEF VimInv

LEMMA VimKeys ==
    ASSUME VimInv, NEW key \in InsertKeys \cup NormalKeys, Key(key)
    PROVE  /\ VimInv'
           /\ vimScreen = ush_vim_render(ed) /\ ~Unseen => vimScreen' = ush_vim_render(ed')
<1>0. VimGood(ed)
  BY DEF VimInv
<1>1. PICK n : Edits(ed, n) /\ (~UnseenIn(ed) => Seen(ed, n, key)) /\ ed' = Shown(n)
  <2>1. CASE ed.mode = "insert" /\ key \in InsertKeys /\ ed' = Shown(ush_vim_handle_insert_mode(ed, key))
    BY <1>0, <2>1, InsertModeEdits
  <2>2. CASE ed.mode = "normal" /\ key \in NormalKeys /\ ed' = Shown(ush_vim_handle_normal_mode(ed, key))
    BY <1>0, <2>2, NormalModeEdits
  <2> QED BY <2>1, <2>2 DEF Key
<1>2. vimScreen' = Redrawn(vimScreen, ed, ed', key) /\ vimDisk' = vimDisk /\ vimPart' = vimPart
  BY DEF Key
<1>3. Scrolls(n, ed')
  BY <1>1, ShownScrolls DEF Edits
<1>4. VimGood(ed') /\ InView(ed') /\ ed'.path = ed.path
      /\ ((ed'.lines = ed.lines /\ ed'.modified = ed.modified) \/ ed'.modified)
  BY <1>1, <1>3 DEF Edits, Scrolls
<1>5. UnmodifiedIsSaved'
  BY <1>2, <1>4 DEF VimInv, UnmodifiedIsSaved
<1>6. VimInv'
  BY <1>4, <1>5 DEF VimInv, VimGood, InView, VimState
<1>7. ASSUME vimScreen = ush_vim_render(ed), ~Unseen PROVE vimScreen' = ush_vim_render(ed')
  <2>1. Seen(ed, n, key)
    BY <1>1, <1>7 DEF Unseen, UnseenIn
  <2>2. Seen(ed, ed', key)
    BY <1>3, <2>1 DEF Seen, Scrolls
  <2>3. PICK k : k = ed'
    OBVIOUS
  <2>4. Redrawn(vimScreen, ed, k, key) = ush_vim_render(k)
    BY <1>0, <1>4, <1>7, <2>2, <2>3, RedrawnShows
  <2> QED BY <1>2, <2>3, <2>4
<1> QED BY <1>6, <1>7

LEMMA VimLeaves ==
    ASSUME VimInv, CommandLeft
    PROVE  VimInv' /\ (vimScreen = ush_vim_render(ed) => vimScreen' = ush_vim_render(ed'))
<1>1. PICK n : n = [ed EXCEPT !.mode = "normal"]
  OBVIOUS
<1>2. ed' = n /\ vimScreen' = Redrawn(vimScreen, ed, n, "esc") /\ vimDisk' = vimDisk /\ vimPart' = vimPart
  BY <1>1 DEF CommandLeft
<1>3. VimGood(ed)
  BY DEF VimInv
<1>4. Edits(ed, n) /\ n.lines = ed.lines /\ n.modified = ed.modified /\ n.line = ed.line
  BY <1>1, <1>3, NothingEdited, OnlyModeSet
<1>5. VimGood(n) /\ InView(n)
  BY <1>4 DEF VimInv, Edits, InView
<1>6. VimInv'
  <2>1. UnmodifiedIsSaved'
    BY <1>2, <1>4 DEF VimInv, UnmodifiedIsSaved, Edits
  <2> QED BY <1>2, <1>5, <2>1 DEF VimInv
<1>7. vimScreen = ush_vim_render(ed) => Redrawn(vimScreen, ed, n, "esc") = ush_vim_render(n)
  BY <1>3, <1>4, <1>5, SameIsSeen, RedrawnShows DEF Edits
<1> QED BY <1>2, <1>6, <1>7

LEMMA VimCommandRuns ==
    ASSUME VimInv, NEW c, CommandRun(c)
    PROVE  VimInv' /\ (vimScreen = ush_vim_render(ed) /\ ~ed'.quit => vimScreen' = ush_vim_render(ed'))
<1>1. PICK ok, n :
        /\ ok \in BOOLEAN
        /\ n = Shown([ush_vim_run_command(ed, c, ok) EXCEPT !.mode = "normal"]) /\ ed' = n
        /\ Saves(ed, c) /\ ok => vimDisk' = ed.lines
        /\ ~Saves(ed, c) => vimDisk' = vimDisk /\ vimPart' = vimPart
        /\ Saves(ed, c) => vimPart' = (~ok /\ (vimPart \/ ~ed.modified))
  <2>1. PICK ok \in IF Saves(ed, c) THEN BOOLEAN ELSE {TRUE}, n \in 0 .. Len(ed.lines) - 1 :
          /\ ed' = Shown([ush_vim_run_command(ed, c, ok) EXCEPT !.mode = "normal"])
          /\ vimDisk' = IF ~Saves(ed, c) THEN vimDisk
                        ELSE IF ok THEN ed.lines ELSE SubSeq(ed.lines, 1, n) \o <<<<>>>>
          /\ vimPart' = IF ~Saves(ed, c) THEN vimPart ELSE ~ok /\ (vimPart \/ ~ed.modified)
    BY Zenon DEF CommandRun
  <2>2. ok \in BOOLEAN
    OBVIOUS
  <2> DEFINE m == Shown([ush_vim_run_command(ed, c, ok) EXCEPT !.mode = "normal"])
  <2>3. /\ m = Shown([ush_vim_run_command(ed, c, ok) EXCEPT !.mode = "normal"]) /\ ed' = m
        /\ Saves(ed, c) /\ ok => vimDisk' = ed.lines
        /\ ~Saves(ed, c) => vimDisk' = vimDisk /\ vimPart' = vimPart
        /\ Saves(ed, c) => vimPart' = (~ok /\ (vimPart \/ ~ed.modified))
    BY <2>1
  <2> HIDE DEF m
  <2> QED BY <2>2, <2>3
<1>2. VimGood(ed) /\ InView(ed)
  BY DEF VimInv
<1>3. /\ VimGood(n) /\ InView(n) /\ n.lines = ed.lines
      /\ ~Saves(ed, c) => n.modified = ed.modified /\ n.path = ed.path
      /\ Saves(ed, c) /\ ~ok => n.modified = ed.modified /\ n.path = ed.path
  BY <1>1, <1>2, CommandRuns
<1>4. UnmodifiedIsSaved'
  <2>1. CASE ~Saves(ed, c)
    BY <1>1, <1>3, <2>1 DEF VimInv, UnmodifiedIsSaved
  <2>2. CASE Saves(ed, c) /\ ok
    BY <1>1, <1>3, <2>2 DEF UnmodifiedIsSaved
  <2>3. CASE Saves(ed, c) /\ ~ok
    <3> SUFFICES ASSUME ed'.path # NoName, ~ed'.modified, ~vimPart' PROVE FALSE
      BY DEF UnmodifiedIsSaved
    <3> QED BY <1>1, <1>3, <2>3
  <2> QED BY <2>1, <2>2, <2>3
<1>5. VimInv'
  BY <1>1, <1>3, <1>4 DEF VimInv
<1>6. ASSUME vimScreen = ush_vim_render(ed), ~ed'.quit PROVE vimScreen' = ush_vim_render(ed')
  <2>1. vimScreen' = Redrawn(vimScreen, ed, n, "enter")
    BY <1>1, <1>6 DEF CommandRun
  <2>2. Redrawn(vimScreen, ed, n, "enter") = ush_vim_render(n)
    BY DEF Redrawn
  <2> QED BY <1>1, <2>1, <2>2
<1> QED BY <1>5, <1>6

\* VimSound: while no [+] is shown the file holds the buffer, the cursor stays
\* in the buffer and on the screen, and the rows the main loop redraws are
\* enough.
THEOREM VimIsSound == VimSpec => [](UnmodifiedIsSaved /\ CursorShown) /\ ScreenShowsBuffer
<1> DEFINE shows == vimScreen = ush_vim_render(ed) /\ ~Unseen /\ ~ed'.quit => vimScreen' = ush_vim_render(ed')
<1>1. VimInv => UnmodifiedIsSaved /\ CursorShown
  <2> SUFFICES ASSUME VimInv PROVE UnmodifiedIsSaved /\ CursorShown
    OBVIOUS
  <2>1. VimGood(ed)
    BY DEF VimInv
  <2> QED BY <2>1, BufferLines DEF VimInv, CursorShown, InView
<1>2. VimInv /\ [VimNext]_vimVars => VimInv' /\ (shows \/ UNCHANGED vimVars)
  <2> SUFFICES ASSUME VimInv, [VimNext]_vimVars PROVE VimInv' /\ (shows \/ UNCHANGED vimVars)
    OBVIOUS
  <2>1. CASE UNCHANGED vimVars
    BY <2>1 DEF vimVars, VimInv, UnmodifiedIsSaved
  <2>2. ASSUME NEW key \in InsertKeys \cup NormalKeys, Key(key) PROVE VimInv' /\ shows
    BY <2>2, VimKeys
  <2>3. CASE CommandLeft
    BY <2>3, VimLeaves
  <2>4. ASSUME NEW c \in VimCommands, CommandRun(c) PROVE VimInv' /\ shows
    BY <2>4, VimCommandRuns
  <2> QED BY <2>1, <2>2, <2>3, <2>4 DEF VimNext
<1>3. VimSpec => []VimInv
  BY <1>2, VimStarts, PTL DEF VimSpec
<1>4. VimSpec => [][shows]_vimVars
  BY <1>2, <1>3, PTL DEF VimSpec
<1> QED BY <1>1, <1>3, <1>4, PTL DEF ScreenShowsBuffer

(***************************************************************************)
(* Storage.                                                                *)
(***************************************************************************)

\* A behaviour of the storage is one of each of its components, those that do
\* not run standing still.
THEOREM StorageRunsEach ==
  StorageSpec =>
    InstSpec /\ UsersSpec /\ FcSpec /\ MfSpec /\ SqSpec /\ VimSpec /\ PfSpec
<1>1. StorageInit =>
        InstInit /\ UsersInit /\ FcInit /\ MfInit /\ SqInit /\ VimInit /\ PfInit
  BY DEF StorageInit
<1>2. [StorageNext]_storageVars =>
        /\ [InstNext]_instVars /\ [UsersNext]_usersVars /\ [FcNext]_fcVars /\ [MfNext]_mfVars
        /\ [SqNext]_sqVars /\ [VimNext]_vimVars /\ [PfNext]_pfVars
  BY DEF StorageNext, storageVars
<1> QED BY <1>1, <1>2, PTL
        DEF StorageSpec, InstSpec, UsersSpec, FcSpec, MfSpec, SqSpec, VimSpec, PfSpec

\* Only what names the account database touches it, and an installation that
\* reports success has brought what it promised (install2disk_main.c).
THEOREM InstallerKeepsUsers == InstSpec => InstallerSound
BY InstallerIsSound DEF InstallerSound

\* mv drops the old path only when the new one holds the content, and a
\* successful unzip leaves what the archive holds, but for the entries that would
\* land outside (mv_main.c, unzip_main.c).
THEOREM FileCommandsKeepData == FcSpec => FileCommandsSound
BY FilesAreSound DEF FileCommandsSound

\* A close that reports success means the data is on the disk, in the layers
\* other than tcc's, whose flush takes fs_write's 0 for success
\* (doom_compat.c, bdt_cleonos_compat.c, minizip_cleonos_io.c).
THEOREM LayersStore == MfSpec /\ "tcc" \notin Layers => LayersStored
BY CloseStores DEF LayersStored

\* An unmarked buffer is the file, the cursor is in the buffer and on the
\* screen, and the rows a key redraws are all it changed (vim_main.c).
THEOREM VimKeepsText == VimSpec => VimSound
BY VimIsSound DEF VimSound

\* What the run of the storage checks on its instance but for the personal
\* files, for every instance.
THEOREM StorageIsSound ==
  StorageSpec =>
    /\ AccountsSound /\ []SqliteSound
    /\ InstallerSound /\ FileCommandsSound /\ VimSound
    /\ "tcc" \notin Layers => LayersStored
<1>1. UsersSpec => AccountsSound
  BY RootIsKept
<1>2. SqSpec => []SqliteSound
  BY SqliteIsSound
<1>3. InstSpec => InstallerSound
  BY InstallerKeepsUsers
<1>4. FcSpec => FileCommandsSound
  BY FileCommandsKeepData
<1>5. VimSpec => VimSound
  BY VimKeepsText
<1>6. MfSpec => ("tcc" \notin Layers => LayersStored)
  BY LayersStore
<1> QED BY <1>1, <1>2, <1>3, <1>4, <1>5, <1>6, StorageRunsEach, PTL

=============================================================================
