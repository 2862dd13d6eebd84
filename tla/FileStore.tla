------------------------------ MODULE FileStore ------------------------------
(***************************************************************************)
(* The natives of sys::FileStore and sys::File over the C library and a    *)
(* file system.  A name leads to an inode; an open FILE keeps its inode    *)
(* when the name goes to another one.  What is written stays in the        *)
(* buffer of the FILE until the library writes it out: at a flush, a seek  *)
(* or a close, at exit, or whenever it likes.  When the disk is full it    *)
(* may drop what it cannot write out.  A process that is killed loses its  *)
(* buffers; what names and inodes hold by then stays.                      *)
(*                                                                         *)
(* doSize and doTell change nothing and are left out.  A file is read      *)
(* through no buffer.                                                      *)
(***************************************************************************)
EXTENDS Integers, Sequences, FiniteSets

CONSTANTS
  Names,      \* paths
  FoldersOf,  \* the directories on a path
  Inodes,
  Files,      \* FILE objects of the C library
  Blocks,     \* what is handed to doWrite and doWriteBytes: sequences of numbers
  MaxSize,    \* bound: bytes in a file
  none        \* no inode

ASSUME FileAssumption ==
  /\ none \notin Inodes
  /\ Blocks \subseteq Seq(Nat)
  /\ MaxSize \in Nat

VARIABLES
  dir,      \* the inode of every name
  folders,  \* the directories that exist
  data,     \* the bytes of every inode
  fp,       \* the FILE objects
  pend,     \* <<from, to>> between remove and rename of FileStore.rename
  told,     \* history: what every file holds, as far as the natives said
  doubted,  \* history: inodes of which they did not say everything
  lost      \* history: inodes of which bytes were dropped, and no native said so

fileVars == <<dir, folders, data, fp, pend, told, doubted, lost>>

Bytes == 0 .. 255

Opened(i, mode) == [ino |-> i, mode |-> mode, pos |-> 0, eof |-> FALSE, buf |-> <<>>]

Closed == Opened(none, "r")

\* The FILE h, moved.
At(h, pos, eof, buf) ==
  [ino |-> fp[h].ino, mode |-> fp[h].mode, pos |-> pos, eof |-> eof, buf |-> buf]

Open == { h \in Files : fp[h].ino # none }

Writers(i) == { h \in Files : fp[h].ino = i /\ fp[h].mode # "r" }

\* An inode with neither a name nor a FILE is free.
Free == { i \in Inodes : (\A n \in Names : dir[n] # i) /\ (\A h \in Files : fp[h].ino # i) }

\* s with bs at offset at; a gap before it reads as zeros.
Overlay(s, at, bs) ==
  IF bs = <<>> THEN s
  ELSE [ k \in 1 .. (IF at + Len(bs) > Len(s) THEN at + Len(bs) ELSE Len(s)) |->
           IF k - at \in 1 .. Len(bs) THEN bs[k - at]
           ELSE IF k <= Len(s) THEN s[k] ELSE 0 ]

\* The data once the library has written out the first n bytes of h's buffer.
Part(h, n) ==
  [data EXCEPT ![fp[h].ino] =
     Overlay(@, fp[h].pos - Len(fp[h].buf), SubSeq(fp[h].buf, 1, n))]

Flushed(h) == Part(h, Len(fp[h].buf))

\* The disk takes a part of the buffer; the library drops the rest.
Drops(h) ==
  \E n \in 0 .. Len(fp[h].buf) - 1 :
    /\ data' = Part(h, n)
    /\ fp' = [fp EXCEPT ![h] = At(h, fp[h].pos - Len(fp[h].buf) + n, fp[h].eof, <<>>)]

\* The library writes a buffer out when it likes.  Nobody hears of it when it
\* cannot.
StdioDrains(h) ==
  /\ h \in Open
  /\ fp[h].buf # <<>>
  /\ \/ /\ data' = Flushed(h)
        /\ fp' = [fp EXCEPT ![h] = At(h, fp[h].pos, fp[h].eof, <<>>)]
        /\ UNCHANGED lost
     \/ Drops(h) /\ lost' = lost \union {fp[h].ino}
  /\ UNCHANGED <<dir, folders, pend, told, doubted>>

\* It has to be written out for a native, which answers that it was not.
Refused(h) ==
  /\ Drops(h)
  /\ doubted' = doubted \union {fp[h].ino}
  /\ UNCHANGED <<dir, folders, pend, told, lost>>

-----------------------------------------------------------------------------
\* doOpen

Reachable(n) == FoldersOf[n] \subseteq folders

\* fopen for writing of a name that has no inode yet.
Create(n, i) ==
  /\ i \in Free
  /\ dir' = [dir EXCEPT ![n] = i]
  /\ data' = [data EXCEPT ![i] = <<>>]
  /\ told' = [told EXCEPT ![i] = <<>>]
  /\ doubted' = doubted \ {i}
  /\ lost' = lost \ {i}

\* fopen of a name that has an inode, in mode wb.  When another FILE writes
\* the same inode, what it will hold is not known any more.
Truncate(i) ==
  /\ data' = [data EXCEPT ![i] = <<>>]
  /\ told' = [told EXCEPT ![i] = <<>>]
  /\ doubted' = IF Writers(i) = {} THEN doubted \ {i} ELSE doubted \union {i}
  /\ lost' = lost \ {i}
  /\ UNCHANGED dir

doOpenRead(n, h) ==
  /\ h \notin Open
  /\ dir[n] # none
  /\ fp' = [fp EXCEPT ![h] = Opened(dir[n], "r")]
  /\ UNCHANGED <<dir, folders, data, pend, told, doubted, lost>>

\* Mode w: the directories are made first; fopen may fail.
doOpenWrite(n, h) ==
  /\ h \notin Open
  /\ folders' = folders \union FoldersOf[n]
  /\ \/ /\ IF dir[n] = none
           THEN \E i \in Free : Create(n, i) /\ fp' = [fp EXCEPT ![h] = Opened(i, "w")]
           ELSE Truncate(dir[n]) /\ fp' = [fp EXCEPT ![h] = Opened(dir[n], "w")]
     \/ UNCHANGED <<dir, data, fp, told, doubted, lost>>
  /\ UNCHANGED pend

\* Mode m: the file is made if it is not there, and only if its directories
\* are; the second fopen opens it for reading and writing, or fails.
doOpenModify(n, h) ==
  /\ h \notin Open
  /\ Reachable(n)
  /\ IF dir[n] = none
     THEN \E i \in Free :
            /\ Create(n, i)
            /\ fp' \in { fp, [fp EXCEPT ![h] = Opened(i, "m")] }
     ELSE /\ fp' = [fp EXCEPT ![h] = Opened(dir[n], "m")]
          /\ doubted' = IF Writers(dir[n]) = {} THEN doubted ELSE doubted \union {dir[n]}
          /\ UNCHANGED <<dir, data, told, lost>>
  /\ UNCHANGED <<folders, pend>>

-----------------------------------------------------------------------------
\* Reading and writing

\* doRead and doReadBytes of up to len bytes.  A FILE that has seen the end
\* gives nothing more; one in mode w cannot be read.  What was written before
\* is written out first; when it cannot be (StdioDrains) the end is read.
doRead(h, len) ==
  /\ h \in Open
  /\ ~fp[h].eof
  /\ fp[h].mode # "w"
  /\ data' = Flushed(h)
  /\ LET left == Len(data'[fp[h].ino]) - fp[h].pos
         got  == IF left <= 0 THEN 0 ELSE IF len < left THEN len ELSE left
     IN  fp' = [fp EXCEPT ![h] = At(h, fp[h].pos + got, got < len, <<>>)]
  /\ UNCHANGED <<dir, folders, pend, told, doubted, lost>>

TakenAll(h, bs, n) == TRUE  \* mutant: the result of fputc is not looked at

\* What doWrite and doWriteBytes answer when fputc or fwrite took n of the
\* bytes bs: fputc gives back the byte it took, fwrite how many.
Taken(h, bs, n) == n = Len(bs) /\ \A k \in 1 .. n : bs[k] \in Bytes

\* A FILE in mode r takes nothing; another may take less than it was given,
\* when its buffer is full and so is the disk.  A value over 255 is written as
\* its lowest byte.
Puts(h, bs) ==
  /\ \E n \in (IF fp[h].mode = "r" THEN {0} ELSE 0 .. Len(bs)) :
       LET i     == fp[h].ino
           bytes == [k \in 1 .. n |-> bs[k] % 256]
       IN  /\ fp' = [fp EXCEPT ![h] = At(h, fp[h].pos + n, fp[h].eof, fp[h].buf \o bytes)]
           /\ IF Taken(h, bs, n)
              THEN told' = [told EXCEPT ![i] = Overlay(@, fp[h].pos, bs)] /\ UNCHANGED doubted
              ELSE doubted' = (IF n = 0 THEN doubted ELSE doubted \union {i}) /\ UNCHANGED told
  /\ UNCHANGED <<dir, folders, data, pend, lost>>

\* doWrite of a value, doWriteBytes of bytes.
doWrite(h, bs) ==
  /\ h \in Open
  /\ fp[h].pos + Len(bs) <= MaxSize
  /\ Puts(h, bs) \/ Refused(h)

doSeekUnflushed(h, pos) ==  \* mutant: the buffer moves along
  /\ h \in Open
  /\ fp' = [fp EXCEPT ![h] = At(h, pos, FALSE, fp[h].buf)]
  /\ UNCHANGED <<dir, folders, data, pend, told, doubted, lost>>

\* The buffer is written out before the FILE moves, which fails when it cannot
\* be.
Moves(h, pos) ==
  /\ data' = Flushed(h)
  /\ fp' = [fp EXCEPT ![h] = At(h, pos, FALSE, <<>>)]
  /\ UNCHANGED <<dir, folders, pend, told, doubted, lost>>

doSeek(h, pos) ==
  /\ h \in Open
  /\ Moves(h, pos) \/ Refused(h)

\* doFlush has no answer: the result of fflush is ignored.
doFlush(h) == StdioDrains(h)

\* fclose fails when the last bytes cannot be written: they are lost, and
\* doClose says so.
doClose(h) ==
  /\ h \in Open
  /\ fp' = [fp EXCEPT ![h] = Closed]
  /\ \/ data' = Flushed(h) /\ UNCHANGED doubted
     \/ /\ fp[h].mode # "r"
        /\ \E n \in 0 .. Len(fp[h].buf) : data' = Part(h, n)
        /\ doubted' = doubted \union {fp[h].ino}
  /\ UNCHANGED <<dir, folders, pend, told, lost>>

-----------------------------------------------------------------------------
\* Names

\* remove and rename of the C library.
Removed(d, n) == [d EXCEPT ![n] = none]

Moved(d, from, to) ==
  IF d[from] = none \/ ~Reachable(to) \/ d[from] = d[to] THEN d
  ELSE [d EXCEPT ![to] = d[from], ![from] = none]

\* FileStore.rename removes what has the new name, then renames.  When the
\* file cannot be removed nothing happens.
renameRemoves(from, to) ==
  /\ dir' = Removed(dir, to)
  /\ pend' = <<from, to>>
  /\ UNCHANGED <<folders, data, fp, told, doubted, lost>>

renameMoves ==
  /\ pend # <<>>
  /\ dir' \in { dir, Moved(dir, pend[1], pend[2]) }
  /\ pend' = <<>>
  /\ UNCHANGED <<folders, data, fp, told, doubted, lost>>

\* File.rename is one call.
File_rename(from, to) ==
  /\ dir' = Moved(dir, from, to)
  /\ UNCHANGED <<folders, data, fp, pend, told, doubted, lost>>

-----------------------------------------------------------------------------
\* The end of the process

\* exit writes every buffer out (StdioDrains) before the process is gone; what
\* cannot be written is lost without a word.
Exited ==
  /\ \A h \in Files : fp[h].buf = <<>>
  /\ fp' = [h \in Files |-> Closed]
  /\ pend' = <<>>
  /\ UNCHANGED <<dir, folders, data, told, doubted, lost>>

\* kill writes none out.
Killed ==
  /\ doubted' = doubted \union { i \in Inodes : \E h \in Files : fp[h].ino = i /\ fp[h].buf # <<>> }
  /\ fp' = [h \in Files |-> Closed]
  /\ pend' = <<>>
  /\ UNCHANGED <<dir, folders, data, told, lost>>
=============================================================================
