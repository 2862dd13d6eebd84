------------------------------ MODULE Platform -------------------------------
(***************************************************************************)
(* The process of main.c.  In platform mode: install what is staged, load  *)
(* the image, run it, and again when the application asks for a restart;   *)
(* in standalone mode load and run a file once.                            *)
(* The application is open: while it runs it calls any native of the file  *)
(* store, but it leaves the installed files alone and stages only files it *)
(* has closed.  The process may be killed between any two steps, and is    *)
(* then started again on what is left of the files.                        *)
(***************************************************************************)
EXTENDS FileStore

CONSTANTS
  scode,     \* "kits.scode"
  app,       \* "app.sab"
  StageOf,   \* the names of their staged successors
  ImageSize, \* bytes of a whole file, as its header says
  VM_DEBUG_MODE,
  MaxRuns    \* bound: restarts within one process

Staged == { scode, app }

\* The installed files lie in the working directory.
ASSUME PlatformAssumption ==
  /\ Staged \subseteq Names
  /\ StageOf \in [Staged -> Names \ Staged]
  /\ \A f \in Staged : FoldersOf[f] = {}
  /\ StageOf[scode] # StageOf[app]
  /\ ImageSize \in 1 .. MaxSize
  /\ VM_DEBUG_MODE \in BOOLEAN
  /\ MaxRuns \in Nat

VARIABLES
  pc,      \* where the process is; "off" when there is none
  plat,    \* whether the process is started with --plat, now and later
  file,    \* the file that checkStaged looks after
  size,    \* vm->codeSize: bytes of the image in memory
  runs,    \* how often this process has run vmInit
  failed   \* history: the rename of a staged file has failed

procVars == <<pc, plat, file, size, runs, failed>>

vars == <<fileVars, procVars>>

ERR_NULL_POINTER == 100
ERR_YIELD     == 253
ERR_RESTART   == 254
ERR_HIBERNATE == 255

-----------------------------------------------------------------------------
\* checkStaged

Goes(to) == pc' = to /\ UNCHANGED <<plat, file, size, runs, failed>>

\* runInPlatformMode, runInStandaloneMode: the latter stages nothing.
Start ==
  /\ pc = "off"
  /\ pc' = IF plat THEN "check" ELSE "load"
  /\ file' = scode
  /\ runs' = 0
  /\ size' = 0
  /\ UNCHANGED <<fileVars, plat, failed>>

CheckedOnce ==  \* mutant: the application's file is not looked after
  /\ pc' = "load"
  /\ UNCHANGED <<plat, file, size, runs>>

\* The first file is looked after, then the second, then the image is loaded.
Checked ==
  /\ IF file = scode THEN file' = app /\ pc' = "check" ELSE pc' = "load" /\ UNCHANGED file
  /\ UNCHANGED <<plat, size, runs>>

checkStagedLate ==  \* mutant: the old file is removed whether there is a stage or not
  /\ pc = "check"
  /\ Goes("remove")
  /\ UNCHANGED fileVars

checkStaged ==
  /\ pc = "check"
  /\ IF dir[StageOf[file]] = none
     THEN Checked /\ UNCHANGED failed
     ELSE Goes("remove")
  /\ UNCHANGED fileVars

\* remove(filename): its result is ignored.
checkStaged_remove ==
  /\ pc = "remove"
  /\ dir' \in { dir, Removed(dir, file) }
  /\ Goes("rename")
  /\ UNCHANGED <<folders, data, fp, pend, told, doubted, lost>>

\* rename(stageName, filename): its result is ignored too.
checkStaged_rename ==
  /\ pc = "rename"
  /\ \/ dir' = Moved(dir, StageOf[file], file) /\ UNCHANGED failed
     \/ dir' = dir /\ failed' = TRUE
  /\ Checked
  /\ UNCHANGED <<folders, data, fp, pend, told, doubted, lost>>

-----------------------------------------------------------------------------
\* Load and run

\* The image in memory is what is in the file.
loadFile ==
  /\ dir[scode] # none
  /\ size' = Len(data[dir[scode]])

\* The image is loaded, or the process ends with an error.
commonVmSetup ==
  /\ pc = "load"
  /\ \/ /\ loadFile
        /\ pc' = "init"
        /\ UNCHANGED <<plat, file, runs, failed>>
     \/ Goes("exit")
  /\ UNCHANGED fileVars

\* The size in the image's header is compared with the file's.
vmInit == size = ImageSize

\* vmRun up to main.  Under the debugger the port is still bound by the first
\* run.
vmRun ==
  /\ pc = "init"
  /\ IF vmInit /\ ~(VM_DEBUG_MODE /\ runs > 0)
     THEN pc' = "run" /\ runs' = runs + 1 /\ UNCHANGED <<plat, file, size, failed>>
     ELSE Goes("exit")
  /\ UNCHANGED fileVars

\* After ERR_HIBERNATE and ERR_YIELD resume is called and the application runs
\* on.  Whatever else is returned ends the process, the recoverable errors
\* too; platform mode knows ERR_RESTART.
runInStandaloneMode(result) ==
  IF result \in { ERR_YIELD, ERR_HIBERNATE } THEN Goes("run") ELSE Goes("exit")

runInPlatformMode(result) ==
  CASE result \in { ERR_YIELD, ERR_HIBERNATE } -> Goes("run")
    [] result = ERR_RESTART ->
         /\ runs < MaxRuns
         /\ pc' = "check"
         /\ file' = scode
         /\ UNCHANGED <<plat, size, runs, failed>>
    [] OTHER -> Goes("exit")

\* main or resume returns.
mainReturns ==
  /\ pc = "run"
  /\ pend = <<>>
  /\ \E result \in { 0, ERR_NULL_POINTER, ERR_YIELD, ERR_RESTART, ERR_HIBERNATE } :
       IF plat THEN runInPlatformMode(result) ELSE runInStandaloneMode(result)
  /\ UNCHANGED fileVars

\* The debugger's Exit and Dispose call exit on their own thread.
vmExit ==
  /\ VM_DEBUG_MODE
  /\ pc \notin { "off", "exit" }
  /\ runs > 0
  /\ Goes("exit")
  /\ UNCHANGED fileVars

Exit ==
  /\ pc = "exit"
  /\ Exited
  /\ Goes("off")

Kill ==
  /\ pc # "off"
  /\ Killed
  /\ Goes("off")

-----------------------------------------------------------------------------
\* The application

\* The application writes no file the VM looks for, and gives the name of a
\* staged file only to a whole file: one it has closed and of which every
\* native said that it is there.
Own == { n \in Names \ Staged : \A f \in Staged : n # StageOf[f] }

MayStage(n) ==
  /\ dir[n] # none
  /\ Writers(dir[n]) = {}
  /\ dir[n] \notin doubted
  /\ Len(told[dir[n]]) = ImageSize

AppOpens ==
  /\ \E h \in Files :
       \/ \E n \in Names : doOpenRead(n, h)
       \/ \E n \in Own : doOpenWrite(n, h) \/ doOpenModify(n, h)
  /\ UNCHANGED procVars

AppUses ==
  /\ \E h \in Files :
       \/ \E len \in 1 .. 2 : doRead(h, len)
       \/ \E bs \in Blocks : doWrite(h, bs)
       \/ \E pos \in 0 .. MaxSize : doSeek(h, pos)
       \/ doFlush(h)
       \/ doClose(h)
  /\ UNCHANGED procVars

AppRenames ==
  /\ \E from \in Own, to \in Names \ Staged :
       /\ to \in Own \/ MayStage(from)
       /\ renameRemoves(from, to) \/ File_rename(from, to)
  /\ UNCHANGED procVars

Application ==
  /\ pc = "run"
  /\ IF pend # <<>>
     THEN renameMoves /\ UNCHANGED procVars
     ELSE AppOpens \/ AppUses \/ AppRenames

\* The C library may write a buffer out whenever a process is there.
Library ==
  /\ pc # "off"
  /\ \E h \in Files : StdioDrains(h)
  /\ UNCHANGED procVars

Init ==
  /\ dir \in [Names -> Inodes \union {none}]
  /\ \A n \in Names : dir[n] # none <=> n \in Staged
  /\ dir[scode] # dir[app]
  /\ folders = {}
  /\ data = [i \in Inodes |->
               IF i \in { dir[scode], dir[app] } THEN [k \in 1 .. ImageSize |-> 1] ELSE <<>>]
  /\ fp = [h \in Files |-> Closed]
  /\ pend = <<>>
  /\ told = data
  /\ doubted = {}
  /\ lost = {}
  /\ pc = "off"
  /\ file = scode
  /\ plat \in BOOLEAN
  /\ size = 0
  /\ runs = 0
  /\ failed = FALSE

Next ==
  \/ Start \/ checkStaged \/ checkStaged_remove \/ checkStaged_rename
  \/ commonVmSetup \/ vmRun \/ mainReturns \/ vmExit \/ Exit \/ Kill
  \/ Application \/ Library

Spec == Init /\ [][Next]_vars

-----------------------------------------------------------------------------
\* Properties

TypeOK ==
  /\ dir \in [Names -> Inodes \union {none}]
  /\ folders \subseteq UNION { FoldersOf[n] : n \in Names }
  /\ data \in [Inodes -> Seq(Bytes)]
  /\ fp \in [Files -> [ ino : Inodes \union {none}, mode : {"r", "w", "m"}, pos : Nat,
                        eof : BOOLEAN, buf : Seq(Bytes) ]]
  /\ \A h \in Files : Len(fp[h].buf) <= fp[h].pos
  /\ pend \in { <<>> } \union Names \X Names
  /\ told \in [Inodes -> Seq(Bytes)]
  /\ doubted \subseteq Inodes
  /\ lost \subseteq Inodes
  /\ pc \in { "off", "check", "remove", "rename", "load", "init", "run", "exit" }
  /\ plat \in BOOLEAN
  /\ file \in Staged
  /\ size \in Nat
  /\ runs \in Nat
  /\ failed \in BOOLEAN

\* The file the next start will run or hand to the application: the staged
\* one, or the installed one when none is staged.
NextFile(f) == IF dir[StageOf[f]] # none THEN dir[StageOf[f]] ELSE dir[f]

\* Wherever the process is killed (between remove and rename of a staged file,
\* between those of FileStore.rename, with bytes in buffers) and whatever of
\* its calls failed, the next start finds both files, and whole ones but for
\* bytes lost without a word, unless the rename of a staged file has failed: the
\* VM then runs on with a file missing, and to stage its successor removes the
\* only one left.
Recoverable ==
  ~failed => \A f \in Staged :
    NextFile(f) # none /\ (NextFile(f) \notin lost => Len(data[NextFile(f)]) = ImageSize)

\* Image and application are replaced together: at load nothing staged is left
\* over.
StagedIsRun ==
  pc = "load" /\ plat /\ ~failed => \A f \in Staged : dir[StageOf[f]] = none

\* What the natives said is in a file is there once nobody writes it any more,
\* although the C library keeps it in a buffer for a while and the disk may be
\* full by then: a write, a seek and a close that lose bytes say so.  doFlush
\* has no answer to say it with, and nobody hears what the library loses on its
\* own or at exit (lost).
ClosedMeansKept ==
  \A i \in Inodes \ Free :
    Writers(i) = {} /\ i \notin doubted \union lost => data[i] = told[i]
=============================================================================
