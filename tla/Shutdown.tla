------------------------------ MODULE Shutdown ------------------------------
(***************************************************************************)
(* The store when the server stops: what main does after its loop          *)
(* (src/src/server.c), printFiles and clean_cache of src/src/memory.c,     *)
(* together with the workers of Workers.tla.                               *)
(*                                                                         *)
(* After SIGHUP main gets here when wait_on_worker_number returns: the     *)
(* workers have served what came before their END_WORKERs and have left.   *)
(* After SIGINT or SIGQUIT it gets here at once.  Then no worker takes a   *)
(* job any more, but one that has a job goes on with it, in any            *)
(* interleaving with main, until main returns and the process ends.        *)
(***************************************************************************)
EXTENDS Workers

VARIABLES
  mode, \* serverMode
  main  \* the main thread: where it is, the node it looks at or has popped, and
        \* how many files printFiles has printed

system == <<vars, mode, main>>

MainAt(label, node, printed) == [pc |-> label, node |-> node, printed |-> printed]

SystemInit ==
  /\ Init
  /\ mode = "ON"
  /\ main = MainAt("select", NULL, 0)

-----------------------------------------------------------------------------
(* The workers.                                                            *)

\* worker_thread looks at serverMode before it takes a job, and only then.
WorkerStep(w) ==
  /\ frame[w].pc = "idle" => mode = "ON"
  /\ Step(w)
  /\ UNCHANGED <<mode, main>>

-----------------------------------------------------------------------------
(* The main thread.                                                        *)

Stopping == server = "running" /\ main.pc # "select"

Stop(how) ==
  /\ server = "running"
  /\ main.pc = "select"
  /\ mode' = how
  /\ main' = MainAt("print_head", NULL, 0)
  /\ UNCHANGED vars

StopGracefully == Stop("GRACEFUL") /\ \A w \in Workers : frame[w] = Idle

StopAtOnce == Stop("OFF")

MainIs(label) == Stopping /\ main.pc = label

MainGoes(label, node, printed) ==
  /\ main' = MainAt(label, node, printed)
  /\ UNCHANGED <<frame, server, mode>>

\* printFiles: the head, then one node after the other, as many as there are
\* files each time it looks.  Names and links are read without memoryLock.
PrintHead ==
  /\ MainIs("print_head")
  /\ \E h \in IF memory = <<>> THEN {NULL} ELSE {Head(memory)} : MainGoes("print_test", h, 0)
  /\ UNCHANGED storeVars

PrintTest ==
  /\ MainIs("print_test")
  /\ MetadataFree
  /\ IF main.printed < nCurrentFile
     THEN MainGoes("print_next", main.node, main.printed)
     ELSE MainGoes("clean_test", NULL, 0)
  /\ UNCHANGED storeVars

PrintNext ==
  /\ MainIs("print_next")
  /\ ~Dangling(main.node)
  /\ \E f \in NextOf(main.node) : MainGoes("print_test", f, main.printed + 1)
  /\ UNCHANGED storeVars

PrintFollowsBadPointer ==
  /\ MainIs("print_next")
  /\ Dangling(main.node)
  /\ End("undefined")
  /\ UNCHANGED <<mode, main>>

\* Mutant of FilesLeft: clean_cache stops one file early.
MoreThanOneLeft == nCurrentFile > 1

FilesLeft == nCurrentFile # 0

\* clean_cache: the count decides whether there is a file to pop.
CleanTest ==
  /\ MainIs("clean_test")
  /\ MetadataFree /\ FilesLeft
  /\ MainGoes("clean_pop", NULL, 0)
  /\ UNCHANGED storeVars

\* main returns, and the process ends with every worker in it.
Return ==
  /\ MainIs("clean_test")
  /\ MetadataFree /\ ~FilesLeft
  /\ main' = MainAt("returned", NULL, 0)
  /\ End("exited")
  /\ UNCHANGED mode

\* Without a head pop_from_head returns null, which free_file takes.
CleanPop ==
  /\ MainIs("clean_pop")
  /\ MetadataFree
  /\ IF memory = <<>>
     THEN MainGoes("clean_free", NULL, 0) /\ UNCHANGED <<lists, counters>>
     ELSE MainGoes("clean_free", Head(memory), 0) /\ PopHead
  /\ UNCHANGED <<heap, peaks, metadataLock, policy>>

CleanFree ==
  /\ MainIs("clean_free")
  /\ IF main.node = NULL THEN UNCHANGED heap ELSE CanFree(main.node) /\ Free(main.node)
  /\ MainGoes("clean_test", NULL, 0)
  /\ UNCHANGED <<lists, counters, peaks, metadataLock, policy>>

MainStep ==
  \/ PrintHead \/ PrintTest \/ PrintNext \/ PrintFollowsBadPointer
  \/ CleanTest \/ Return \/ CleanPop \/ CleanFree

SystemEnded == server # "running" /\ UNCHANGED system

SystemNext ==
  \/ \E w \in Workers : WorkerStep(w)
  \/ StopGracefully \/ StopAtOnce
  \/ MainStep
  \/ SystemEnded

SystemSpec == SystemInit /\ [][SystemNext]_system

-----------------------------------------------------------------------------
(* Properties.                                                             *)

\* The file clean_cache has popped is main's alone, also when workers go on
\* with their jobs after SIGINT: it is not freed yet, nobody can look it up any
\* more, and no worker is about to free it or to link it.
FreedOnce ==
  main.pc = "clean_free" /\ main.node # NULL =>
    /\ ~Freed(main.node)
    /\ main.node \notin Linked
    /\ \A w \in Workers : main.node \notin Own(frame[w])

\* When main returns after a graceful end every file that was ever created has
\* been freed and the counters are back at zero: clean_cache goes by the
\* count alone, so a file that was lost or counted twice would show.
GracefulLeavesNothing ==
  main.pc = "returned" /\ mode = "GRACEFUL" =>
    /\ \A f \in FileIds : Freed(f)
    /\ nCurrentFile = 0
    /\ nCurrentMemoryUsed = 0

\* A server that was told to stop ends: neither printFiles nor clean_cache goes
\* round forever or waits for a mutex that nobody gives back.
StopEnds == mode # "ON" ~> server # "running"

=============================================================================
