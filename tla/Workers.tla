------------------------------ MODULE Workers -------------------------------
(***************************************************************************)
(* The worker threads of src/src/server.c: how worker_thread carries out   *)
(* the jobs that touch the file store, as the sequence of critical         *)
(* sections of memory.c each job runs through.  Between two sections of    *)
(* one worker any other worker may run: the pointers and counts a worker   *)
(* carries from one section to the next live in its frame.                 *)
(*                                                                         *)
(* A step is one critical section with the thread-local code that follows  *)
(* it.  The run ends ("exited") where the code calls exit, and it ends     *)
(* ("undefined") where a pointer that is null or already freed would be    *)
(* followed: nothing is claimed about what the process does after that.    *)
(***************************************************************************)
EXTENDS Memory

CONSTANTS
  Ops,       \* the operations clients ask for, a subset of AllOps
  Sizes,     \* byte counts a client announces for WRITE_FILE and APPEND_FILE
  Counts,    \* file counts a client asks READN_FILE for, 0 meaning all
  MaxTracked \* bound: no write is taken on when nCurrentMemoryUsed would pass it

AllOps == {"CREATE", "OPEN", "CLOSE", "READ", "WRITE", "APPEND", "READN", "REMOVE"}

\* REWRITE is WRITE_FILE once the data has arrived; POP is REMOVE_FILE inside
\* remove_generic_file: both call find_file a second time.
Phases == AllOps \cup {"REWRITE", "POP"}

ASSUME WorkersAssumption ==
  /\ NULL \notin Phases
  /\ Ops \subseteq AllOps
  /\ Sizes \subseteq Nat
  /\ Counts \subseteq Nat
  /\ MaxTracked \in Nat

VARIABLES
  frame,  \* worker -> its program counter and local variables
  server  \* "running", "exited" or "undefined"

vars == <<memory, lost, heap, nCurrentFile, nCurrentMemoryUsed,
          MaxRecvFile, MaxUsedMemory, metadataLock, policy, frame, server>>

Labels == {"idle", "in_mem", "find_in", "find_scan", "find_policy",
           "legal", "plan", "pop_file", "free_file", "plan_memory", "more",
           "pop_memory", "subtract", "free_memory", "recv", "add_check", "add_count",
           "add_first", "add_head", "set_open", "set_close", "read_check",
           "read_lock", "read_send", "write_meta", "write_file", "count", "head",
           "sendn", "sendn_next", "remove_in", "remove_pop", "remove_free"}

Pointers == FileIds \cup {NULL}

Frames == [pc : Labels,
           op : Phases \cup {NULL},
           filename : Names \cup {NULL},
           arg : Nat,          \* bytes of a write, files of a READN
           file : Pointers,    \* FileMemory * file
           cursor : Pointers,  \* the node find_file found
           victim : Pointers,  \* the node a pop returned
           left : Int]         \* files to remove or send, or bytes to remove

NewFrame(label, op, n, k) ==
  [pc |-> label, op |-> op, filename |-> n, arg |-> k,
   file |-> NULL, cursor |-> NULL, victim |-> NULL, left |-> 0]

Idle == NewFrame("idle", NULL, NULL, 0)

Init ==
  /\ MemoryInit
  /\ frame = [w \in Workers |-> Idle]
  /\ server = "running"

-----------------------------------------------------------------------------
(* Steps.                                                                  *)

\* The next section of worker w follows a null or freed pointer: inMem on an
\* empty list that is not counted as empty, a node that policy_routine does
\* not find again, a pop that had nothing to pop, add_file_to_memory with no
\* head to link to, or the worker's own file gone since it was looked up.
NamedLike(f) == {i \in DOMAIN memory : ~Dangling(f) /\ i \in Matches(heap[f].filename)}

FollowsBadPointer(w) ==
  LET fr == frame[w]
  IN  \/ /\ fr.pc \in {"in_mem", "find_in", "add_check", "remove_in"}
         /\ InMemFaults
      \/ /\ fr.pc \in {"find_in", "find_scan"}
         /\ fr.op = "POP"
         /\ Dangling(fr.file)
      \/ /\ fr.pc = "find_policy"
         /\ Dangling(fr.cursor) \/ NamedLike(fr.cursor) = {}
      \/ /\ fr.pc \in {"pop_memory", "add_head"}
         /\ MetadataFree
         /\ memory = <<>>
      \/ /\ fr.pc \in {"set_close", "read_check", "read_lock", "write_file",
                       "sendn", "sendn_next", "remove_in"}
         /\ Dangling(fr.file)
      \/ /\ fr.pc = "set_open"
         /\ fr.file \in Unused

At(w, label) ==
  /\ server = "running"
  /\ frame[w].pc = label
  /\ ~FollowsBadPointer(w)

Become(w, fr) == frame' = [frame EXCEPT ![w] = fr] /\ UNCHANGED server
Go(w, label) == Become(w, [frame[w] EXCEPT !.pc = label])
Done(w) == Become(w, Idle)

\* The run ends, and every thread with it.
End(how) ==
  /\ server' = how
  /\ frame' = [w \in Workers |-> Idle]
  /\ UNCHANGED storeVars

Crash(w) ==
  /\ server = "running"
  /\ FollowsBadPointer(w)
  /\ End("undefined")

\* exit(EXIT_FAILURE)
Exit == End("exited")

-----------------------------------------------------------------------------
(* Taking a job from the work list, and the answers it gives at once.      *)

Writing == {"WRITE", "APPEND"}

ArgsOf(op) == IF op \in Writing THEN Sizes ELSE IF op = "READN" THEN Counts ELSE {0}
NamesOf(op) == IF op = "READN" THEN {NULL} ELSE Names

FirstLabel(op) ==
  IF op \in {"CREATE", "OPEN"} THEN "in_mem" ELSE IF op = "READN" THEN "count" ELSE "find_in"

TakeJob(w) ==
  /\ At(w, "idle")
  /\ \E op \in Ops : \E n \in NamesOf(op), k \in ArgsOf(op) :
       /\ op \in Writing => nCurrentMemoryUsed + k <= MaxTracked
       /\ Become(w, NewFrame(FirstLabel(op), op, n, k))
  /\ UNCHANGED storeVars

\* OPEN_FILE first asks inMem: to create, the name must be new (else EEXIST),
\* and to open it must be there (else ENOENT).
OpenInMem(w) ==
  /\ At(w, "in_mem")
  /\ LET there == InMem(frame[w].filename)
     IN  CASE frame[w].op = "CREATE" /\ ~there -> Go(w, "legal")
           [] frame[w].op = "OPEN" /\ there    -> Go(w, "find_in")
           [] OTHER                            -> Done(w)
  /\ UNCHANGED storeVars

-----------------------------------------------------------------------------
(* find_file: inMem, then the walk, then policy_routine, each its own      *)
(* section.                                                                *)

\* Mutant of PolicyOf: remove_generic_file passes the configured policy.
PolicyAsConfigured(op) == IF op = "REWRITE" THEN "FIFO" ELSE policy

\* The policy a caller passes: remove_generic_file wants its file at the head
\* to pop it there, the second lookup of WRITE_FILE wants it left in place.
PolicyOf(op) == IF op = "POP" THEN "LRU" ELSE IF op = "REWRITE" THEN "FIFO" ELSE policy

WantedName(fr) == IF fr.op = "POP" THEN heap[fr.file].filename ELSE fr.filename

AfterFind(op) ==
  CASE op = "OPEN"    -> "set_open"
    [] op = "CLOSE"   -> "set_close"
    [] op = "READ"    -> "read_check"
    [] op \in Writing -> "legal"
    [] op = "REWRITE" -> "write_meta"
    [] op = "REMOVE"  -> "remove_in"
    [] op = "POP"     -> "remove_pop"

\* find_file returns f.  Every caller but two answers ENOENT when that is
\* null: OPEN_FILE goes on to set_file_open, and remove_generic_file does not
\* look at the result.
FindReturns(w, f) ==
  LET fr == [frame[w] EXCEPT !.cursor = NULL, !.pc = AfterFind(frame[w].op)]
  IN  IF fr.op = "POP" THEN Become(w, fr)
      ELSE IF f = NULL /\ fr.op # "OPEN" THEN Done(w)
      ELSE Become(w, [fr EXCEPT !.file = f])

FindInMem(w) ==
  /\ At(w, "find_in")
  /\ IF InMem(WantedName(frame[w])) THEN Go(w, "find_scan") ELSE FindReturns(w, NULL)
  /\ UNCHANGED storeVars

FindScan(w) ==
  /\ At(w, "find_scan")
  /\ LET name == WantedName(frame[w])
     IN  \/ /\ Matches(name) = {}
            /\ FindReturns(w, NULL)
         \/ \E i \in FirstMatch(name) :
              IF PolicyOf(frame[w].op) = "LRU"
              THEN Become(w, [frame[w] EXCEPT !.pc = "find_policy", !.cursor = memory[i]])
              ELSE FindReturns(w, memory[i])
  /\ UNCHANGED storeVars

\* policy_routine under LRU moves the first node with the file's name to the
\* head: no change when that node is the head.
FindPolicy(w) ==
  /\ At(w, "find_policy")
  /\ \E i \in FirstMatch(heap[frame[w].cursor].filename) :
       memory' = MovedToFront(memory, i)
  /\ FindReturns(w, frame[w].cursor)
  /\ UNCHANGED <<lost, heap, counters, peaks, metadataLock, policy>>

-----------------------------------------------------------------------------
(* cache_algorithm, called for one file of no bytes by CREATE and for no   *)
(* file of arg bytes by the writes.                                        *)

NewFiles(w) == IF frame[w].op = "CREATE" THEN 1 ELSE 0
NewBytes(w) == frame[w].arg

\* cache_algorithm returns; its locals go.
AfterCache(fr) == [fr EXCEPT !.pc = IF fr.op = "CREATE" THEN "add_check" ELSE "recv",
                             !.left = 0, !.victim = NULL]
CacheDone(w) == Become(w, AfterCache(frame[w]))

IsActionLegal(w) ==
  /\ At(w, "legal")
  /\ MetadataFree
  /\ \/ /\ IsLegal(NewFiles(w), NewBytes(w))
        /\ RecordPeaks(NewFiles(w), NewBytes(w))
        /\ CacheDone(w)
     \/ /\ ~IsLegal(NewFiles(w), NewBytes(w))
        /\ Go(w, "plan")
        /\ UNCHANGED peaks
  /\ UNCHANGED <<lists, heap, counters, metadataLock, policy>>

\* What can never fit is E2BIG, which the writes report and CREATE ignores.
\* The number of files to evict is fixed here, before any is evicted.
TooBig(w) == NewFiles(w) > MaxFiles \/ NewBytes(w) > MaxMemory

PlanFiles(w) ==
  /\ At(w, "plan")
  /\ MetadataFree
  /\ LET excess == nCurrentFile + NewFiles(w) - MaxFiles
         evict  == excess > 0 /\ MaxFiles > NewFiles(w)
     IN  \/ TooBig(w) /\ IF frame[w].op = "CREATE" THEN CacheDone(w) ELSE Done(w)
         \/ ~TooBig(w) /\ ~evict /\ Go(w, "plan_memory")
         \/ ~TooBig(w) /\ evict
              /\ Become(w, [frame[w] EXCEPT !.pc = "pop_file", !.left = excess])
  /\ UNCHANGED storeVars

\* pop_from_tail of an empty list returns null, and free_file(NULL) returns.
PopFile(w) ==
  /\ At(w, "pop_file")
  /\ MetadataFree
  /\ IF memory = <<>>
     THEN Go(w, "free_file") /\ UNCHANGED <<lists, counters>>
     ELSE /\ Become(w, [frame[w] EXCEPT !.pc = "free_file", !.victim = Oldest])
          /\ PopTail
  /\ UNCHANGED <<heap, peaks, metadataLock, policy>>

FreeVictim(w) ==
  LET v == frame[w].victim
  IN  IF v = NULL THEN UNCHANGED heap ELSE CanFree(v) /\ Free(v)

\* Mutant of FreeFile: the loop does not count down.
FreeFileForever(w) ==
  /\ At(w, "free_file")
  /\ FreeVictim(w)
  /\ Become(w, [frame[w] EXCEPT !.victim = NULL,
                  !.pc = IF frame[w].left > 0 THEN "pop_file" ELSE "plan_memory"])
  /\ UNCHANGED <<lists, counters, peaks, metadataLock, policy>>

FreeFile(w) ==
  /\ At(w, "free_file")
  /\ FreeVictim(w)
  /\ Become(w, [frame[w] EXCEPT !.victim = NULL, !.left = @ - 1,
                  !.pc = IF frame[w].left > 1 THEN "pop_file" ELSE "plan_memory"])
  /\ UNCHANGED <<lists, counters, peaks, metadataLock, policy>>

PlanMemory(w) ==
  /\ At(w, "plan_memory")
  /\ MetadataFree
  /\ LET excess == nCurrentMemoryUsed + NewBytes(w) - MaxMemory
     IN  IF excess > 0 /\ MaxMemory > NewBytes(w)
         THEN Become(w, [frame[w] EXCEPT !.pc = "more", !.left = excess])
         ELSE CacheDone(w)
  /\ UNCHANGED storeVars

\* The loop condition reads the file count in a section of its own, so the
\* pop that follows may find the list empty.
MoreFiles(w) ==
  /\ At(w, "more")
  /\ MetadataFree
  /\ IF nCurrentFile # 0 THEN Go(w, "pop_memory") ELSE CacheDone(w)
  /\ UNCHANGED storeVars

PopMemory(w) ==
  /\ At(w, "pop_memory")
  /\ MetadataFree
  /\ Become(w, [frame[w] EXCEPT !.pc = "subtract", !.victim = Oldest])
  /\ PopTail
  /\ UNCHANGED <<heap, peaks, metadataLock, policy>>

\* The popped file's bytes are read after the unlock, when another worker may
\* have written to it.
SubtractPopped(w) ==
  /\ At(w, "subtract")
  /\ Become(w, [frame[w] EXCEPT !.pc = "free_memory", !.left = @ - heap[frame[w].victim].usedMemory])
  /\ UNCHANGED storeVars

FreeMemory(w) ==
  /\ At(w, "free_memory")
  /\ FreeVictim(w)
  /\ IF frame[w].left > 0
     THEN Become(w, [frame[w] EXCEPT !.pc = "more", !.victim = NULL])
     ELSE CacheDone(w)
  /\ UNCHANGED <<lists, counters, peaks, metadataLock, policy>>

-----------------------------------------------------------------------------
(* OPEN_FILE: create_file, add_file_to_memory, set_file_open.              *)

\* create_file, then the duplicate test of add_file_to_memory, which compares
\* with what is in the list now.  When it finds the name it returns null and
\* the caller goes on with the struct that is in no list.
AddCheck(w) ==
  /\ At(w, "add_check")
  /\ \E f \in Unused :
       /\ Allocate(f, frame[w].filename)
       /\ Become(w, [frame[w] EXCEPT !.file = f,
            !.pc = IF InMem(frame[w].filename) THEN "set_open" ELSE "add_count"])
  /\ UNCHANGED <<lists, counters, peaks, metadataLock, policy>>

\* safe_malloc found no memory.
OutOfMemory(w) ==
  /\ At(w, "add_check")
  /\ Unused = {}
  /\ Exit

\* get_actual_files() == 0 chooses how the file will be linked, in a section
\* of its own.
AddCount(w) ==
  /\ At(w, "add_count")
  /\ MetadataFree
  /\ Go(w, IF nCurrentFile = 0 THEN "add_first" ELSE "add_head")
  /\ UNCHANGED storeVars

AddFirst(w) ==
  /\ At(w, "add_first")
  /\ MetadataFree
  /\ SetAsOnly(frame[w].file)
  /\ Go(w, "set_open")
  /\ UNCHANGED <<heap, peaks, metadataLock, policy>>

AddHead(w) ==
  /\ At(w, "add_head")
  /\ MetadataFree
  /\ PushHead(frame[w].file)
  /\ Go(w, "set_open")
  /\ UNCHANGED <<heap, peaks, metadataLock, policy>>

\* Mutant of Unlocked: the file is written without its mutex.
NeverLocked(w) == TRUE

\* The file's mutex can be taken at once.
Unlocked(w) == heap[frame[w].file].lockFile = NULL

SetFileOpen(w) ==
  /\ At(w, "set_open")
  /\ frame[w].file # NULL
  /\ Unlocked(w)
  /\ heap' = [heap EXCEPT ![frame[w].file].isOpen = TRUE]
  /\ Done(w)
  /\ UNCHANGED <<lists, counters, peaks, metadataLock, policy>>

\* OPEN_FILE passes on the null that find_file returned.
SetOpenOnNull(w) ==
  /\ At(w, "set_open")
  /\ frame[w].file = NULL
  /\ Exit

-----------------------------------------------------------------------------
(* CLOSE_FILE and READ_FILE.                                               *)

\* The case of CLOSE_FILE has no continue after its answer: the job runs on
\* into READ_FILE, with a lookup of its own, for as long as the client thread
\* that got the answer has not freed it (ClosedJobFreed).
SetFileClose(w) ==
  /\ At(w, "set_close")
  /\ Unlocked(w)
  /\ heap' = [heap EXCEPT ![frame[w].file].isOpen = FALSE]
  /\ Become(w, [frame[w] EXCEPT !.pc = "find_in", !.op = "READ", !.file = NULL])
  /\ UNCHANGED <<lists, counters, peaks, metadataLock, policy>>

ClosedJobFreed(w) ==
  /\ At(w, "set_close")
  /\ Unlocked(w)
  /\ End("undefined")

\* isOpen is read without the file's mutex.
ReadCheck(w) ==
  /\ At(w, "read_check")
  /\ IF heap[frame[w].file].isOpen THEN Go(w, "read_lock") ELSE Done(w)
  /\ UNCHANGED storeVars

\* The data goes out with the file's mutex held.
ReadLock(w) ==
  /\ At(w, "read_lock")
  /\ Unlocked(w)
  /\ heap' = [heap EXCEPT ![frame[w].file].lockFile = w]
  /\ Go(w, "read_send")
  /\ UNCHANGED <<lists, counters, peaks, metadataLock, policy>>

ReadSend(w) ==
  /\ At(w, "read_send")
  /\ heap' = [heap EXCEPT ![frame[w].file].lockFile = NULL]
  /\ Done(w)
  /\ UNCHANGED <<lists, counters, peaks, metadataLock, policy>>

-----------------------------------------------------------------------------
(* WRITE_FILE and APPEND_FILE.                                             *)

\* Mutant of RecvMessage: WRITE_FILE does not look its file up again either.
RecvKeepsPointer(w) ==
  /\ At(w, "recv")
  /\ Done(w) \/ Go(w, "write_meta")
  /\ UNCHANGED storeVars

\* recv_message: it fails (EFAULT), or WRITE_FILE looks its file up again and
\* APPEND_FILE goes on with the pointer it got before cache_algorithm ran.
RecvMessage(w) ==
  /\ At(w, "recv")
  /\ \/ Done(w)
     \/ /\ frame[w].op = "WRITE"
        /\ Become(w, [frame[w] EXCEPT !.pc = "find_in", !.op = "REWRITE", !.file = NULL])
     \/ /\ frame[w].op = "APPEND"
        /\ Go(w, "write_meta")
  /\ UNCHANGED storeVars

\* write_to_file takes metadataLock first and then waits for the file.
WriteMeta(w) ==
  /\ At(w, "write_meta")
  /\ MetadataFree
  /\ metadataLock' = w
  /\ Go(w, "write_file")
  /\ UNCHANGED <<lists, heap, counters, peaks, policy>>

WriteFile(w) ==
  /\ At(w, "write_file")
  /\ Unlocked(w)
  /\ AppendBytes(frame[w].file, frame[w].arg)
  /\ metadataLock' = NULL
  /\ Done(w)
  /\ UNCHANGED <<lists, nCurrentFile, peaks, policy>>

-----------------------------------------------------------------------------
(* READN_FILE: the count, the head, then file after file, no mutex held.   *)

CountFiles(w) ==
  /\ At(w, "count")
  /\ MetadataFree
  /\ LET asked == frame[w].arg
         n == IF asked > nCurrentFile \/ asked = 0 THEN nCurrentFile ELSE asked
     IN  IF nCurrentFile = 0 THEN Done(w)
         ELSE Become(w, [frame[w] EXCEPT !.pc = "head", !.left = n])
  /\ UNCHANGED storeVars

GetHead(w) ==
  /\ At(w, "head")
  /\ IF memory = <<>> THEN Done(w)
     ELSE Become(w, [frame[w] EXCEPT !.pc = "sendn", !.file = Head(memory)])
  /\ UNCHANGED storeVars

\* The send of a file starts; while it lasts the worker is at "sendn_next".
SendN(w) ==
  /\ At(w, "sendn")
  /\ Go(w, "sendn_next")
  /\ UNCHANGED storeVars

SendNNext(w) ==
  /\ At(w, "sendn_next")
  /\ IF frame[w].left = 1 THEN Done(w)
     ELSE \E f \in NextOf(frame[w].file) :
            Become(w, [frame[w] EXCEPT !.pc = "sendn", !.file = f, !.left = @ - 1])
  /\ UNCHANGED storeVars

-----------------------------------------------------------------------------
(* REMOVE_FILE: remove_generic_file brings the file to the head with       *)
(* find_file and pops the head.                                            *)

RemoveInMem(w) ==
  /\ At(w, "remove_in")
  /\ InMem(heap[frame[w].file].filename)
  /\ Become(w, [frame[w] EXCEPT !.pc = "find_in", !.op = "POP"])
  /\ UNCHANGED storeVars

\* It returns -1 when the file is gone, and the worker ends the server.
RemoveFails(w) ==
  /\ At(w, "remove_in")
  /\ ~InMem(heap[frame[w].file].filename)
  /\ Exit

\* Mutant of RemovePop: pop_from_head counts before it looks for a head.
RemovePopCountsFirst(w) ==
  /\ At(w, "remove_pop")
  /\ MetadataFree
  /\ IF memory = <<>>
     THEN /\ Go(w, "remove_free")
          /\ nCurrentFile' = nCurrentFile - 1
          /\ UNCHANGED <<lists, nCurrentMemoryUsed>>
     ELSE /\ Become(w, [frame[w] EXCEPT !.pc = "remove_free", !.victim = Head(memory)])
          /\ PopHead
  /\ UNCHANGED <<heap, peaks, metadataLock, policy>>

RemovePop(w) ==
  /\ At(w, "remove_pop")
  /\ MetadataFree
  /\ IF memory = <<>>
     THEN Go(w, "remove_free") /\ UNCHANGED <<lists, counters>>
     ELSE /\ Become(w, [frame[w] EXCEPT !.pc = "remove_free", !.victim = Head(memory)])
          /\ PopHead
  /\ UNCHANGED <<heap, peaks, metadataLock, policy>>

RemoveFree(w) ==
  /\ At(w, "remove_free")
  /\ FreeVictim(w)
  /\ Done(w)
  /\ UNCHANGED <<lists, counters, peaks, metadataLock, policy>>

-----------------------------------------------------------------------------
(* The client hung up: a send to it fails and error_handling_minus exits.  *)

\* The worker is between two sections with a send of its own, or in the
\* section that a send of a negative answer follows.
Sending(fr) ==
  \/ fr.pc \in {"read_check", "read_lock", "read_send", "count", "head", "sendn", "sendn_next"}
  \/ fr.pc \in {"find_in", "find_scan"} /\ fr.op \in Writing \cup {"READ", "REWRITE"}
  \/ fr.pc \in {"legal", "plan"} /\ fr.op \in Writing
  \/ fr.pc = "recv" /\ fr.op = "WRITE"

SendFails(w) ==
  /\ server = "running"
  /\ Sending(frame[w])
  /\ Exit

Step(w) ==
  \/ TakeJob(w) \/ OpenInMem(w) \/ FindInMem(w) \/ FindScan(w) \/ FindPolicy(w)
  \/ IsActionLegal(w) \/ PlanFiles(w) \/ PopFile(w) \/ FreeFile(w)
  \/ PlanMemory(w) \/ MoreFiles(w) \/ PopMemory(w) \/ SubtractPopped(w) \/ FreeMemory(w)
  \/ AddCheck(w) \/ OutOfMemory(w) \/ AddCount(w) \/ AddFirst(w) \/ AddHead(w)
  \/ SetFileOpen(w) \/ SetOpenOnNull(w) \/ SetFileClose(w) \/ ClosedJobFreed(w)
  \/ ReadCheck(w) \/ ReadLock(w) \/ ReadSend(w)
  \/ RecvMessage(w) \/ WriteMeta(w) \/ WriteFile(w)
  \/ CountFiles(w) \/ GetHead(w) \/ SendN(w) \/ SendNNext(w)
  \/ RemoveInMem(w) \/ RemoveFails(w) \/ RemovePop(w) \/ RemoveFree(w)
  \/ SendFails(w) \/ Crash(w)

\* The process has ended.
Ended == server # "running" /\ UNCHANGED vars

Next == (\E w \in Workers : Step(w)) \/ Ended

Spec == Init /\ [][Next]_vars

-----------------------------------------------------------------------------
(* Properties.                                                             *)

\* Every variable keeps its type.  nCurrentFile is unsigned in the code: that
\* it stays a natural number says no removal ever takes it below zero.
TypeOK ==
  /\ memory \in Seq(FileIds)
  /\ lost \subseteq Seq(FileIds)
  /\ heap \in [FileIds -> FileMemory \cup {NULL}]
  /\ nCurrentFile \in Nat
  /\ nCurrentMemoryUsed \in Int
  /\ MaxRecvFile \in Nat
  /\ MaxUsedMemory \in Int
  /\ metadataLock \in Workers \cup {NULL}
  /\ policy \in Policies
  /\ frame \in [Workers -> Frames]
  /\ server \in {"running", "exited", "undefined"}

\* The files only the worker with this frame can reach: it created one and
\* has not linked it yet, or it popped one and has not freed it yet.
Creating == {"add_count", "add_first", "add_head"}
Freeing == {"free_file", "subtract", "free_memory", "remove_free"}
Own(fr) == {f \in FileIds : \/ fr.pc \in Creating /\ fr.file = f
                            \/ fr.pc \in Freeing /\ fr.victim = f}

\* Every linked file is linked once and every file has one owner, whatever the
\* workers interleave: a walk of the list never meets a freed node or a cycle,
\* and no file is freed twice or freed while it is in the list.  The pops, the
\* head insertions and policy_routine together keep this.
OneOwner ==
  /\ IsInjective(memory)
  /\ Listed \cap Leaked = {}
  /\ \A f \in Linked : ~Freed(f)
  /\ \A w \in Workers : \A f \in Own(frame[w]) :
       /\ ~Freed(f)
       /\ f \notin Linked
       /\ \A v \in Workers \ {w} : f \notin Own(frame[v])

\* nCurrentFile counts the files that are linked, those an overwritten head
\* pointer made unreachable included: losing files is the only way the count
\* and the list come apart, and no pop decrements it without a file.
CountExact == nCurrentFile = Cardinality(Linked)

\* inMem walks at most nCurrentFile nodes.  That bound never stops it before
\* a file that is in the list.
ScanReaches == \A n \in Names : Matches(n) # {} => InMem(n)

\* nCurrentMemoryUsed, a size_t, never wraps below zero when a file leaves: it
\* covers the bytes of the listed files at every moment, also when a write
\* lands on a file that another worker popped meanwhile.
BytesCovered == nCurrentMemoryUsed >= Bytes(memory)

\* From the moment READ_FILE locks a file until it has sent it, no worker
\* writes, opens, closes or frees that file (the comment at server.c:198, for
\* the read that takes the lock).
StableWhileSent ==
  [][\A w \in Workers, f \in FileIds :
        frame[w].pc = "read_send" /\ frame[w].file = f /\ frame'[w].pc = "read_send"
          => heap'[f] = heap[f]]_vars

-----------------------------------------------------------------------------
(* What makes the safety properties inductive.                             *)

\* What a frame holds where the worker stands.
FrameOK(fr) ==
  /\ fr.pc \in {"find_in", "find_scan", "find_policy"}
       => fr.op \in Writing \cup {"OPEN", "CLOSE", "READ", "REWRITE", "REMOVE", "POP"}
  /\ fr.pc = "add_check" => fr.op = "CREATE"
  /\ fr.op = "CREATE" => fr.filename \in Names
  /\ fr.pc \in Creating => fr.file \in FileIds
  /\ fr.pc = "subtract" => fr.victim \in FileIds
  /\ fr.pc \notin Freeing => fr.victim = NULL

\* READ_FILE has its file locked while it sends it.
SendsLocked ==
  \A w \in Workers : frame[w].pc = "read_send" =>
    /\ frame[w].file \in FileIds \ Unused
    /\ heap[frame[w].file].lockFile = w

CountCovers == nCurrentFile >= Len(memory)

\* The files whose bytes nCurrentMemoryUsed has to cover: those that are linked,
\* and those about to be, as a stale pointer of another worker's APPEND_FILE may
\* lead to the struct of a file that is not linked yet.
Created(fr) == {f \in FileIds : fr.pc \in Creating /\ fr.file = f}
Counted == Linked \cup UNION {Created(frame[w]) : w \in Workers}
CountedCovered == nCurrentMemoryUsed >= Cardinality(Places(Counted))

IInv ==
  /\ TypeOK
  /\ \A w \in Workers : FrameOK(frame[w])
  /\ OneOwner
  /\ CountCovers
  /\ CountExact
  /\ SendsLocked

=============================================================================
