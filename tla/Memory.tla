------------------------------- MODULE Memory -------------------------------
(***************************************************************************)
(* The in-memory file store of src/src/memory.c: the heap of FileMemory    *)
(* structs, the list that starts at serverMetadata.memory, and the         *)
(* counters of Server_metadata.                                            *)
(*                                                                         *)
(* memory.c is a library of critical sections.  A section under            *)
(* memoryLock never blocks, so it is one atomic step here and the mutex    *)
(* needs no variable.  metadataLock is a variable because write_to_file    *)
(* holds it while it waits for a file's mutex; lockFile is a field of the  *)
(* file because READ_FILE holds it across a blocking send.  Who runs which *)
(* section when is the business of Workers.tla.                            *)
(***************************************************************************)
EXTENDS Integers, Sequences, FiniteSets, FiniteSetsExt

CONSTANTS
  Names,     \* file names
  FileIds,   \* addresses a FileMemory struct can have
  Workers,   \* worker threads, the owners of a mutex
  NULL,      \* the null pointer, and the owner of a free mutex
  MaxFiles,  \* configFile.max_files
  MaxMemory, \* configFile.max_memory, in units of the model
  Policies   \* the values configFile.policy may have: a subset of {FIFO, LRU}

FileMemory == [filename : Names, usedMemory : Nat, isOpen : BOOLEAN,
               lockFile : Workers \cup {NULL}]

ASSUME MemoryAssumption ==
  /\ IsFiniteSet(FileIds)
  /\ NULL \notin FileIds \cup Workers \cup FileMemory
  /\ MaxFiles \in Nat
  /\ MaxMemory \in Nat
  /\ Policies \subseteq {"FIFO", "LRU"}

VARIABLES
  memory,             \* the list at serverMetadata.memory, head first
  lost,               \* lists whose head pointer was overwritten
  heap,               \* address -> FileMemory, NULL when not allocated
  nCurrentFile,       \* serverMetadata.nCurrentFile
  nCurrentMemoryUsed, \* serverMetadata.nCurrentMemoryUsed
  MaxRecvFile,        \* serverMetadata.MaxRecvFile, a statistic
  MaxUsedMemory,      \* serverMetadata.MaxUsedMemory, a statistic
  metadataLock,       \* the holder of serverMetadata.metadataLock
  policy              \* configFile.policy, read once at start-up

lists == <<memory, lost>>
counters == <<nCurrentFile, nCurrentMemoryUsed>>
peaks == <<MaxRecvFile, MaxUsedMemory>>
storeVars == <<memory, lost, heap, nCurrentFile, nCurrentMemoryUsed,
               MaxRecvFile, MaxUsedMemory, metadataLock, policy>>

MemoryInit ==
  /\ memory = <<>>
  /\ lost = {}
  /\ heap = [f \in FileIds |-> NULL]
  /\ nCurrentFile = 0
  /\ nCurrentMemoryUsed = 0
  /\ MaxRecvFile = 0
  /\ MaxUsedMemory = 0
  /\ metadataLock = NULL
  /\ policy \in Policies

MetadataFree == metadataLock = NULL

-----------------------------------------------------------------------------
(* Reading the store.                                                      *)

Freed(f) == heap[f] = NULL
Unused == {f \in FileIds : Freed(f)}

\* A pointer that must not be followed: null, or to a struct already freed.
Dangling(f) == f \notin FileIds \ Unused

\* The files of the list, and those of the lists that were overwritten.
Listed == Range(memory)
Leaked == {f \in FileIds : \E c \in lost : f \in Range(c)}
Linked == Listed \cup Leaked

\* Positions of the list that hold a file of this name, and the first one.
Matches(n) == {i \in DOMAIN memory : heap[memory[i]].filename = n}
FirstMatch(n) == {i \in Matches(n) : \A j \in Matches(n) : i <= j}

\* inMem: counts nCurrentFile steps from the head.  It reads the first
\* node's name before it looks whether there is a first node.
InMemFaults == memory = <<>> /\ nCurrentFile > 0
InMem(n) == \E i \in Matches(n) : i <= nCurrentFile

\* next: the successor in whichever list the file is linked; NULL at the end,
\* and for a file that was popped or never added.
Successors(f) ==
  {g \in FileIds : \E c \in lost \cup {memory} :
                     \E i \in 1..(Len(c) - 1) : c[i] = f /\ c[i + 1] = g}
NextOf(f) == IF Successors(f) = {} THEN {NULL} ELSE Successors(f)

\* is_action_legal: what would be stored fits both limits.
IsLegal(files, bytes) ==
  /\ nCurrentMemoryUsed + bytes <= MaxMemory
  /\ nCurrentFile + files <= MaxFiles

\* The bytes of some files, each by its file and its position, and how many of
\* them a list of files holds.
Places(S) == UNION {{f} \X (1..heap[f].usedMemory) : f \in S}
Bytes(s) == Cardinality(Places(Range(s)))

-----------------------------------------------------------------------------
(* The critical sections that write.                                       *)

NewFile(n) == [filename |-> n, usedMemory |-> 0, isOpen |-> FALSE, lockFile |-> NULL]

\* create_file: the new struct is in no list yet.
Allocate(f, n) == heap' = [heap EXCEPT ![f] = NewFile(n)]

\* add_file_to_memory after it saw no file: the head pointer is overwritten.
SetAsOnly(f) ==
  /\ memory' = <<f>>
  /\ lost' = IF memory = <<>> THEN lost ELSE lost \cup {memory}
  /\ nCurrentFile' = nCurrentFile + 1
  /\ UNCHANGED nCurrentMemoryUsed

\* Mutant of PushHead: the insertion at the head is not counted.
PushHeadUncounted(f) ==
  /\ memory' = <<f>> \o memory
  /\ UNCHANGED <<lost, nCurrentFile, nCurrentMemoryUsed>>

\* add_file_to_memory after it saw files.
PushHead(f) ==
  /\ memory' = <<f>> \o memory
  /\ nCurrentFile' = nCurrentFile + 1
  /\ UNCHANGED <<lost, nCurrentMemoryUsed>>

\* policy_routine: the i-th node becomes the head.
MovedToFront(s, i) ==
  [k \in 1..Len(s) |-> IF k = 1 THEN s[i] ELSE IF k <= i THEN s[k - 1] ELSE s[k]]

\* Mutant of Uncount: the bytes stay counted.
UncountFileOnly(f) ==
  /\ nCurrentFile' = nCurrentFile - 1
  /\ UNCHANGED nCurrentMemoryUsed

\* Mutant of Uncount: the file stays counted.
UncountBytesOnly(f) ==
  /\ nCurrentMemoryUsed' = nCurrentMemoryUsed - heap[f].usedMemory
  /\ UNCHANGED nCurrentFile

\* What both pops do to the counters when they unlink file f.
Uncount(f) ==
  /\ nCurrentFile' = nCurrentFile - 1
  /\ nCurrentMemoryUsed' = nCurrentMemoryUsed - heap[f].usedMemory

\* pop_from_tail and pop_from_head, on a list that is not empty.
Oldest == memory[Len(memory)]

\* Mutant of PopTail: the node before the last keeps its next pointer.
PopTailKeepsLink == Uncount(Oldest) /\ UNCHANGED lists

PopTail ==
  /\ memory' = SubSeq(memory, 1, Len(memory) - 1)
  /\ Uncount(Oldest)
  /\ UNCHANGED lost

\* Mutant of PopHead: serverMetadata.memory is not advanced.
PopHeadKeepsHead == Uncount(Head(memory)) /\ UNCHANGED lists

PopHead ==
  /\ memory' = Tail(memory)
  /\ Uncount(Head(memory))
  /\ UNCHANGED lost

\* Mutant of CanFree: free_file does not take the file's mutex.
FreesAnyway(f) == TRUE

\* free_file takes the file's mutex before it frees, so it waits for its holder.
CanFree(f) == heap[f].lockFile = NULL
Free(f) == heap' = [heap EXCEPT ![f] = NULL]

\* is_action_legal records the peaks of the actions it allows.
RecordPeaks(files, bytes) ==
  LET larger(a, b) == IF a < b THEN b ELSE a
  IN  /\ MaxUsedMemory' = larger(MaxUsedMemory, nCurrentMemoryUsed + bytes)
      /\ MaxRecvFile' = larger(MaxRecvFile, nCurrentFile + files)

\* Mutant of AppendBytes: the bytes are not counted.
AppendUncounted(f, bytes) ==
  /\ heap' = [heap EXCEPT ![f].usedMemory = @ + bytes]
  /\ UNCHANGED nCurrentMemoryUsed

\* write_to_file, both mutexes held: the bytes are appended and counted.
AppendBytes(f, bytes) ==
  /\ heap' = [heap EXCEPT ![f].usedMemory = @ + bytes]
  /\ nCurrentMemoryUsed' = nCurrentMemoryUsed + bytes

=============================================================================
