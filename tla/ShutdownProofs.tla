--------------------------- MODULE ShutdownProofs ---------------------------
(***************************************************************************)
(* Proofs about Shutdown.tla: main frees the files beside any number of    *)
(* workers that go on with their jobs, for every set of names and          *)
(* addresses and every limit.                                              *)
(*                                                                         *)
(* SInv is inductive: the invariant of the workers, and that the file main *)
(* has popped is nobody else's.  A worker keeps the second half because    *)
(* every section of memory.c frees and links only files the worker owns    *)
(* (StepHasEffect), and comes to own only files that are listed or that it *)
(* allocates (OwnershipMoves).                                             *)
(***************************************************************************)
EXTENDS Shutdown, BytesProofs

SInv ==
  /\ IInv
  /\ main.node \in Pointers
  /\ FreedOnce

\* initMemory, before main waits for connections.
LEMMA SystemInitInv == SystemInit => SInv
<1> SUFFICES ASSUME SystemInit PROVE SInv
  OBVIOUS
<1>1. main.pc = "select" /\ main.node = NULL
  BY DEF SystemInit, MainAt
<1>2. QED
  BY <1>1, InitInv DEF SystemInit, SInv, FreedOnce, Pointers

-----------------------------------------------------------------------------
(* A worker beside main.                                                   *)

\* A file that nobody owns and that is in no list stays out of every worker's
\* reach: it is not freed, not linked, and nobody comes to own it.
LEMMA UnownedStays ==
  ASSUME IInv, NEW w \in Workers, Step(w),
         NEW x \in FileIds, ~Freed(x), x \notin Linked, \A v \in Workers : x \notin Own(frame[v])
  PROVE  /\ ~Freed(x)'
         /\ x \notin Linked'
         /\ \A v \in Workers : x \notin Own(frame'[v])
<1>1. heap \in [FileIds -> FileMemory \cup {NULL}] /\ heap[x] \in FileMemory
  BY DEF IInv, TypeOK, Freed
<1>2. Created(frame[w]) \subseteq Own(frame[w]) /\ Listed \subseteq Linked
  BY CreatedIsOwn DEF Linked
<1>3. heap'[x] # NULL /\ x \notin Linked'
  <2>1. CASE KeepsFiles
    BY <2>1 DEF KeepsFiles, Freed
  <2>2. ASSUME NEW f \in Created(frame[w]), LinksFile(f)
        PROVE  heap'[x] # NULL /\ x \notin Linked'
    BY <1>2, <2>2 DEF LinksFile, Freed
  <2>3. ASSUME NEW f \in Listed, PopsFile(f)
        PROVE  heap'[x] # NULL /\ x \notin Linked'
    BY <2>3 DEF PopsFile, Freed
  <2>4. ASSUME NEW f \in Own(frame[w]), FreesFile(f)
        PROVE  heap'[x] # NULL /\ x \notin Linked'
    BY <1>1, <2>4 DEF FreesFile, Free, Freed
  <2>5. ASSUME NEW f \in FileIds \ Unused, NEW bytes \in Nat, WritesFile(f, bytes)
        PROVE  heap'[x] # NULL /\ x \notin Linked'
    <3>1. heap[f] \in FileMemory
      BY <1>1 DEF Unused, Freed
    <3>2. heap[f].usedMemory + bytes \in Nat
      BY <3>1 DEF FileMemory
    <3>3. [heap[f] EXCEPT !.usedMemory = @ + bytes] \in FileMemory
      BY <3>1, <3>2 DEF FileMemory
    <3>4. heap' = [heap EXCEPT ![f] = [heap[f] EXCEPT !.usedMemory = @ + bytes]]
      BY <2>5 DEF WritesFile, AppendBytes
    <3>5. heap'[x] \in FileMemory
      BY <1>1, <3>3, <3>4
    <3>6. QED
      BY <2>5, <3>5, MemoryAssumption DEF WritesFile
  <2>6. QED
    BY <2>1, <2>2, <2>3, <2>4, <2>5, StepHasEffect DEF StepEffect
<1>4. \A v \in Workers : x \notin Own(frame'[v])
  <2>1. x \notin Listed /\ x \notin Unused
    BY <1>2 DEF Unused
  <2>2. QED
    BY <2>1, OwnershipMoves, IdleOK
<1>5. QED
  BY <1>3, <1>4 DEF Freed

\* A worker's step, before or after the server was told to stop.
LEMMA WorkerStepKeeps ==
  ASSUME SInv, NEW w \in Workers, WorkerStep(w)
  PROVE  SInv'
<1>1. Step(w) /\ IInv /\ main' = main
  BY DEF WorkerStep, SInv
<1>2. IInv'
  BY <1>1, NextInv DEF Next
<1>3. FreedOnce'
  <2> SUFFICES ASSUME main.pc = "clean_free", main.node # NULL
               PROVE  /\ ~Freed(main.node)'
                      /\ main.node \notin Linked'
                      /\ \A v \in Workers : main.node \notin Own(frame'[v])
    BY <1>1 DEF FreedOnce, Freed, Own
  <2>1. main.node \in FileIds
    BY DEF SInv, Pointers
  <2>2. QED
    BY <1>1, <2>1, UnownedStays DEF SInv, FreedOnce
<1>4. QED
  BY <1>1, <1>2, <1>3 DEF SInv

-----------------------------------------------------------------------------
(* main.                                                                   *)

\* main goes to a label where it has popped no file, and the store stays.
LEMMA MainOnly ==
  ASSUME SInv, UNCHANGED vars, main'.node \in Pointers, main'.pc # "clean_free"
  PROVE  SInv'
<1>1. IInv'
  BY StutterStep DEF SInv
<1>2. QED
  BY <1>1 DEF SInv, FreedOnce

\* The nodes printFiles walks over, whether they are in the list or not.
LEMMA PrintKeeps ==
  ASSUME SInv, PrintHead \/ PrintTest \/ PrintNext \/ CleanTest
  PROVE  SInv'
<1>1. UNCHANGED vars
  BY DEF PrintHead, PrintTest, PrintNext, CleanTest, MainGoes, storeVars, vars
<1>2. main'.pc # "clean_free"
  BY DEF PrintHead, PrintTest, PrintNext, CleanTest, MainGoes, MainAt
<1>3. main'.node \in Pointers
  <2>1. CASE PrintHead
    <3>1. memory \in Seq(FileIds)
      BY DEF SInv, IInv, TypeOK
    <3>2. memory # <<>> => Head(memory) \in FileIds
      BY <3>1, HeadTailProperties
    <3>3. QED
      BY <2>1, <3>2 DEF PrintHead, MainGoes, MainAt, Pointers
  <2>2. CASE PrintTest
    BY <2>2 DEF PrintTest, MainGoes, MainAt, Pointers, SInv
  <2>3. CASE PrintNext
    <3>1. PICK f \in NextOf(main.node) : main' = MainAt("print_test", f, main.printed + 1)
      BY <2>3 DEF PrintNext, MainGoes
    <3>2. f \in Pointers
      BY DEF NextOf, Successors, Pointers
    <3>3. QED
      BY <3>1, <3>2 DEF MainAt
  <2>4. CASE CleanTest
    BY <2>4 DEF CleanTest, MainGoes, MainAt, Pointers
  <2>5. QED
    BY <2>1, <2>2, <2>3, <2>4
<1>4. QED
  BY <1>1, <1>2, <1>3, MainOnly

\* pop_from_head for clean_cache: the file leaves the list and belongs to main.
LEMMA CleanPopKeeps ==
  ASSUME SInv, CleanPop
  PROVE  SInv'
<1>1. CASE memory = <<>>
  <2>1. UNCHANGED vars /\ main'.node = NULL
    BY <1>1 DEF CleanPop, MainGoes, MainAt, vars, lists, counters, peaks
  <2>2. IInv'
    BY <2>1, StutterStep DEF SInv
  <2>3. QED
    BY <2>1, <2>2 DEF SInv, FreedOnce, Pointers
<1>2. CASE memory # <<>>
  <2> DEFINE x == Head(memory)
  <2>1. /\ PopHead /\ main'.node = x
        /\ UNCHANGED <<lost, heap, peaks, metadataLock, policy, frame, server>>
    BY <1>2 DEF CleanPop, MainGoes, MainAt, PopHead
  <2>2. /\ IInv /\ TypeOK /\ OneOwner
        /\ memory \in Seq(FileIds) /\ IsInjective(memory)
    BY DEF SInv, IInv, TypeOK, OneOwner
  <2>3. /\ memory' \in Seq(FileIds) /\ Len(memory') = Len(memory) - 1
        /\ x \in Listed /\ Listed' = Listed \ {x} /\ IsInjective(memory')
    BY <1>2, <2>1, <2>2, PoppedHeadList DEF PopHead, Listed
  <2>4. x \in Linked /\ x \notin Leaked /\ x \in FileIds
    BY <2>2, <2>3, LinkedFacts DEF Linked, OneOwner
  <2>5. Leaked' = Leaked /\ Linked' = Linked \ {x}
    BY <2>1, <2>3, <2>4 DEF Leaked, Linked
  <2>6. ~Freed(x) /\ heap[x] \in FileMemory /\ \A v \in Workers : x \notin Own(frame[v])
    BY <2>2, <2>4 DEF OneOwner, Freed, TypeOK
  <2> HIDE DEF x
  <2>7. nCurrentFile' = nCurrentFile - 1 /\ nCurrentMemoryUsed' = nCurrentMemoryUsed - heap[x].usedMemory
    BY <2>1 DEF PopHead, Uncount, x
  <2>8. heap[x].usedMemory \in Nat /\ nCurrentMemoryUsed' \in Int
    BY <2>2, <2>6, <2>7 DEF FileMemory, TypeOK
  <2>9. Len(memory) \in Nat /\ Len(memory') \in Nat
    BY <2>2, <2>3, LenProperties
  <2>10. nCurrentFile' \in Nat /\ CountCovers'
    BY <2>3, <2>7, <2>9 DEF CountCovers, SInv, IInv, TypeOK
  <2>11. TypeOK'
    BY <2>1, <2>2, <2>3, <2>8, <2>10 DEF TypeOK, peaks
  <2>12. OneOwner'
    BY <2>1, <2>2, <2>3, <2>5 DEF OneOwner, Freed
  <2>13. CountExact'
    BY <2>2, <2>4, <2>5, <2>7, LinkedFacts, FS_RemoveElement DEF IInv, CountExact
  <2>14. SendsLocked' /\ \A v \in Workers : FrameOK(frame'[v])
    BY <2>1, <2>2 DEF IInv, SendsLocked, Unused, Freed
  <2>15. IInv'
    BY <2>10, <2>11, <2>12, <2>13, <2>14 DEF IInv
  <2>16. FreedOnce'
    BY <2>1, <2>5, <2>6 DEF FreedOnce, Freed
  <2>17. QED
    BY <2>1, <2>4, <2>15, <2>16 DEF SInv, Pointers
<1>3. QED
  BY <1>1, <1>2

\* free_file for clean_cache: what main frees is its own.
LEMMA CleanFreeKeeps ==
  ASSUME SInv, CleanFree
  PROVE  SInv'
<1> DEFINE x == main.node
<1>1. main'.pc = "clean_test" /\ main'.node \in Pointers
  BY DEF CleanFree, MainGoes, MainAt, Pointers
<1>2. UNCHANGED <<lists, counters, peaks, metadataLock, policy, frame, server>>
  BY DEF CleanFree, MainGoes
<1>3. CASE x = NULL
  <2>1. UNCHANGED vars
    BY <1>2, <1>3 DEF CleanFree, vars, lists, counters, peaks
  <2>2. QED
    BY <1>1, <2>1, MainOnly
<1>4. CASE x # NULL
  <2>1. /\ x \in FileIds /\ CanFree(x) /\ heap' = [heap EXCEPT ![x] = NULL]
        /\ ~Freed(x) /\ x \notin Linked /\ \A v \in Workers : x \notin Own(frame[v])
    BY <1>4 DEF CleanFree, MainIs, Free, SInv, Pointers, FreedOnce
  <2>2. IInv /\ TypeOK /\ OneOwner
    BY DEF SInv, IInv
  <2>3. /\ heap' \in [FileIds -> FileMemory \cup {NULL}]
        /\ \A g \in FileIds \ {x} : heap'[g] = heap[g]
    BY <2>1, <2>2 DEF TypeOK
  <2> HIDE DEF x
  <2>4. TypeOK'
    BY <1>2, <2>2, <2>3 DEF TypeOK, lists, counters, peaks
  <2>5. Linked' = Linked /\ Leaked' = Leaked /\ Listed' = Listed
    BY <1>2 DEF Linked, Leaked, Listed, lists
  <2>6. OneOwner'
    <3>1. \A f \in Linked : f # x /\ f \in FileIds
      BY <2>1, <2>2, LinkedFacts
    <3>2. \A v \in Workers : \A f \in Own(frame[v]) : f # x /\ f \in FileIds
      BY <2>1, <2>2, LinkedFacts
    <3>3. QED
      BY <1>2, <2>2, <2>3, <2>5, <3>1, <3>2 DEF OneOwner, Freed, lists
  <2>7. CountCovers' /\ CountExact'
    BY <1>2, <2>2, <2>5 DEF IInv, CountCovers, CountExact, lists, counters
  <2>8. SendsLocked'
    <3>1. \A v \in Workers : v # NULL
      BY MemoryAssumption
    <3>2. \A v \in Workers : frame[v].pc = "read_send" => frame[v].file # x
      BY <2>1, <2>2, <3>1 DEF CanFree, IInv, SendsLocked
    <3>3. QED
      BY <1>2, <2>2, <2>3, <3>2 DEF IInv, SendsLocked, Unused, Freed
  <2>9. IInv'
    BY <1>2, <2>2, <2>4, <2>6, <2>7, <2>8 DEF IInv
  <2>10. QED
    BY <1>1, <2>9 DEF SInv, FreedOnce
<1>5. QED
  BY <1>3, <1>4

\* Every step of the server with its main thread.
LEMMA SystemNextInv == ASSUME SInv, [SystemNext]_system PROVE SInv'
<1>1. CASE UNCHANGED system
  <2>1. IInv' /\ main' = main
    BY <1>1, StutterStep DEF system, SInv
  <2>2. FreedOnce'
    BY <1>1 DEF system, vars, SInv, FreedOnce, Freed, Linked, Listed, Leaked, Own
  <2>3. QED
    BY <2>1, <2>2 DEF SInv
<1>2. ASSUME NEW w \in Workers, WorkerStep(w) PROVE SInv'
  BY <1>2, WorkerStepKeeps
<1>3. CASE StopGracefully \/ StopAtOnce
  <2>1. UNCHANGED vars /\ main'.pc = "print_head" /\ main'.node = NULL
    BY <1>3 DEF StopGracefully, StopAtOnce, Stop, MainAt
  <2>2. QED
    BY <2>1, MainOnly DEF Pointers
<1>4. CASE MainStep
  <2>1. CASE PrintFollowsBadPointer
    <3>1. main' = main /\ main.pc = "print_next"
      BY <2>1 DEF PrintFollowsBadPointer, MainIs
    <3>2. IInv'
      BY <2>1, EndStep DEF PrintFollowsBadPointer, SInv
    <3>3. QED
      BY <3>1, <3>2 DEF SInv, FreedOnce
  <2>2. CASE Return
    <3>1. main'.pc = "returned" /\ main'.node = NULL
      BY <2>2 DEF Return, MainAt
    <3>2. IInv'
      BY <2>2, EndStep DEF Return, SInv
    <3>3. QED
      BY <3>1, <3>2 DEF SInv, FreedOnce, Pointers
  <2>3. QED
    BY <1>4, <2>1, <2>2, PrintKeeps, CleanPopKeeps, CleanFreeKeeps DEF MainStep
<1>5. CASE SystemEnded
  BY <1>1, <1>5 DEF SystemEnded
<1>6. QED
  BY <1>1, <1>2, <1>3, <1>4, <1>5 DEF SystemNext

\* The invariant of the workers and of main holds from start to end.
THEOREM SystemInvariant == SystemSpec => []SInv
<1>1. SInv /\ [SystemNext]_system => SInv'
  BY SystemNextInv
<1>2. QED
  BY <1>1, SystemInitInv, PTL DEF SystemSpec

-----------------------------------------------------------------------------
(* The bytes, beside main.                                                 *)

\* No file comes to count, and those that count keep their bytes.
LEMMA CountedShrinks ==
  ASSUME IInv, IInv', CountedCovered, Counted' \subseteq Counted,
         \A f \in Counted' : heap'[f].usedMemory = heap[f].usedMemory,
         UNCHANGED nCurrentMemoryUsed
  PROVE  CountedCovered'
<1> DEFINE P == PlacesIn(heap, Counted)
           Q == PlacesIn(heap', Counted')
<1>1. CountedAllocated /\ CountedAllocated'
  BY CountedExist, PTL
<1>2. IsFiniteSet(P) /\ Cardinality(P) \in Nat
  BY <1>1, CountedFinite DEF CountedAllocated
<1>3. Cardinality(Q) \in Nat
  BY <1>1, CountedFinite DEF CountedAllocated
<1>4. Cardinality(Q) <= Cardinality(P)
  BY <1>2, PlacesKept
<1>5. nCurrentMemoryUsed \in Int /\ nCurrentMemoryUsed >= Cardinality(P)
  BY DEF CountedCovered, Places, PlacesIn, IInv, TypeOK
<1>6. nCurrentMemoryUsed' >= Cardinality(Q)
  BY <1>2, <1>3, <1>4, <1>5
<1>7. QED
  BY <1>6 DEF CountedCovered, Places, PlacesIn

\* clean_cache takes off the count what the file it pops holds.
LEMMA CleanPopCounted ==
  ASSUME SInv, SInv', CountedCovered, CleanPop, memory # <<>>
  PROVE  CountedCovered'
<1>0. PICK x : x = Head(memory)
  OBVIOUS
<1> DEFINE P == PlacesIn(heap, Counted)
           Q == PlacesIn(heap', Counted')
<1>1. /\ PopHead /\ IInv /\ IInv' /\ memory \in Seq(FileIds) /\ IsInjective(memory)
      /\ UNCHANGED <<lost, heap, frame>>
  BY DEF CleanPop, MainGoes, PopHead, SInv, IInv, TypeOK, OneOwner
<1>2. CountedAllocated /\ CountedAllocated'
  BY <1>1, CountedExist, PTL
<1>3. x \in Listed /\ Listed' = Listed \ {x}
  BY <1>0, <1>1, PoppedHeadList DEF PopHead, Listed
<1>4. x \in Linked /\ x \notin Leaked /\ \A v \in Workers : x \notin Own(frame[v])
  BY <1>1, <1>3 DEF Linked, IInv, OneOwner
<1>5. Leaked' = Leaked /\ Linked' = Linked \ {x}
  BY <1>1, <1>3, <1>4 DEF Leaked, Linked
<1>6. x \in Counted /\ \A v \in Workers : x \notin Created(frame[v])
  BY <1>4, CreatedIsOwn DEF Counted
<1>7. Counted' = Linked' \cup UNION {Created(frame[v]) : v \in Workers}
  BY <1>1 DEF Counted, Created
<1>8. Counted' \subseteq Counted \ {x}
  BY <1>5, <1>6, <1>7 DEF Counted
<1>9. IsFiniteSet(P) /\ Cardinality(P) \in Nat /\ heap[x].usedMemory \in Nat
  BY <1>2, <1>6, CountedFinite DEF CountedAllocated
<1>10. Cardinality(Q) \in Nat
  BY <1>2, CountedFinite DEF CountedAllocated
<1>11. Cardinality(Q) <= Cardinality(P) - heap[x].usedMemory
  <2>1. Cardinality(PlacesIn(heap, Counted')) <= Cardinality(P) - heap[x].usedMemory
    BY <1>6, <1>8, <1>9, PlacesDropped
  <2>2. QED
    BY <1>1, <2>1
<1>12. /\ nCurrentMemoryUsed \in Int /\ nCurrentMemoryUsed >= Cardinality(P)
       /\ nCurrentMemoryUsed' = nCurrentMemoryUsed - heap[x].usedMemory
  BY <1>0, <1>1 DEF CountedCovered, Places, PlacesIn, IInv, TypeOK, PopHead, Uncount
<1>13. nCurrentMemoryUsed' >= Cardinality(Q)
  BY <1>9, <1>10, <1>11, <1>12
<1>14. QED
  BY <1>13 DEF CountedCovered, Places, PlacesIn

\* Every step of the server with its main thread keeps the bytes covered.
LEMMA SystemCounted ==
  ASSUME SInv, SInv', CountedCovered, [SystemNext]_system
  PROVE  CountedCovered'
<1>1. IInv /\ IInv'
  BY DEF SInv
<1>2. CASE UNCHANGED vars
  BY <1>1, <1>2, CountedNext
<1>3. ASSUME NEW w \in Workers, WorkerStep(w) PROVE CountedCovered'
  BY <1>1, <1>3, CountedStep DEF WorkerStep
<1>4. ASSUME NEW how, End(how) PROVE CountedCovered'
  <2>1. UNCHANGED <<memory, lost, heap, nCurrentMemoryUsed>> /\ \A v \in Workers : frame'[v] = Idle
    BY <1>4 DEF End, storeVars
  <2>2. Linked' = Linked /\ \A v \in Workers : Created(frame'[v]) = {}
    BY <2>1, IdleOK, CreatedIsOwn DEF Linked, Listed, Leaked
  <2>3. Counted' = Linked' \cup UNION {Created(frame'[v]) : v \in Workers}
    BY DEF Counted, Created
  <2>4. Counted' \subseteq Counted
    BY <2>2, <2>3 DEF Counted
  <2>5. QED
    BY <1>1, <2>1, <2>4, CountedShrinks
<1>5. CASE CleanPop
  <2>1. CASE memory = <<>>
    BY <1>1, <1>2, <1>5, <2>1 DEF CleanPop, MainGoes, vars, lists, counters, peaks
  <2>2. QED
    BY <1>5, <2>1, CleanPopCounted
<1>6. CASE CleanFree
  <2>1. UNCHANGED <<memory, lost, nCurrentMemoryUsed, frame>>
    BY <1>6 DEF CleanFree, MainGoes, lists, counters
  <2>2. Counted' = Counted
    BY <2>1 DEF Counted, Created, Linked, Listed, Leaked
  <2>3. CASE main.node = NULL
    BY <1>1, <1>6, <2>1, <2>2, <2>3, CountedShrinks DEF CleanFree
  <2>4. CASE main.node # NULL
    <3>1. PICK x : x = main.node
      OBVIOUS
    <3>2. /\ heap' = [heap EXCEPT ![x] = NULL] /\ x \notin Linked
          /\ \A v \in Workers : x \notin Created(frame[v])
      BY <1>6, <2>4, <3>1, CreatedIsOwn DEF CleanFree, MainIs, Free, SInv, FreedOnce
    <3>3. x \notin Counted
      BY <3>2 DEF Counted
    <3>4. CountedAllocated /\ heap \in [FileIds -> FileMemory \cup {NULL}]
      BY <1>1, CountedExist DEF IInv, TypeOK
    <3>5. \A f \in Counted : heap'[f] = heap[f]
      BY <3>2, <3>3, <3>4 DEF CountedAllocated
    <3>6. QED
      BY <1>1, <2>1, <2>2, <3>5, CountedShrinks
  <2>5. QED
    BY <2>3, <2>4
<1>7. CASE UNCHANGED system \/ StopGracefully \/ StopAtOnce \/ SystemEnded
  BY <1>2, <1>7 DEF system, StopGracefully, StopAtOnce, Stop, SystemEnded
<1>8. CASE PrintHead \/ PrintTest \/ PrintNext \/ CleanTest
  BY <1>2, <1>8 DEF PrintHead, PrintTest, PrintNext, CleanTest, MainGoes, storeVars, vars
<1>9. CASE PrintFollowsBadPointer \/ Return
  BY <1>4, <1>9 DEF PrintFollowsBadPointer, Return
<1>10. QED
  BY <1>3, <1>5, <1>6, <1>7, <1>8, <1>9 DEF SystemNext, MainStep

-----------------------------------------------------------------------------
(* The properties.                                                         *)

\* clean_cache and the workers that SIGINT left at work never free the same
\* file: what pop_from_head gave main, no worker has in hand, in any list or
\* already freed, for any number of workers.
THEOREM FreedOnceAlways == SystemSpec => []FreedOnce
<1>1. SInv => FreedOnce
  BY DEF SInv
<1>2. QED
  BY <1>1, SystemInvariant, PTL

\* The list, the frames and nCurrentFile keep their invariants while clean_cache
\* empties the list beside the workers: main pops and frees like one of them.
THEOREM StoreSoundToTheEnd == SystemSpec => [](TypeOK /\ OneOwner /\ CountExact)
<1>1. SInv => TypeOK /\ OneOwner /\ CountExact
  BY DEF SInv, IInv
<1>2. QED
  BY <1>1, SystemInvariant, PTL

\* nCurrentMemoryUsed never wraps while the server stops either: clean_cache takes
\* off it only bytes it counts, also while the workers that SIGINT left at work
\* write, create and evict files beside main.
THEOREM BytesCoveredToTheEnd == SystemSpec => [](CountedCovered /\ BytesCovered)
<1>1. SystemInit => CountedCovered
  BY CountedAtFirst DEF SystemInit
<1>2. SInv /\ SInv' /\ CountedCovered /\ [SystemNext]_system => CountedCovered'
  BY SystemCounted
<1>3. SInv /\ CountedCovered => BytesCovered
  BY CoversList DEF SInv
<1>4. QED
  BY <1>1, <1>2, <1>3, SystemInvariant, PTL DEF SystemSpec

=============================================================================
