---------------------------- MODULE BytesProofs -----------------------------
(***************************************************************************)
(* What one step of a worker does to the files and the bytes of the store, *)
(* whichever section it runs, and the theorem about nCurrentMemoryUsed     *)
(* that follows, for every set of workers, names and addresses.            *)
(***************************************************************************)
EXTENDS WorkersProofs

-----------------------------------------------------------------------------
(* What one step of a worker can do to a file it does not own.             *)

\* A frame that is neither creating nor freeing owns nothing.
LEMMA OwnsNothing ==
  ASSUME NEW fr, fr.pc \notin Creating \cup Freeing
  PROVE  Own(fr) = {} /\ Created(fr) = {}
BY DEF Own, Created

\* What a frame has created it owns.
LEMMA CreatedIsOwn == ASSUME NEW fr PROVE Created(fr) \subseteq Own(fr)
BY DEF Created, Own

\* A worker comes to own only what it owned, popped or allocated just now, and
\* every other worker stays where it is or is gone with the process.
LEMMA OwnershipMoves ==
  ASSUME IInv, NEW w \in Workers, Step(w)
  PROVE  /\ \A v \in Workers \ {w} : frame'[v] = frame[v] \/ frame'[v] = Idle
         /\ Own(frame'[w]) \subseteq Own(frame[w]) \cup Listed \cup Unused
         /\ Created(frame'[w]) \subseteq Created(frame[w]) \cup Unused
<1> DEFINE Goal == /\ \A v \in Workers \ {w} : frame'[v] = frame[v] \/ frame'[v] = Idle
                   /\ Own(frame'[w]) \subseteq Own(frame[w]) \cup Listed \cup Unused
                   /\ Created(frame'[w]) \subseteq Created(frame[w]) \cup Unused
<1>1. frame[w] \in Frames /\ FrameOK(frame[w]) /\ frame \in [Workers -> Frames]
  BY FrameFacts DEF IInv, TypeOK
<1>2. ASSUME NEW fr, Become(w, fr), Own(fr) \subseteq Own(frame[w]) \cup Listed \cup Unused,
             Created(fr) \subseteq Created(frame[w]) \cup Unused
      PROVE  Goal
  BY <1>1, <1>2 DEF Become
<1>3. ASSUME NEW fr, Become(w, fr), fr.pc \notin Creating \cup Freeing
      PROVE  Goal
  BY <1>2, <1>3, OwnsNothing
<1>4. ASSUME NEW label \in Labels \ (Creating \cup Freeing), Go(w, label)
      PROVE  Goal
  <2>1. [frame[w] EXCEPT !.pc = label].pc = label
    BY <1>1 DEF Frames
  <2>2. QED
    BY <1>3, <1>4, <2>1 DEF Go
<1>5. ASSUME Done(w) PROVE Goal
  BY <1>2, <1>5, IdleOK, CreatedIsOwn DEF Done
<1>6. ASSUME NEW how, End(how) PROVE Goal
  BY <1>6, IdleOK, CreatedIsOwn DEF End
<1>7. ASSUME CacheDone(w) PROVE Goal
  BY <1>1, <1>2, <1>7, AfterCacheFrame, CreatedIsOwn DEF CacheDone
<1>8. ASSUME NEW f \in Pointers, FindReturns(w, f),
             frame[w].pc \in {"find_in", "find_scan", "find_policy"}
      PROVE  Goal
  BY <1>2, <1>8, FindReturnsFrame, CreatedIsOwn
<1>9. \A i \in DOMAIN memory : memory[i] \in FileIds
  BY LenProperties DEF IInv, TypeOK
<1> SUFFICES Goal
  OBVIOUS
<1> HIDE DEF Goal
<1>10. CASE TakeJob(w)
  <2>1. PICK op \in Ops : \E n \in NamesOf(op), k \in ArgsOf(op) :
          Become(w, NewFrame(FirstLabel(op), op, n, k))
    BY <1>10 DEF TakeJob
  <2>2. PICK n \in NamesOf(op), k \in ArgsOf(op) :
          Become(w, NewFrame(FirstLabel(op), op, n, k))
    BY <2>1
  <2>3. NewFrame(FirstLabel(op), op, n, k).pc \notin Creating \cup Freeing
    BY DEF NewFrame, FirstLabel, Creating, Freeing
  <2>4. QED
    BY <1>3, <2>2, <2>3
<1>11. CASE OpenInMem(w)
  BY <1>4, <1>5, <1>11 DEF OpenInMem, Labels, Creating, Freeing
<1>12. CASE FindInMem(w)
  <2>1. NULL \in Pointers
    BY DEF Pointers
  <2>2. QED
    BY <1>4, <1>8, <1>12, <2>1 DEF FindInMem, At, Labels, Creating, Freeing
<1>13. CASE FindScan(w)
  <2>1. NULL \in Pointers /\ \A i \in DOMAIN memory : memory[i] \in Pointers
    BY <1>9 DEF Pointers
  <2>2. \A i \in DOMAIN memory :
          [frame[w] EXCEPT !.pc = "find_policy", !.cursor = memory[i]].pc \notin Creating \cup Freeing
    BY <1>1 DEF Frames, Creating, Freeing
  <2>3. QED
    BY <1>3, <1>8, <1>13, <2>1, <2>2 DEF FindScan, At, FirstMatch, Matches
<1>14. CASE FindPolicy(w)
  <2>1. frame[w].cursor \in Pointers
    BY <1>1 DEF Frames
  <2>2. QED
    BY <1>8, <1>14, <2>1 DEF FindPolicy, At
<1>15. CASE IsActionLegal(w)
  BY <1>4, <1>7, <1>15 DEF IsActionLegal, Labels, Creating, Freeing
<1>16. CASE PlanFiles(w)
  <2>1. \A n : [frame[w] EXCEPT !.pc = "pop_file", !.left = n].pc \notin Creating \cup Freeing
    BY <1>1 DEF Frames, Creating, Freeing
  <2>2. QED
    BY <1>3, <1>4, <1>5, <1>7, <1>16, <2>1 DEF PlanFiles, Labels, Creating, Freeing
<1>17. CASE PopFile(w)
  <2>1. CASE memory = <<>>
    <3> DEFINE fr == [frame[w] EXCEPT !.pc = "free_file"]
    <3>1. fr.pc = "free_file" /\ fr.victim = frame[w].victim /\ frame[w].victim = NULL
      BY <1>1, <1>17 DEF Frames, PopFile, At, FrameOK, Freeing
    <3>2. Own(fr) = {}
      BY <3>1, MemoryAssumption DEF Own, Creating
    <3>3. QED
      BY <1>2, <1>17, <2>1, <3>2, CreatedIsOwn DEF PopFile, Go
  <2>2. CASE memory # <<>>
    <3> DEFINE fr == [frame[w] EXCEPT !.pc = "free_file", !.victim = Oldest]
    <3>1. fr.pc = "free_file" /\ fr.victim = Oldest
      BY <1>1 DEF Frames
    <3>2. Become(w, fr) /\ PopTail
      BY <1>17, <2>2 DEF PopFile
    <3> HIDE DEF fr
    <3>3. Own(fr) \subseteq Listed /\ Created(fr) = {}
      BY <2>2, <3>1, <3>2, PopTailFacts DEF Own, Created, Creating
    <3>4. QED
      BY <1>2, <3>2, <3>3
  <2>3. QED
    BY <2>1, <2>2
<1>18. CASE FreeFile(w)
  <2> DEFINE label == IF frame[w].left > 1 THEN "pop_file" ELSE "plan_memory"
             fr == [frame[w] EXCEPT !.victim = NULL, !.left = @ - 1, !.pc = label]
  <2>1. fr.pc = label
    BY <1>1 DEF Frames
  <2>2. label \notin Creating \cup Freeing
    BY DEF Creating, Freeing
  <2>3. Become(w, fr)
    BY <1>18 DEF FreeFile
  <2> HIDE DEF fr
  <2>4. QED
    BY <1>3, <2>1, <2>2, <2>3
<1>19. CASE PlanMemory(w)
  <2>1. \A n : [frame[w] EXCEPT !.pc = "more", !.left = n].pc \notin Creating \cup Freeing
    BY <1>1 DEF Frames, Creating, Freeing
  <2>2. QED
    BY <1>3, <1>7, <1>19, <2>1 DEF PlanMemory
<1>20. CASE MoreFiles(w)
  BY <1>4, <1>7, <1>20 DEF MoreFiles, Labels, Creating, Freeing
<1>21. CASE PopMemory(w)
  <2> DEFINE fr == [frame[w] EXCEPT !.pc = "subtract", !.victim = Oldest]
  <2>1. fr.pc = "subtract" /\ fr.victim = Oldest
    BY <1>1 DEF Frames
  <2>2. Become(w, fr) /\ PopTail /\ memory # <<>>
    BY <1>21 DEF PopMemory, At, FollowsBadPointer
  <2> HIDE DEF fr
  <2>3. Own(fr) \subseteq Listed /\ Created(fr) = {}
    BY <2>1, <2>2, PopTailFacts DEF Own, Created, Creating
  <2>4. QED
    BY <1>2, <2>2, <2>3
<1>43. CASE SubtractPopped(w)
  <2> DEFINE fr == [frame[w] EXCEPT !.pc = "free_memory",
                                    !.left = @ - heap[frame[w].victim].usedMemory]
  <2>1. fr.pc = "free_memory" /\ fr.victim = frame[w].victim /\ frame[w].pc = "subtract"
    BY <1>1, <1>43 DEF Frames, SubtractPopped, At
  <2>2. Become(w, fr)
    BY <1>43 DEF SubtractPopped
  <2> HIDE DEF fr
  <2>3. Own(fr) \subseteq Own(frame[w]) /\ Created(fr) = {}
    BY <2>1 DEF Own, Created, Creating, Freeing
  <2>4. QED
    BY <1>2, <2>2, <2>3
<1>22. CASE FreeMemory(w)
  <2>1. [frame[w] EXCEPT !.pc = "more", !.victim = NULL].pc \notin Creating \cup Freeing
    BY <1>1 DEF Frames, Creating, Freeing
  <2>2. QED
    BY <1>3, <1>7, <1>22, <2>1 DEF FreeMemory
<1>23. CASE AddCheck(w)
  <2> DEFINE label == IF InMem(frame[w].filename) THEN "set_open" ELSE "add_count"
  <2>1. PICK f \in Unused : Become(w, [frame[w] EXCEPT !.file = f, !.pc = label])
    BY <1>23 DEF AddCheck
  <2> DEFINE fr == [frame[w] EXCEPT !.file = f, !.pc = label]
  <2>2. fr.pc = label /\ fr.file = f
    BY <1>1 DEF Frames
  <2>3. label \notin Freeing
    BY DEF Freeing
  <2> HIDE DEF fr
  <2>4. Own(fr) \subseteq Unused /\ Created(fr) \subseteq Unused
    BY <2>2, <2>3 DEF Own, Created
  <2>5. QED
    BY <1>2, <2>1, <2>4 DEF fr
<1>24. CASE AddCount(w)
  <2>1. ASSUME NEW label \in {"add_first", "add_head"}, Go(w, label)
        PROVE  Goal
    <3> DEFINE fr == [frame[w] EXCEPT !.pc = label]
    <3>1. fr.pc = label /\ fr.file = frame[w].file /\ frame[w].pc = "add_count"
      BY <1>1, <1>24 DEF Frames, AddCount, At
    <3>2. Own(fr) \subseteq Own(frame[w]) /\ Created(fr) \subseteq Created(frame[w])
      BY <3>1 DEF Own, Created, Creating, Freeing
    <3>3. QED
      BY <1>2, <2>1, <3>2 DEF Go
  <2>2. QED
    BY <1>24, <2>1 DEF AddCount
<1>25. CASE AddFirst(w)
  BY <1>4, <1>25 DEF AddFirst, Labels, Creating, Freeing
<1>26. CASE AddHead(w)
  BY <1>4, <1>26 DEF AddHead, Labels, Creating, Freeing
<1>27. CASE SetFileOpen(w)
  BY <1>5, <1>27 DEF SetFileOpen
<1>28. CASE SetFileClose(w)
  <2>1. [frame[w] EXCEPT !.pc = "find_in", !.op = "READ", !.file = NULL].pc
          \notin Creating \cup Freeing
    BY <1>1 DEF Frames, Creating, Freeing
  <2>2. QED
    BY <1>3, <1>28, <2>1 DEF SetFileClose
<1>29. CASE ReadCheck(w)
  BY <1>4, <1>5, <1>29 DEF ReadCheck, Labels, Creating, Freeing
<1>30. CASE ReadLock(w)
  BY <1>4, <1>30 DEF ReadLock, Labels, Creating, Freeing
<1>31. CASE ReadSend(w)
  BY <1>5, <1>31 DEF ReadSend
<1>32. CASE RecvMessage(w)
  <2>1. [frame[w] EXCEPT !.pc = "find_in", !.op = "REWRITE", !.file = NULL].pc
          \notin Creating \cup Freeing
    BY <1>1 DEF Frames, Creating, Freeing
  <2>2. QED
    BY <1>3, <1>4, <1>5, <1>32, <2>1 DEF RecvMessage, Labels, Creating, Freeing
<1>33. CASE WriteMeta(w)
  BY <1>4, <1>33 DEF WriteMeta, Labels, Creating, Freeing
<1>34. CASE WriteFile(w)
  BY <1>5, <1>34 DEF WriteFile
<1>35. CASE CountFiles(w)
  <2>1. \A n : [frame[w] EXCEPT !.pc = "head", !.left = n].pc \notin Creating \cup Freeing
    BY <1>1 DEF Frames, Creating, Freeing
  <2>2. QED
    BY <1>3, <1>5, <1>35, <2>1 DEF CountFiles
<1>36. CASE GetHead(w)
  <2>1. [frame[w] EXCEPT !.pc = "sendn", !.file = Head(memory)].pc \notin Creating \cup Freeing
    BY <1>1 DEF Frames, Creating, Freeing
  <2>2. QED
    BY <1>3, <1>5, <1>36, <2>1 DEF GetHead
<1>37. CASE SendN(w)
  BY <1>4, <1>37 DEF SendN, Labels, Creating, Freeing
<1>38. CASE SendNNext(w)
  <2>1. \A f : [frame[w] EXCEPT !.pc = "sendn", !.file = f, !.left = @ - 1].pc
                 \notin Creating \cup Freeing
    BY <1>1 DEF Frames, Creating, Freeing
  <2>2. QED
    BY <1>3, <1>5, <1>38, <2>1 DEF SendNNext
<1>39. CASE RemoveInMem(w)
  <2>1. [frame[w] EXCEPT !.pc = "find_in", !.op = "POP"].pc \notin Creating \cup Freeing
    BY <1>1 DEF Frames, Creating, Freeing
  <2>2. QED
    BY <1>3, <1>39, <2>1 DEF RemoveInMem
<1>40. CASE RemovePop(w)
  <2>1. CASE memory = <<>>
    <3> DEFINE fr == [frame[w] EXCEPT !.pc = "remove_free"]
    <3>1. fr.pc = "remove_free" /\ fr.victim = frame[w].victim /\ frame[w].victim = NULL
      BY <1>1, <1>40 DEF Frames, RemovePop, At, FrameOK, Freeing
    <3>2. Own(fr) = {}
      BY <3>1, MemoryAssumption DEF Own, Creating
    <3>3. QED
      BY <1>2, <1>40, <2>1, <3>2, CreatedIsOwn DEF RemovePop, Go
  <2>2. CASE memory # <<>>
    <3> DEFINE fr == [frame[w] EXCEPT !.pc = "remove_free", !.victim = Head(memory)]
    <3>1. fr.pc = "remove_free" /\ fr.victim = Head(memory)
      BY <1>1 DEF Frames
    <3>2. Become(w, fr)
      BY <1>40, <2>2 DEF RemovePop
    <3>3. Head(memory) \in Listed
      BY <2>2, PoppedHeadList DEF Listed, IInv, TypeOK, OneOwner
    <3> HIDE DEF fr
    <3>4. Own(fr) \subseteq Listed /\ Created(fr) = {}
      BY <3>1, <3>3 DEF Own, Created, Creating
    <3>5. QED
      BY <1>2, <3>2, <3>4
  <2>3. QED
    BY <2>1, <2>2
<1>41. CASE RemoveFree(w)
  BY <1>5, <1>41 DEF RemoveFree
<1>42. CASE OutOfMemory(w) \/ SetOpenOnNull(w) \/ RemoveFails(w) \/ SendFails(w) \/ Crash(w)
            \/ ClosedJobFreed(w)
  BY <1>6, <1>42 DEF OutOfMemory, SetOpenOnNull, RemoveFails, SendFails, Crash, ClosedJobFreed, Exit
<1>44. QED
  BY <1>10, <1>11, <1>12, <1>13, <1>14, <1>15, <1>16, <1>17, <1>18, <1>19, <1>20, <1>21, <1>22,
     <1>23, <1>24, <1>25, <1>26, <1>27, <1>28, <1>29, <1>30, <1>31, <1>32, <1>33, <1>34, <1>35,
     <1>36, <1>37, <1>38, <1>39, <1>40, <1>41, <1>42, <1>43 DEF Step

-----------------------------------------------------------------------------
(* What one step of a worker does to the files of the store.               *)

\* Sections that link, unlink and free nothing and count no byte: at most a
\* lock, a flag or a place in the list changes, or an empty file is created.
KeepsFiles ==
  /\ Linked' = Linked
  /\ nCurrentMemoryUsed' = nCurrentMemoryUsed
  /\ \A f \in FileIds :
       IF Freed(f) THEN heap'[f] = NULL \/ heap'[f].usedMemory = 0
       ELSE heap'[f] # NULL /\ heap'[f].usedMemory = heap[f].usedMemory

\* add_file_to_memory links a file that was created and is in no list.
LinksFile(f) ==
  /\ Linked' = Linked \cup {f}
  /\ UNCHANGED <<heap, nCurrentMemoryUsed>>

\* A pop unlinks a file of the list and takes its bytes off the count.
PopsFile(f) ==
  /\ Linked' = Linked \ {f}
  /\ nCurrentMemoryUsed' = nCurrentMemoryUsed - heap[f].usedMemory
  /\ UNCHANGED heap

\* free_file gives a struct back that is in no list.
FreesFile(f) ==
  /\ Linked' = Linked
  /\ nCurrentMemoryUsed' = nCurrentMemoryUsed
  /\ Free(f)

\* write_to_file appends to a file, wherever that file is by then.
WritesFile(f, bytes) ==
  /\ Linked' = Linked
  /\ AppendBytes(f, bytes)

\* The sections of memory.c, by what they do to the files.
StepEffect(w) ==
  \/ KeepsFiles
  \/ \E f \in Created(frame[w]) : LinksFile(f)
  \/ \E f \in Listed : PopsFile(f)
  \/ \E f \in Own(frame[w]) \ Created(frame[w]) : FreesFile(f)
  \/ \E f \in FileIds \ Unused, bytes \in Nat : WritesFile(f, bytes)

\* Every section of every job has one of these effects.
LEMMA StepHasEffect ==
  ASSUME IInv, NEW w \in Workers, Step(w)
  PROVE  StepEffect(w)
<1>1. frame[w] \in Frames /\ FrameOK(frame[w]) /\ heap \in [FileIds -> FileMemory \cup {NULL}]
  BY FrameFacts DEF IInv, TypeOK
<1>2. ASSUME UNCHANGED <<lists, heap, counters>> PROVE KeepsFiles
  BY <1>1, <1>2 DEF KeepsFiles, Linked, Listed, Leaked, Freed, lists, counters
<1>3. ASSUME UNCHANGED storeVars PROVE StepEffect(w)
  BY <1>2, <1>3 DEF StepEffect, storeVars, lists, counters
<1>4. ASSUME NEW f \in FileIds \ Unused, NEW h \in FileMemory, h.usedMemory = heap[f].usedMemory,
             heap' = [heap EXCEPT ![f] = h], UNCHANGED <<lists, counters>>
      PROVE  StepEffect(w)
  <2>1. Linked' = Linked
    BY <1>4 DEF Linked, Listed, Leaked, lists
  <2>2. h # NULL
    BY MemoryAssumption
  <2>3. QED
    BY <1>1, <1>4, <2>1, <2>2 DEF StepEffect, KeepsFiles, Freed, Unused, counters
<1>5. ASSUME frame[w].pc \in Freeing, FreeVictim(w), UNCHANGED <<lists, counters>>
      PROVE  StepEffect(w)
  <2> DEFINE x == frame[w].victim
  <2>1. Linked' = Linked
    BY <1>5 DEF Linked, Listed, Leaked, lists
  <2>2. CASE x = NULL
    BY <1>2, <1>5, <2>2 DEF StepEffect, FreeVictim
  <2>3. CASE x # NULL
    <3>1. x \in FileIds /\ Free(x)
      BY <1>1, <1>5, <2>3 DEF Frames, Pointers, FreeVictim
    <3>2. x \in Own(frame[w]) \ Created(frame[w])
      BY <1>5, <3>1 DEF Own, Created, Creating, Freeing
    <3>3. FreesFile(x)
      BY <1>5, <2>1, <3>1 DEF FreesFile, counters
    <3>4. QED
      BY <3>2, <3>3 DEF StepEffect
  <2>4. QED
    BY <2>2, <2>3
<1>6. ASSUME memory # <<>>, PopTail, heap' = heap
      PROVE  StepEffect(w)
  <2>1. Oldest \in Listed /\ Listed' = Listed \ {Oldest} /\ Oldest \notin Leaked
    BY <1>6, PopTailFacts DEF Listed, IInv, OneOwner
  <2>2. Leaked' = Leaked
    BY <1>6 DEF PopTail, Leaked
  <2>3. Linked' = Linked \ {Oldest}
    BY <2>1, <2>2 DEF Linked
  <2>4. PopsFile(Oldest)
    BY <1>6, <2>3 DEF PopsFile, PopTail, Uncount
  <2>5. QED
    BY <2>1, <2>4 DEF StepEffect
<1>7. ASSUME NEW f \in Created(frame[w]), UNCHANGED <<heap, nCurrentMemoryUsed>>,
             Linked' = Linked \cup {f}
      PROVE  StepEffect(w)
  BY <1>7 DEF StepEffect, LinksFile
<1> SUFFICES StepEffect(w)
  OBVIOUS
<1> HIDE DEF StepEffect
<1>10. CASE AddCheck(w)
  <2>1. PICK f \in Unused : heap' = [heap EXCEPT ![f] = NewFile(frame[w].filename)]
    BY <1>10 DEF AddCheck, Allocate
  <2>2. NewFile(frame[w].filename).usedMemory = 0
    BY DEF NewFile
  <2>3. Linked' = Linked /\ nCurrentMemoryUsed' = nCurrentMemoryUsed
    BY <1>10 DEF AddCheck, Linked, Listed, Leaked, lists, counters
  <2>4. QED
    BY <1>1, <2>1, <2>2, <2>3 DEF StepEffect, KeepsFiles, Freed, Unused
<1>11. CASE FreeFile(w) BY <1>5, <1>11 DEF FreeFile, At, Freeing
<1>12. CASE FreeMemory(w) BY <1>5, <1>12 DEF FreeMemory, At, Freeing
<1>13. CASE RemoveFree(w) BY <1>5, <1>13 DEF RemoveFree, At, Freeing
<1>14. CASE SetFileOpen(w)
  <2>1. frame[w].file \in FileIds \ Unused
    BY <1>1, <1>14 DEF SetFileOpen, At, FollowsBadPointer, Frames, Pointers
  <2>2. heap[frame[w].file] \in FileMemory
    BY <1>1, <2>1 DEF Unused, Freed
  <2> DEFINE h == [heap[frame[w].file] EXCEPT !.isOpen = TRUE]
  <2>3. h \in FileMemory /\ h.usedMemory = heap[frame[w].file].usedMemory
    BY <2>2 DEF FileMemory
  <2>4. heap' = [heap EXCEPT ![frame[w].file] = h]
    BY <1>14 DEF SetFileOpen
  <2> HIDE DEF h
  <2>5. QED
    BY <1>4, <1>14, <2>1, <2>3, <2>4 DEF SetFileOpen
<1>15. CASE SetFileClose(w)
  <2>1. frame[w].file \in FileIds \ Unused
    BY <1>15 DEF SetFileClose, At, FollowsBadPointer, Dangling
  <2>2. heap[frame[w].file] \in FileMemory
    BY <1>1, <2>1 DEF Unused, Freed
  <2> DEFINE h == [heap[frame[w].file] EXCEPT !.isOpen = FALSE]
  <2>3. h \in FileMemory /\ h.usedMemory = heap[frame[w].file].usedMemory
    BY <2>2 DEF FileMemory
  <2>4. heap' = [heap EXCEPT ![frame[w].file] = h]
    BY <1>15 DEF SetFileClose
  <2> HIDE DEF h
  <2>5. QED
    BY <1>4, <1>15, <2>1, <2>3, <2>4 DEF SetFileClose
<1>16. CASE ReadLock(w)
  <2>1. frame[w].file \in FileIds \ Unused
    BY <1>16 DEF ReadLock, At, FollowsBadPointer, Dangling
  <2>2. heap[frame[w].file] \in FileMemory
    BY <1>1, <2>1 DEF Unused, Freed
  <2> DEFINE h == [heap[frame[w].file] EXCEPT !.lockFile = w]
  <2>3. h \in FileMemory /\ h.usedMemory = heap[frame[w].file].usedMemory
    BY <2>2 DEF FileMemory
  <2>4. heap' = [heap EXCEPT ![frame[w].file] = h]
    BY <1>16 DEF ReadLock
  <2> HIDE DEF h
  <2>5. QED
    BY <1>4, <1>16, <2>1, <2>3, <2>4 DEF ReadLock
<1>17. CASE ReadSend(w)
  <2>1. frame[w].file \in FileIds \ Unused
    BY <1>17 DEF ReadSend, At, IInv, SendsLocked
  <2>2. heap[frame[w].file] \in FileMemory
    BY <1>1, <2>1 DEF Unused, Freed
  <2> DEFINE h == [heap[frame[w].file] EXCEPT !.lockFile = NULL]
  <2>3. h \in FileMemory /\ h.usedMemory = heap[frame[w].file].usedMemory
    BY <2>2 DEF FileMemory
  <2>4. heap' = [heap EXCEPT ![frame[w].file] = h]
    BY <1>17 DEF ReadSend
  <2> HIDE DEF h
  <2>5. QED
    BY <1>4, <1>17, <2>1, <2>3, <2>4 DEF ReadSend
<1>18. CASE WriteFile(w)
  <2>1. frame[w].file \in FileIds \ Unused
    BY <1>18 DEF WriteFile, At, FollowsBadPointer, Dangling
  <2>2. frame[w].arg \in Nat
    BY <1>1 DEF Frames
  <2>3. Linked' = Linked
    BY <1>18 DEF WriteFile, Linked, Listed, Leaked, lists
  <2>4. QED
    BY <1>18, <2>1, <2>2, <2>3 DEF StepEffect, WritesFile, WriteFile
<1>19. CASE FindPolicy(w)
  <2>1. PICK i \in DOMAIN memory : memory' = MovedToFront(memory, i)
    BY <1>19 DEF FindPolicy, FirstMatch, Matches
  <2>2. Listed' = Listed
    BY <2>1, MovedList DEF IInv, TypeOK, OneOwner, Listed
  <2>3. Leaked' = Leaked
    BY <1>19 DEF FindPolicy, Leaked
  <2>4. Linked' = Linked /\ heap' = heap /\ nCurrentMemoryUsed' = nCurrentMemoryUsed
    BY <1>19, <2>2, <2>3 DEF FindPolicy, Linked, counters
  <2>5. QED
    BY <1>1, <2>4 DEF StepEffect, KeepsFiles, Freed
<1>20. CASE PopFile(w)
  <2>1. CASE memory = <<>>
    BY <1>2, <1>20, <2>1 DEF PopFile, StepEffect
  <2>2. CASE memory # <<>>
    BY <1>6, <1>20, <2>2 DEF PopFile
  <2>3. QED
    BY <2>1, <2>2
<1>21. CASE PopMemory(w)
  BY <1>6, <1>21 DEF PopMemory, At, FollowsBadPointer
<1>22. CASE RemovePop(w)
  <2>1. CASE memory = <<>>
    BY <1>2, <1>22, <2>1 DEF RemovePop, StepEffect
  <2>2. CASE memory # <<>>
    <3> DEFINE x == Head(memory)
    <3>1. PopHead /\ heap' = heap
      BY <1>22, <2>2 DEF RemovePop
    <3>2. x \in Listed /\ Listed' = Listed \ {x} /\ x \notin Leaked
      BY <2>2, <3>1, PoppedHeadList DEF PopHead, Listed, IInv, TypeOK, OneOwner
    <3>3. Leaked' = Leaked
      BY <3>1 DEF PopHead, Leaked
    <3>4. Linked' = Linked \ {x}
      BY <3>2, <3>3 DEF Linked
    <3>5. PopsFile(x)
      BY <3>1, <3>4 DEF PopsFile, PopHead, Uncount
    <3>6. QED
      BY <3>2, <3>5 DEF StepEffect
  <2>3. QED
    BY <2>1, <2>2
<1>23. CASE AddFirst(w)
  <2> DEFINE f == frame[w].file
  <2>1. f \in Created(frame[w])
    BY <1>1, <1>23 DEF AddFirst, At, FrameOK, Creating, Created
  <2>2. Linked' = Linked \cup {f}
    <3>1. Listed' = {f}
      BY <1>23, <2>1, SingleList DEF AddFirst, SetAsOnly, Listed, Created
    <3>2. Listed \subseteq FileIds
      BY LinkedFacts DEF Linked
    <3>3. Leaked' = Leaked \cup Listed
      <4>1. CASE memory = <<>>
        BY <1>23, <4>1 DEF AddFirst, SetAsOnly, Leaked, Listed, Range
      <4>2. CASE memory # <<>>
        BY <1>23, <3>2, <4>2 DEF AddFirst, SetAsOnly, Leaked, Listed
      <4>3. QED
        BY <4>1, <4>2
    <3>4. QED
      BY <3>1, <3>3 DEF Linked
  <2>3. QED
    BY <1>7, <1>23, <2>1, <2>2 DEF AddFirst, SetAsOnly
<1>24. CASE AddHead(w)
  <2> DEFINE f == frame[w].file
  <2>1. f \in Created(frame[w]) /\ f \in FileIds
    BY <1>1, <1>24 DEF AddHead, At, FrameOK, Creating, Created
  <2>2. Listed' = Listed \cup {f} /\ Leaked' = Leaked
    BY <1>24, <2>1, PushedList DEF AddHead, PushHead, Listed, Leaked, IInv, TypeOK
  <2>3. Linked' = Linked \cup {f}
    BY <2>2 DEF Linked
  <2>4. QED
    BY <1>7, <1>24, <2>1, <2>3 DEF AddHead, PushHead
<1>25. CASE IsActionLegal(w) BY <1>2, <1>25 DEF IsActionLegal, StepEffect
<1>26. CASE WriteMeta(w) BY <1>2, <1>26 DEF WriteMeta, StepEffect
<1>27. CASE TakeJob(w) \/ OpenInMem(w) \/ FindInMem(w) \/ FindScan(w) \/ PlanFiles(w)
            \/ PlanMemory(w) \/ MoreFiles(w) \/ SubtractPopped(w) \/ AddCount(w)
  BY <1>3, <1>27 DEF TakeJob, OpenInMem, FindInMem, FindScan, PlanFiles, PlanMemory, MoreFiles,
                     SubtractPopped, AddCount
<1>28. CASE ReadCheck(w) \/ RecvMessage(w) \/ CountFiles(w) \/ GetHead(w) \/ SendN(w)
            \/ SendNNext(w) \/ RemoveInMem(w)
  BY <1>3, <1>28 DEF ReadCheck, RecvMessage, CountFiles, GetHead, SendN, SendNNext, RemoveInMem
<1>29. CASE OutOfMemory(w) \/ SetOpenOnNull(w) \/ RemoveFails(w) \/ SendFails(w) \/ Crash(w)
            \/ ClosedJobFreed(w)
  BY <1>3, <1>29 DEF OutOfMemory, SetOpenOnNull, RemoveFails, SendFails, Crash, ClosedJobFreed,
                     Exit, End
<1>30. QED
  BY <1>10, <1>11, <1>12, <1>13, <1>14, <1>15, <1>16, <1>17, <1>18, <1>19, <1>20, <1>21, <1>22,
     <1>23, <1>24, <1>25, <1>26, <1>27, <1>28, <1>29 DEF Step

-----------------------------------------------------------------------------
(* Counting the bytes of some files.                                       *)

\* Places over any heap, the next one of a step included.
PlacesIn(h, S) == UNION {{f} \X (1..h[f].usedMemory) : f \in S}

\* The bytes of one file from one position to another.
LEMMA BytesOfOne ==
  ASSUME NEW x, NEW a \in Nat, NEW b \in Nat, a <= b + 1
  PROVE  IsFiniteSet({x} \X (a..b)) /\ Cardinality({x} \X (a..b)) = b - a + 1
<1>1. IsFiniteSet({x}) /\ Cardinality({x}) = 1
  BY FS_Singleton
<1>2. IsFiniteSet(a..b) /\ Cardinality(a..b) = IF a > b THEN 0 ELSE b - a + 1
  BY FS_Interval
<1>3. Cardinality(a..b) = b - a + 1
  BY <1>2
<1>4. /\ IsFiniteSet({x} \X (a..b))
      /\ Cardinality({x} \X (a..b)) = Cardinality({x}) * Cardinality(a..b)
  BY <1>1, <1>2, FS_Product
<1>5. Cardinality({x} \X (a..b)) = 1 * (b - a + 1)
  BY <1>1, <1>3, <1>4
<1>6. QED
  BY <1>4, <1>5

\* All the bytes of one file.
LEMMA BytesOfFile ==
  ASSUME NEW x, NEW n \in Nat
  PROVE  IsFiniteSet({x} \X (1..n)) /\ Cardinality({x} \X (1..n)) = n
<1>1. 1 \in Nat /\ 1 <= n + 1
  OBVIOUS
<1>2. IsFiniteSet({x} \X (1..n)) /\ Cardinality({x} \X (1..n)) = n - 1 + 1
  BY <1>1, BytesOfOne
<1>3. QED
  BY <1>2

\* Some files have finitely many bytes.
LEMMA PlacesFinite ==
  ASSUME NEW h, NEW S, IsFiniteSet(S), \A f \in S : h[f].usedMemory \in Nat
  PROVE  IsFiniteSet(PlacesIn(h, S))
<1> DEFINE of == [f \in S |-> {f} \X (1..h[f].usedMemory)]
           T  == {{f} \X (1..h[f].usedMemory) : f \in S}
<1>1. of \in Surjection(S, T)
  BY DEF Surjection
<1>2. IsFiniteSet(T)
  BY <1>1, FS_Surjection
<1>3. ASSUME NEW f \in S PROVE IsFiniteSet({f} \X (1..h[f].usedMemory))
  BY BytesOfFile
<1>4. QED
  BY <1>2, <1>3, FS_UNION DEF PlacesIn

\* Files that come in empty, or that were there with as many bytes, hold no
\* more bytes together.
LEMMA PlacesKept ==
  ASSUME NEW h, NEW S, IsFiniteSet(PlacesIn(h, S)), NEW g, NEW T,
         \A f \in T : \/ f \in S /\ g[f].usedMemory = h[f].usedMemory
                      \/ g[f].usedMemory = 0
  PROVE  Cardinality(PlacesIn(g, T)) <= Cardinality(PlacesIn(h, S))
<1>1. PlacesIn(g, T) \subseteq PlacesIn(h, S)
  <2> SUFFICES ASSUME NEW f \in T, NEW p \in {f} \X (1..g[f].usedMemory)
               PROVE  p \in PlacesIn(h, S)
    BY DEF PlacesIn
  <2>1. g[f].usedMemory # 0
    OBVIOUS
  <2>2. QED
    BY <2>1 DEF PlacesIn
<1>2. QED
  BY <1>1, FS_Subset

\* A file that leaves takes its bytes with it.
LEMMA PlacesDropped ==
  ASSUME NEW h, NEW S, NEW x \in S, IsFiniteSet(PlacesIn(h, S)), h[x].usedMemory \in Nat,
         NEW T, T \subseteq S \ {x}
  PROVE  Cardinality(PlacesIn(h, T)) <= Cardinality(PlacesIn(h, S)) - h[x].usedMemory
<1> DEFINE P == PlacesIn(h, S)
           D == {x} \X (1..h[x].usedMemory)
<1>1. IsFiniteSet(D) /\ Cardinality(D) = h[x].usedMemory
  BY BytesOfFile
<1>2. D \subseteq P
  BY DEF PlacesIn
<1>3. PlacesIn(h, T) \subseteq P \ D
  BY DEF PlacesIn
<1>4. IsFiniteSet(P \ D) /\ Cardinality(P \ D) = Cardinality(P) - Cardinality(P \cap D)
  BY FS_Difference
<1>5. P \cap D = D
  BY <1>2
<1>6. Cardinality(PlacesIn(h, T)) <= Cardinality(P \ D)
  BY <1>3, <1>4, FS_Subset
<1>7. QED
  BY <1>1, <1>4, <1>5, <1>6

\* Bytes appended to one file are all that is new.
LEMMA PlacesGrown ==
  ASSUME NEW h, NEW S, IsFiniteSet(PlacesIn(h, S)), NEW x, h[x].usedMemory \in Nat,
         NEW n \in Nat, NEW g, g[x].usedMemory = h[x].usedMemory + n,
         NEW T, T \subseteq S, \A f \in T \ {x} : g[f].usedMemory = h[f].usedMemory
  PROVE  Cardinality(PlacesIn(g, T)) <= Cardinality(PlacesIn(h, S)) + n
<1> DEFINE P == PlacesIn(h, S)
           u == h[x].usedMemory
           N == {x} \X ((u + 1)..(u + n))
<1>1. IsFiniteSet(N) /\ Cardinality(N) = n
  <2>1. u + 1 \in Nat /\ u + n \in Nat /\ u + 1 <= (u + n) + 1
    OBVIOUS
  <2>2. IsFiniteSet(N) /\ Cardinality(N) = (u + n) - (u + 1) + 1
    BY <2>1, BytesOfOne
  <2>3. QED
    BY <2>2
<1>2. PlacesIn(g, T) \subseteq P \cup N
  <2> SUFFICES ASSUME NEW f \in T, NEW k \in 1..g[f].usedMemory
               PROVE  <<f, k>> \in P \cup N
    BY DEF PlacesIn
  <2>1. CASE f = x /\ k > u
    BY <2>1
  <2>2. CASE f # x \/ k <= u
    <3>1. k \in 1..h[f].usedMemory
      BY <2>2
    <3>2. QED
      BY <3>1 DEF PlacesIn
  <2>3. QED
    BY <2>1, <2>2
<1>3. IsFiniteSet(P \cup N) /\ Cardinality(P \cup N) = Cardinality(P) + Cardinality(N) - Cardinality(P \cap N)
  BY <1>1, FS_Union
<1>4. Cardinality(P) \in Nat /\ Cardinality(P \cap N) \in Nat
  BY FS_Intersection, FS_CardinalityType
<1>5. Cardinality(PlacesIn(g, T)) <= Cardinality(P \cup N)
  BY <1>2, <1>3, FS_Subset
<1>6. Cardinality(PlacesIn(g, T)) \in Nat
  BY <1>2, <1>3, FS_Subset, FS_CardinalityType
<1>7. QED
  BY <1>1, <1>3, <1>4, <1>5, <1>6

-----------------------------------------------------------------------------
(* nCurrentMemoryUsed covers the bytes of the files.                       *)

\* The counted files are allocated.
CountedAllocated ==
  /\ Counted \subseteq FileIds
  /\ \A f \in Counted : heap[f] \in FileMemory

\* Every counted file is allocated: it is in the list, or a worker has just made it.
LEMMA CountedExist == IInv => CountedAllocated
<1> SUFFICES ASSUME IInv PROVE CountedAllocated
  OBVIOUS
<1>1. \A w \in Workers : Created(frame[w]) \subseteq Own(frame[w])
  BY CreatedIsOwn
<1>2. Counted \subseteq FileIds
  BY LinkedFacts DEF Counted, Created
<1>3. \A f \in Counted : heap[f] \in FileMemory
  BY <1>1, <1>2 DEF Counted, IInv, TypeOK, OneOwner, Freed
<1>4. QED
  BY <1>2, <1>3 DEF CountedAllocated

\* They hold finitely many bytes, in this state or the next one.
LEMMA CountedFinite ==
  ASSUME NEW h, NEW S, S \subseteq FileIds, \A f \in S : h[f] \in FileMemory
  PROVE  /\ \A f \in S : h[f].usedMemory \in Nat
         /\ IsFiniteSet(PlacesIn(h, S))
         /\ Cardinality(PlacesIn(h, S)) \in Nat
<1>1. \A f \in S : h[f].usedMemory \in Nat
  BY DEF FileMemory
<1>2. IsFiniteSet(S)
  BY MemoryAssumption, FS_Subset
<1>3. QED
  BY <1>1, <1>2, PlacesFinite, FS_CardinalityType

\* A step counts no file that was not counted, save one it creates just now.
LEMMA CountedMoves ==
  ASSUME IInv, NEW w \in Workers, Step(w), Linked' \subseteq Linked \cup Created(frame[w])
  PROVE  Counted' \subseteq Counted \cup Unused
<1>1. \A v \in Workers : Created(frame'[v]) \subseteq Created(frame[v]) \cup Unused
  BY OwnershipMoves, IdleOK, CreatedIsOwn
<1>2. Counted' = Linked' \cup UNION {Created(frame'[v]) : v \in Workers}
  BY DEF Counted, Created
<1>3. QED
  BY <1>1, <1>2 DEF Counted

\* The bound is kept, effect by effect.
LEMMA CountedStep ==
  ASSUME IInv, IInv', CountedCovered, NEW w \in Workers, Step(w)
  PROVE  CountedCovered'
<1> DEFINE P == PlacesIn(heap, Counted)
           Q == PlacesIn(heap', Counted')
<1>1. CountedAllocated /\ CountedAllocated'
  BY CountedExist, PTL
<1>2. /\ Counted' \subseteq FileIds
      /\ \A f \in Counted' : heap'[f] \in FileMemory
  BY <1>1 DEF CountedAllocated
<1>3. /\ \A f \in Counted : heap[f].usedMemory \in Nat
      /\ IsFiniteSet(P)
      /\ Cardinality(P) \in Nat
  BY <1>1, CountedFinite DEF CountedAllocated
<1>4. Cardinality(Q) \in Nat
  BY <1>2, CountedFinite
<1>5. nCurrentMemoryUsed \in Int /\ nCurrentMemoryUsed' \in Int
  BY DEF IInv, TypeOK
<1>6. nCurrentMemoryUsed >= Cardinality(P)
  BY DEF CountedCovered, Places, PlacesIn
<1> SUFFICES nCurrentMemoryUsed' >= Cardinality(Q)
  BY DEF CountedCovered, Places, PlacesIn
<1>7. \A f \in Counted : ~Freed(f)
  BY <1>1, MemoryAssumption DEF CountedAllocated, Freed
<1>8. Linked \subseteq Counted /\ Created(frame[w]) \subseteq Counted
  BY DEF Counted
<1>9. CASE KeepsFiles
  <2>1. Counted' \subseteq Counted \cup Unused
    BY <1>9, CountedMoves DEF KeepsFiles
  <2>2. \A f \in Counted' : \/ f \in Counted /\ heap'[f].usedMemory = heap[f].usedMemory
                            \/ heap'[f].usedMemory = 0
    BY <1>2, <1>7, <1>9, <2>1, MemoryAssumption DEF KeepsFiles, Unused
  <2>3. Cardinality(Q) <= Cardinality(P)
    BY <1>3, <2>2, PlacesKept
  <2>4. QED
    BY <1>3, <1>4, <1>5, <1>6, <1>9, <2>3 DEF KeepsFiles
<1>10. ASSUME NEW f \in Created(frame[w]), LinksFile(f)
       PROVE  nCurrentMemoryUsed' >= Cardinality(Q)
  <2>1. Counted' \subseteq Counted
    BY <1>1, <1>2, <1>7, <1>10, CountedMoves, MemoryAssumption DEF LinksFile, Unused, Freed
  <2>2. Cardinality(Q) <= Cardinality(P)
    BY <1>3, <1>10, <2>1, PlacesKept DEF LinksFile
  <2>3. QED
    BY <1>3, <1>4, <1>5, <1>6, <1>10, <2>2 DEF LinksFile
<1>11. ASSUME NEW f \in Listed, PopsFile(f)
       PROVE  nCurrentMemoryUsed' >= Cardinality(Q)
  <2>1. f \in Linked /\ f \in Counted
    BY <1>8 DEF Linked
  <2>2. \A v \in Workers : f \notin Created(frame'[v])
    <3>1. \A v \in Workers : f \notin Created(frame[v])
      BY <2>1, CreatedIsOwn DEF IInv, OneOwner
    <3>2. f \notin Unused
      BY <1>7, <2>1 DEF Unused
    <3>3. QED
      BY <3>1, <3>2, OwnershipMoves, IdleOK, CreatedIsOwn
  <2>3. Counted' \subseteq Counted \ {f}
    <3>1. Counted' \subseteq Counted \cup Unused
      BY <1>11, CountedMoves DEF PopsFile
    <3>2. Counted' \cap Unused = {}
      BY <1>2, <1>11, MemoryAssumption DEF PopsFile, Unused, Freed
    <3>3. Counted' = Linked' \cup UNION {Created(frame'[v]) : v \in Workers}
      BY DEF Counted, Created
    <3>4. f \notin Counted'
      BY <1>11, <2>2, <3>3 DEF PopsFile
    <3>5. QED
      BY <3>1, <3>2, <3>4
  <2>4. Cardinality(Q) <= Cardinality(P) - heap[f].usedMemory
    BY <1>3, <1>11, <2>1, <2>3, PlacesDropped DEF PopsFile
  <2>5. QED
    BY <1>3, <1>4, <1>5, <1>6, <1>11, <2>1, <2>4 DEF PopsFile
<1>12. ASSUME NEW f \in Own(frame[w]) \ Created(frame[w]), FreesFile(f)
       PROVE  nCurrentMemoryUsed' >= Cardinality(Q)
  <2>1. f \in FileIds /\ heap' = [heap EXCEPT ![f] = NULL]
    BY <1>12 DEF Own, FreesFile, Free
  <2>2. heap \in [FileIds -> FileMemory \cup {NULL}]
    BY DEF IInv, TypeOK
  <2>3. Counted' \subseteq Counted \cup Unused
    BY <1>12, CountedMoves DEF FreesFile
  <2>4. \A g \in Counted' : g # f /\ g \notin Unused
    BY <1>2, <2>1, <2>2, MemoryAssumption DEF Unused, Freed
  <2>5. \A g \in Counted' : g \in Counted /\ heap'[g].usedMemory = heap[g].usedMemory
    BY <1>2, <2>1, <2>2, <2>3, <2>4
  <2>6. Cardinality(Q) <= Cardinality(P)
    BY <1>3, <2>5, PlacesKept
  <2>7. QED
    BY <1>3, <1>4, <1>5, <1>6, <1>12, <2>6 DEF FreesFile
<1>13. ASSUME NEW f \in FileIds \ Unused, NEW bytes \in Nat, WritesFile(f, bytes)
       PROVE  nCurrentMemoryUsed' >= Cardinality(Q)
  <2>1. heap[f] \in FileMemory /\ heap[f].usedMemory \in Nat
    BY DEF IInv, TypeOK, Unused, Freed, FileMemory
  <2>2. /\ heap' = [heap EXCEPT ![f].usedMemory = @ + bytes]
        /\ nCurrentMemoryUsed' = nCurrentMemoryUsed + bytes
        /\ heap \in [FileIds -> FileMemory \cup {NULL}]
    BY <1>13 DEF WritesFile, AppendBytes, IInv, TypeOK
  <2>3. heap'[f].usedMemory = heap[f].usedMemory + bytes
    BY <2>1, <2>2 DEF FileMemory
  <2>4. \A g \in FileIds \ {f} : heap'[g] = heap[g]
    BY <2>2
  <2>5. Counted' \subseteq Counted \cup Unused
    BY <1>13, CountedMoves DEF WritesFile
  <2>6. Counted' \subseteq Counted
    BY <1>2, <2>4, <2>5, MemoryAssumption DEF Unused, Freed
  <2>7. Cardinality(Q) <= Cardinality(P) + bytes
    BY <1>2, <1>3, <2>1, <2>3, <2>4, <2>6, PlacesGrown
  <2>8. QED
    BY <1>3, <1>4, <1>5, <1>6, <2>2, <2>7
<1>14. QED
  BY <1>9, <1>10, <1>11, <1>12, <1>13, StepHasEffect DEF StepEffect

\* An empty store has no bytes to cover.
LEMMA CountedAtFirst == Init => CountedCovered
<1> SUFFICES ASSUME Init PROVE CountedCovered
  OBVIOUS
<1>1. Range(memory) = {}
  BY DEF Init, MemoryInit, Range
<1>2. Linked = {} /\ \A w \in Workers : Created(frame[w]) = {}
  BY <1>1, IdleOK, CreatedIsOwn DEF Init, MemoryInit, Linked, Listed, Leaked
<1>3. Places(Counted) = {}
  BY <1>2 DEF Counted, Places
<1>4. QED
  BY <1>3, FS_EmptySet DEF CountedCovered, Init, MemoryInit

\* The bound is kept by every step of the workers.
LEMMA CountedNext == ASSUME IInv, IInv', CountedCovered, [Next]_vars PROVE CountedCovered'
<1>1. CASE UNCHANGED vars
  BY <1>1 DEF vars, CountedCovered, Counted, Created, Places, Linked, Listed, Leaked
<1>2. CASE Ended
  BY <1>1, <1>2 DEF Ended
<1>3. QED
  BY <1>1, <1>2, CountedStep DEF Next

\* nCurrentMemoryUsed covers the bytes of every file that is linked or about to
\* be, whatever the workers interleave.
THEOREM CountedAlwaysCovered == Spec => []CountedCovered
<1>1. IInv /\ IInv' /\ CountedCovered /\ [Next]_vars => CountedCovered'
  BY CountedNext
<1>2. QED
  BY <1>1, CountedAtFirst, Invariant, PTL DEF Spec

\* The listed files are among those whose bytes are covered.
LEMMA CoversList == IInv /\ CountedCovered => BytesCovered
<1> SUFFICES ASSUME IInv, CountedCovered PROVE BytesCovered
  OBVIOUS
<1> DEFINE P == PlacesIn(heap, Counted)
           Q == PlacesIn(heap, Range(memory))
<1>1. CountedAllocated
  BY CountedExist
<1>2. IsFiniteSet(P) /\ Cardinality(P) \in Nat
  BY <1>1, CountedFinite DEF CountedAllocated
<1>3. Range(memory) \subseteq Counted
  BY DEF Counted, Linked, Listed
<1>4. Cardinality(Q) <= Cardinality(P)
  BY <1>2, <1>3, PlacesKept
<1>5. Cardinality(Q) \in Nat
  BY <1>1, <1>3, CountedFinite DEF CountedAllocated
<1>6. nCurrentMemoryUsed \in Int /\ nCurrentMemoryUsed >= Cardinality(P)
  BY DEF CountedCovered, Places, PlacesIn, IInv, TypeOK
<1>7. nCurrentMemoryUsed >= Cardinality(Q)
  BY <1>2, <1>4, <1>5, <1>6
<1>8. QED
  BY <1>7 DEF BytesCovered, Bytes, Places, PlacesIn

\* nCurrentMemoryUsed, a size_t, never wraps: what a pop takes off it is there,
\* for any number of workers and also when write_to_file follows a pointer to a
\* file that another worker popped, freed or created anew meanwhile.
THEOREM BytesAlwaysCovered == Spec => []BytesCovered
<1>1. IInv /\ CountedCovered => BytesCovered
  BY CoversList
<1>2. QED
  BY <1>1, Invariant, CountedAlwaysCovered, PTL

=============================================================================
