--------------------------- MODULE WorkersProofs ----------------------------
(***************************************************************************)
(* Proofs about Workers.tla, for every set of workers, names and addresses *)
(* and every limit of the configuration.                                   *)
(*                                                                         *)
(* IInv is inductive: one lemma per action of Step says that the action    *)
(* keeps it.  They rest on three lemmas about kinds of steps: FrameOnly    *)
(* (a frame moves and the store stays), FileStep (one struct changes), and *)
(* LinkStep, PopStep and FreeStep (a struct enters the list, leaves it, is *)
(* freed).  What the sections of memory.c do to the list itself is in      *)
(* MemoryProofs.tla.                                                       *)
(***************************************************************************)
EXTENDS Workers, MemoryProofs

\* A worker without a job owns nothing.
LEMMA IdleOK == Idle \in Frames /\ FrameOK(Idle) /\ Own(Idle) = {} /\ Idle.pc = "idle"
<1>1. Idle.pc = "idle" /\ Idle.op = NULL /\ Idle.victim = NULL
  BY DEF Idle, NewFrame
<1>2. NULL # "CREATE"
  BY WorkersAssumption DEF Phases, AllOps
<1>3. Idle \in Frames
  BY DEF Idle, NewFrame, Frames, Labels, Pointers
<1>4. FrameOK(Idle)
  BY <1>1, <1>2 DEF FrameOK, Creating
<1>5. Own(Idle) = {}
  BY <1>1 DEF Own, Creating, Freeing
<1>6. QED
  BY <1>1, <1>3, <1>4, <1>5

\* The empty store of initMemory, with every worker idle, satisfies IInv.
LEMMA InitInv == Init => IInv
<1> SUFFICES ASSUME Init PROVE IInv
  OBVIOUS
<1> USE MemoryAssumption DEF Init, MemoryInit
<1>1. Range(memory) = {} /\ IsInjective(memory) /\ Len(memory) = 0
  BY DEF Range, IsInjective
<1>2. Leaked = {} /\ Linked = {}
  BY <1>1 DEF Leaked, Linked, Listed
<1>3. \A w \in Workers : frame[w] = Idle
  OBVIOUS
<1>4. TypeOK
  BY IdleOK DEF TypeOK
<1>5. \A w \in Workers : FrameOK(frame[w]) /\ Own(frame[w]) = {}
  BY <1>3, IdleOK
<1>6. OneOwner
  BY <1>1, <1>2, <1>5 DEF OneOwner, Listed
<1>7. CountExact /\ CountCovers
  BY <1>1, <1>2, FS_EmptySet DEF CountExact, CountCovers
<1>8. SendsLocked
  BY <1>3, IdleOK DEF SendsLocked
<1>9. QED
  BY <1>4, <1>5, <1>6, <1>7, <1>8 DEF IInv

\* A step that changes one frame changes no other.
LEMMA OneFrame ==
  ASSUME TypeOK, \A v \in Workers : FrameOK(frame[v]),
         NEW w \in Workers, NEW fr \in Frames, FrameOK(fr),
         frame' = [frame EXCEPT ![w] = fr]
  PROVE  /\ frame' \in [Workers -> Frames]
         /\ \A v \in Workers : FrameOK(frame'[v])
         /\ frame'[w] = fr
         /\ \A v \in Workers \ {w} : frame'[v] = frame[v]
BY DEF TypeOK

\* A worker moves on and the store stays as it is: IInv is kept when the new
\* frame owns nothing the old one did not and does not begin a locked send.
LEMMA FrameOnly ==
  ASSUME IInv, NEW w \in Workers, NEW fr \in Frames, FrameOK(fr),
         Own(fr) \subseteq Own(frame[w]), fr.pc # "read_send",
         Become(w, fr),
         UNCHANGED <<lists, heap, counters, metadataLock, policy>>,
         MaxRecvFile' \in Nat, MaxUsedMemory' \in Int
  PROVE  IInv'
<1> USE DEF Become, lists, counters
<1>1. /\ frame' \in [Workers -> Frames]
      /\ \A v \in Workers : FrameOK(frame'[v])
      /\ frame'[w] = fr
      /\ \A v \in Workers \ {w} : frame'[v] = frame[v]
  BY OneFrame DEF IInv
<1>2. TypeOK'
  BY <1>1 DEF IInv, TypeOK
<1>3. Linked' = Linked /\ Leaked' = Leaked /\ Listed' = Listed
  BY DEF Linked, Leaked, Listed
<1>4. \A v \in Workers : Own(frame'[v]) \subseteq Own(frame[v])
  BY <1>1
<1>5. OneOwner'
  BY <1>3, <1>4 DEF IInv, OneOwner, Freed
<1>6. CountCovers' /\ CountExact'
  BY <1>3 DEF IInv, CountCovers, CountExact
<1>7. SendsLocked'
  BY <1>1 DEF IInv, SendsLocked, Unused, Freed
<1>8. QED
  BY <1>1, <1>2, <1>5, <1>6, <1>7 DEF IInv

-----------------------------------------------------------------------------
(* Steps that only move a frame.                                           *)

\* IInv types the frame of every worker.
LEMMA FrameFacts ==
  ASSUME IInv, NEW w \in Workers
  PROVE  /\ frame[w] \in Frames
         /\ FrameOK(frame[w])
BY DEF IInv, TypeOK

\* A jump to another label with the same locals, as after a section of
\* memory.c that only reads.
LEMMA GoStep ==
  ASSUME IInv, NEW w \in Workers, NEW label \in Labels \ (Creating \cup Freeing \cup {"read_send"}),
         frame[w].pc \notin Freeing,
         label \in {"find_in", "find_scan", "find_policy"}
           => frame[w].op \in Writing \cup {"OPEN", "CLOSE", "READ", "REWRITE", "REMOVE", "POP"},
         label = "add_check" => frame[w].op = "CREATE",
         Go(w, label),
         UNCHANGED <<lists, heap, counters, metadataLock, policy>>,
         MaxRecvFile' \in Nat, MaxUsedMemory' \in Int
  PROVE  IInv'
<1> DEFINE fr == [frame[w] EXCEPT !.pc = label]
<1>1. fr \in Frames
  BY FrameFacts DEF Frames
<1>2. FrameOK(fr)
  BY FrameFacts DEF Frames, FrameOK, Creating, Freeing
<1>3. Own(fr) = {} /\ fr.pc # "read_send"
  BY FrameFacts DEF Own, Frames, Creating, Freeing
<1>4. QED
  BY <1>1, <1>2, <1>3, FrameOnly DEF Go

\* A job ends and its locals go: the continue of the switch in worker_thread.
LEMMA DoneStep ==
  ASSUME IInv, NEW w \in Workers, Done(w),
         UNCHANGED <<lists, heap, counters, metadataLock, policy>>,
         MaxRecvFile' \in Nat, MaxUsedMemory' \in Int
  PROVE  IInv'
BY IdleOK, FrameOnly DEF Done

\* The frame of a job that was just taken from the work list.
LEMMA NewFrameOK ==
  ASSUME NEW op \in AllOps, NEW n \in Names \cup {NULL}, op # "READN" => n \in Names, NEW k \in Nat,
         NEW label \in {"in_mem", "count", "find_in"},
         label = "find_in" => op \notin {"CREATE", "READN"}
  PROVE  LET fr == NewFrame(label, op, n, k)
         IN  fr \in Frames /\ FrameOK(fr) /\ Own(fr) = {} /\ fr.pc # "read_send"
<1> DEFINE fr == NewFrame(label, op, n, k)
<1>1. label \in Labels /\ op \in Phases
  BY DEF Labels, Phases
<1>2. fr \in Frames
  BY <1>1 DEF NewFrame, Frames, Pointers
<1>3. FrameOK(fr)
  BY DEF NewFrame, FrameOK, Creating, Freeing, AllOps, Writing
<1>4. Own(fr) = {} /\ fr.pc # "read_send"
  BY DEF NewFrame, Own, Creating, Freeing
<1>5. QED
  BY <1>2, <1>3, <1>4

\* pop_element_from_tail and the dispatch of worker_thread.
LEMMA TakeJobStep ==
  ASSUME IInv, NEW w \in Workers, TakeJob(w)
  PROVE  IInv'
<1>1. PICK op \in Ops : \E n \in NamesOf(op), k \in ArgsOf(op) :
        Become(w, NewFrame(FirstLabel(op), op, n, k))
  BY DEF TakeJob
<1>2. PICK n \in NamesOf(op), k \in ArgsOf(op) :
        Become(w, NewFrame(FirstLabel(op), op, n, k))
  BY <1>1
<1>3. /\ op \in AllOps
      /\ k \in Nat
      /\ n \in Names \cup {NULL}
      /\ op # "READN" => n \in Names
  BY WorkersAssumption DEF ArgsOf, NamesOf, Writing
<1>4. /\ FirstLabel(op) \in {"in_mem", "count", "find_in"}
      /\ FirstLabel(op) = "find_in" => op \notin {"CREATE", "READN"}
  BY DEF FirstLabel
<1>5. QED
  BY <1>2, <1>3, <1>4, NewFrameOK, FrameOnly DEF TakeJob, storeVars, lists, counters, IInv, TypeOK

\* The call of inMem in the OPEN_FILE case.
LEMMA OpenInMemStep ==
  ASSUME IInv, NEW w \in Workers, OpenInMem(w)
  PROVE  IInv'
<1>1. /\ frame[w].pc = "in_mem"
      /\ MaxRecvFile' \in Nat /\ MaxUsedMemory' \in Int
      /\ UNCHANGED <<lists, heap, counters, metadataLock, policy>>
  BY DEF OpenInMem, At, storeVars, lists, counters, IInv, TypeOK
<1>2. CASE frame[w].op = "CREATE" /\ Go(w, "legal")
  BY <1>1, <1>2, GoStep DEF Labels, Creating, Freeing
<1>3. CASE frame[w].op = "OPEN" /\ Go(w, "find_in")
  BY <1>1, <1>3, GoStep DEF Labels, Creating, Freeing, Writing
<1>4. CASE Done(w)
  BY <1>1, <1>4, DoneStep
<1>5. QED
  BY <1>2, <1>3, <1>4 DEF OpenInMem

\* find_file returns, without or after a move in the list: the frame that
\* FindReturns leaves is a frame that owns nothing.
FoundFrame(fr, f) ==
  LET next == [fr EXCEPT !.cursor = NULL, !.pc = AfterFind(fr.op)]
  IN  IF fr.op = "POP" THEN next
      ELSE IF f = NULL /\ fr.op # "OPEN" THEN Idle
      ELSE [next EXCEPT !.file = f]

\* The frame find_file returns into, whoever called it.
LEMMA FindReturnsFrame ==
  ASSUME IInv, NEW w \in Workers, NEW f \in Pointers,
         frame[w].pc \in {"find_in", "find_scan", "find_policy"},
         FindReturns(w, f)
  PROVE  LET fr == FoundFrame(frame[w], f)
         IN  /\ Become(w, fr)
             /\ fr \in Frames
             /\ FrameOK(fr)
             /\ Own(fr) = {}
             /\ fr.pc # "read_send"
<1>1. frame[w] \in Frames /\ FrameOK(frame[w])
  BY FrameFacts
<1>2. AfterFind(frame[w].op) \in {"set_open", "set_close", "read_check", "legal",
                                  "write_meta", "remove_in", "remove_pop"}
  BY <1>1 DEF FrameOK, AfterFind, Writing
<1>3. AfterFind(frame[w].op) \in Labels
  BY <1>2 DEF Labels
<1>4. FoundFrame(frame[w], f) \in Frames
  <2>1. [frame[w] EXCEPT !.cursor = NULL, !.pc = AfterFind(frame[w].op)] \in Frames
    BY <1>1, <1>3 DEF Frames, Pointers
  <2>2. [frame[w] EXCEPT !.cursor = NULL, !.pc = AfterFind(frame[w].op), !.file = f] \in Frames
    BY <1>1, <1>3 DEF Frames, Pointers
  <2>3. QED
    BY <2>1, <2>2, IdleOK DEF FoundFrame
<1>5. FrameOK(FoundFrame(frame[w], f))
  BY <1>1, <1>2, IdleOK DEF FoundFrame, FrameOK, Frames, Creating, Freeing
<1>6. Own(FoundFrame(frame[w], f)) = {} /\ FoundFrame(frame[w], f).pc # "read_send"
  BY <1>1, <1>2, IdleOK DEF FoundFrame, Own, Frames, Creating, Freeing
<1>7. Become(w, FoundFrame(frame[w], f))
  BY <1>1 DEF FindReturns, FoundFrame, Done, Frames
<1>8. QED
  BY <1>4, <1>5, <1>6, <1>7

\* The call of inMem that begins find_file.
LEMMA FindInMemStep ==
  ASSUME IInv, NEW w \in Workers, FindInMem(w)
  PROVE  IInv'
<1>1. /\ frame[w].pc = "find_in"
      /\ MaxRecvFile' \in Nat /\ MaxUsedMemory' \in Int
      /\ UNCHANGED <<lists, heap, counters, metadataLock, policy>>
  BY DEF FindInMem, At, storeVars, lists, counters, IInv, TypeOK
<1>2. CASE Go(w, "find_scan")
  BY <1>1, <1>2, GoStep, FrameFacts DEF Labels, Creating, Freeing, FrameOK
<1>3. CASE FindReturns(w, NULL)
  BY <1>1, <1>3, FindReturnsFrame, FrameOnly DEF Pointers
<1>4. QED
  BY <1>2, <1>3 DEF FindInMem

\* The walk of find_file for the name.
LEMMA FindScanStep ==
  ASSUME IInv, NEW w \in Workers, FindScan(w)
  PROVE  IInv'
<1>1. /\ frame[w].pc = "find_scan"
      /\ MaxRecvFile' \in Nat /\ MaxUsedMemory' \in Int
      /\ UNCHANGED <<lists, heap, counters, metadataLock, policy>>
  BY DEF FindScan, At, storeVars, lists, counters, IInv, TypeOK
<1>2. \A i \in DOMAIN memory : memory[i] \in FileIds
  BY LenProperties DEF IInv, TypeOK
<1>3. CASE FindReturns(w, NULL)
  BY <1>1, <1>3, FindReturnsFrame, FrameOnly DEF Pointers
<1>4. ASSUME NEW i \in DOMAIN memory, FindReturns(w, memory[i])
      PROVE  IInv'
  BY <1>1, <1>2, <1>4, FindReturnsFrame, FrameOnly DEF Pointers
<1>5. ASSUME NEW i \in DOMAIN memory,
             Become(w, [frame[w] EXCEPT !.pc = "find_policy", !.cursor = memory[i]])
      PROVE  IInv'
  <2> DEFINE fr == [frame[w] EXCEPT !.pc = "find_policy", !.cursor = memory[i]]
  <2>1. frame[w] \in Frames /\ FrameOK(frame[w])
    BY FrameFacts
  <2>2. fr \in Frames
    BY <1>2, <2>1 DEF Frames, Pointers, Labels
  <2>3. FrameOK(fr) /\ Own(fr) = {} /\ fr.pc # "read_send"
    BY <1>1, <2>1 DEF Frames, FrameOK, Own, Creating, Freeing
  <2>4. QED
    BY <1>1, <1>5, <2>2, <2>3, FrameOnly
<1>6. QED
  BY <1>3, <1>4, <1>5 DEF FindScan, FirstMatch, Matches

\* cache_algorithm returns, from any of its sections that own no file.
LEMMA AfterCacheFrame ==
  ASSUME NEW fr \in Frames, FrameOK(fr)
  PROVE  /\ AfterCache(fr) \in Frames
         /\ FrameOK(AfterCache(fr))
         /\ Own(AfterCache(fr)) = {}
         /\ AfterCache(fr).pc # "read_send"
<1> DEFINE label == IF fr.op = "CREATE" THEN "add_check" ELSE "recv"
<1>1. label \in Labels
  BY DEF Labels
<1>2. AfterCache(fr) \in Frames
  <2>1. AfterCache(fr) = [fr EXCEPT !.pc = label, !.left = 0, !.victim = NULL]
    BY DEF AfterCache
  <2>2. NULL \in Pointers /\ 0 \in Int
    BY DEF Pointers
  <2> HIDE DEF label
  <2>3. QED
    BY <1>1, <2>1, <2>2 DEF Frames
<1>3. FrameOK(AfterCache(fr))
  <2>1. /\ AfterCache(fr).pc = label
        /\ AfterCache(fr).op = fr.op
        /\ AfterCache(fr).filename = fr.filename
        /\ AfterCache(fr).victim = NULL
    BY DEF AfterCache, Frames
  <2>2. QED
    BY <2>1 DEF FrameOK, Creating
<1>4. Own(AfterCache(fr)) = {} /\ AfterCache(fr).pc # "read_send"
  BY DEF AfterCache, Own, Frames, Creating, Freeing
<1>5. QED
  BY <1>2, <1>3, <1>4

\* cache_algorithm returns and touches nothing of the store as it does.
LEMMA CacheDoneStep ==
  ASSUME IInv, NEW w \in Workers, CacheDone(w),
         UNCHANGED <<lists, heap, counters, metadataLock, policy>>,
         MaxRecvFile' \in Nat, MaxUsedMemory' \in Int
  PROVE  IInv'
BY FrameFacts, AfterCacheFrame, FrameOnly DEF CacheDone

\* is_action_legal only records the peaks.
LEMMA IsActionLegalStep ==
  ASSUME IInv, NEW w \in Workers, IsActionLegal(w)
  PROVE  IInv'
<1>1. /\ frame[w].pc = "legal"
      /\ UNCHANGED <<lists, heap, counters, metadataLock, policy>>
  BY DEF IsActionLegal, At
<1>2. CASE RecordPeaks(NewFiles(w), NewBytes(w)) /\ CacheDone(w)
  <2>1. NewFiles(w) \in Nat /\ NewBytes(w) \in Nat
    BY FrameFacts DEF NewFiles, NewBytes, Frames
  <2>2. MaxRecvFile' \in Nat /\ MaxUsedMemory' \in Int
    BY <1>2, <2>1 DEF RecordPeaks, IInv, TypeOK
  <2>3. QED
    BY <1>1, <1>2, <2>2, CacheDoneStep
<1>3. CASE Go(w, "plan") /\ UNCHANGED peaks
  <2>1. MaxRecvFile' \in Nat /\ MaxUsedMemory' \in Int
    BY <1>3 DEF peaks, IInv, TypeOK
  <2>2. QED
    BY <1>1, <1>3, <2>1, GoStep DEF Labels, Creating, Freeing
<1>4. QED
  BY <1>2, <1>3 DEF IsActionLegal

\* The frame of an eviction loop that is about to pop, or of a READN about to
\* send: a new count of what is left.
LEMMA CountedFrame ==
  ASSUME NEW fr \in Frames, FrameOK(fr), fr.pc \notin Freeing, NEW n \in Int,
         NEW f \in Pointers,
         NEW label \in {"pop_file", "more", "head", "sendn"}
  PROVE  LET next == [fr EXCEPT !.pc = label, !.left = n, !.file = f]
             same == [fr EXCEPT !.pc = label, !.left = n]
         IN  /\ next \in Frames /\ FrameOK(next) /\ Own(next) = {} /\ next.pc # "read_send"
             /\ same \in Frames /\ FrameOK(same) /\ Own(same) = {} /\ same.pc # "read_send"
<1>1. label \in Labels
  BY DEF Labels
<1>2. /\ [fr EXCEPT !.pc = label, !.left = n, !.file = f] \in Frames
      /\ [fr EXCEPT !.pc = label, !.left = n] \in Frames
  BY <1>1 DEF Frames
<1>3. /\ FrameOK([fr EXCEPT !.pc = label, !.left = n, !.file = f])
      /\ FrameOK([fr EXCEPT !.pc = label, !.left = n])
  BY DEF FrameOK, Frames, Creating, Freeing
<1>4. /\ Own([fr EXCEPT !.pc = label, !.left = n, !.file = f]) = {}
      /\ Own([fr EXCEPT !.pc = label, !.left = n]) = {}
  BY DEF Own, Frames, Creating, Freeing
<1>5. QED
  BY <1>2, <1>3, <1>4 DEF Frames

\* cache_algorithm fixes how many files to evict.
LEMMA PlanFilesStep ==
  ASSUME IInv, NEW w \in Workers, PlanFiles(w)
  PROVE  IInv'
<1> DEFINE excess == nCurrentFile + NewFiles(w) - MaxFiles
<1>1. /\ frame[w].pc = "plan" /\ frame[w].pc \notin Freeing
      /\ MaxRecvFile' \in Nat /\ MaxUsedMemory' \in Int
      /\ UNCHANGED <<lists, heap, counters, metadataLock, policy>>
  BY DEF PlanFiles, At, storeVars, lists, counters, IInv, TypeOK, Freeing
<1>2. CASE CacheDone(w)
  BY <1>1, <1>2, CacheDoneStep
<1>3. CASE Done(w)
  BY <1>1, <1>3, DoneStep
<1>4. CASE Go(w, "plan_memory")
  BY <1>1, <1>4, GoStep DEF Labels, Creating, Freeing
<1>5. CASE Become(w, [frame[w] EXCEPT !.pc = "pop_file", !.left = excess])
  <2>1. excess \in Int
    BY MemoryAssumption DEF NewFiles, IInv, TypeOK
  <2> HIDE DEF excess
  <2>2. frame[w].file \in Pointers
    BY FrameFacts DEF Frames
  <2>3. QED
    BY <1>1, <1>5, <2>1, <2>2, FrameFacts, CountedFrame, FrameOnly
<1>6. QED
  BY <1>2, <1>3, <1>4, <1>5 DEF PlanFiles

\* cache_algorithm fixes how many bytes to evict.
LEMMA PlanMemoryStep ==
  ASSUME IInv, NEW w \in Workers, PlanMemory(w)
  PROVE  IInv'
<1> DEFINE excess == nCurrentMemoryUsed + NewBytes(w) - MaxMemory
<1>1. /\ frame[w].pc = "plan_memory" /\ frame[w].pc \notin Freeing
      /\ MaxRecvFile' \in Nat /\ MaxUsedMemory' \in Int
      /\ UNCHANGED <<lists, heap, counters, metadataLock, policy>>
  BY DEF PlanMemory, At, storeVars, lists, counters, IInv, TypeOK, Freeing
<1>2. CASE CacheDone(w)
  BY <1>1, <1>2, CacheDoneStep
<1>3. CASE Become(w, [frame[w] EXCEPT !.pc = "more", !.left = excess])
  <2>1. excess \in Int
    BY MemoryAssumption, FrameFacts DEF NewBytes, IInv, TypeOK, Frames
  <2> HIDE DEF excess
  <2>2. frame[w].file \in Pointers
    BY FrameFacts DEF Frames
  <2>3. QED
    BY <1>1, <1>3, <2>1, <2>2, FrameFacts, CountedFrame, FrameOnly
<1>4. QED
  BY <1>2, <1>3 DEF PlanMemory

\* get_actual_files in the condition of the second eviction loop.
LEMMA MoreFilesStep ==
  ASSUME IInv, NEW w \in Workers, MoreFiles(w)
  PROVE  IInv'
<1>1. /\ frame[w].pc = "more"
      /\ MaxRecvFile' \in Nat /\ MaxUsedMemory' \in Int
      /\ UNCHANGED <<lists, heap, counters, metadataLock, policy>>
  BY DEF MoreFiles, At, storeVars, lists, counters, IInv, TypeOK
<1>2. CASE Go(w, "pop_memory")
  BY <1>1, <1>2, GoStep DEF Labels, Creating, Freeing
<1>3. CASE CacheDone(w)
  BY <1>1, <1>3, CacheDoneStep
<1>4. QED
  BY <1>2, <1>3 DEF MoreFiles

\* get_actual_files in add_file_to_memory: the file that is not linked yet
\* stays the worker's own.
LEMMA AddCountStep ==
  ASSUME IInv, NEW w \in Workers, AddCount(w)
  PROVE  IInv'
<1>1. /\ frame[w].pc = "add_count" /\ frame[w].pc \notin Freeing
      /\ MaxRecvFile' \in Nat /\ MaxUsedMemory' \in Int
      /\ UNCHANGED <<lists, heap, counters, metadataLock, policy>>
  BY DEF AddCount, At, storeVars, lists, counters, IInv, TypeOK, Freeing
<1>2. ASSUME NEW label \in {"add_first", "add_head"}, Go(w, label)
      PROVE  IInv'
  <2> DEFINE fr == [frame[w] EXCEPT !.pc = label]
  <2>1. frame[w] \in Frames /\ FrameOK(frame[w])
    BY FrameFacts
  <2>2. label \in Labels
    BY DEF Labels
  <2>3. fr \in Frames
    BY <2>1, <2>2 DEF Frames
  <2>4. FrameOK(fr)
    BY <1>1, <2>1 DEF Frames, FrameOK, Creating, Freeing
  <2>5. Own(fr) \subseteq Own(frame[w]) /\ fr.pc # "read_send"
    BY <1>1, <2>1 DEF Frames, Own, Creating, Freeing
  <2>6. QED
    BY <1>1, <1>2, <2>3, <2>4, <2>5, FrameOnly DEF Go
<1>3. QED
  BY <1>2 DEF AddCount

\* READ_FILE reads isOpen.
LEMMA ReadCheckStep ==
  ASSUME IInv, NEW w \in Workers, ReadCheck(w)
  PROVE  IInv'
<1>1. /\ frame[w].pc = "read_check" /\ frame[w].pc \notin Freeing
      /\ MaxRecvFile' \in Nat /\ MaxUsedMemory' \in Int
      /\ UNCHANGED <<lists, heap, counters, metadataLock, policy>>
  BY DEF ReadCheck, At, storeVars, lists, counters, IInv, TypeOK, Freeing
<1>2. CASE Go(w, "read_lock")
  BY <1>1, <1>2, GoStep DEF Labels, Creating, Freeing
<1>3. CASE Done(w)
  BY <1>1, <1>3, DoneStep
<1>4. QED
  BY <1>2, <1>3 DEF ReadCheck

\* A second lookup for the same job: of WRITE_FILE, and of remove_generic_file.
LEMMA SecondLookupFrame ==
  ASSUME NEW fr \in Frames, FrameOK(fr), fr.pc \notin Freeing,
         NEW op \in {"REWRITE", "POP"}, NEW f \in Pointers
  PROVE  LET next == [fr EXCEPT !.pc = "find_in", !.op = op, !.file = f]
         IN  next \in Frames /\ FrameOK(next) /\ Own(next) = {} /\ next.pc # "read_send"
<1> DEFINE next == [fr EXCEPT !.pc = "find_in", !.op = op, !.file = f]
<1>1. "find_in" \in Labels /\ op \in Phases \cup {NULL}
  BY DEF Labels, Phases
<1>2. next \in Frames
  BY <1>1 DEF Frames
<1>3. fr.victim = NULL
  BY DEF FrameOK
<1>4. /\ next.pc = "find_in"
      /\ next.op = op
      /\ next.victim = fr.victim
  BY DEF Frames
<1>5. Own(next) = {}
  BY <1>4 DEF Own, Creating, Freeing
<1> HIDE DEF next
<1>6. FrameOK(next)
  BY <1>3, <1>4 DEF FrameOK, Creating
<1>7. QED
  BY <1>2, <1>4, <1>5, <1>6 DEF next

\* The data of a write arrives, or does not.
LEMMA RecvMessageStep ==
  ASSUME IInv, NEW w \in Workers, RecvMessage(w)
  PROVE  IInv'
<1>1. /\ frame[w].pc = "recv" /\ frame[w].pc \notin Freeing
      /\ MaxRecvFile' \in Nat /\ MaxUsedMemory' \in Int
      /\ UNCHANGED <<lists, heap, counters, metadataLock, policy>>
  BY DEF RecvMessage, At, storeVars, lists, counters, IInv, TypeOK, Freeing
<1>2. CASE Done(w)
  BY <1>1, <1>2, DoneStep
<1>3. CASE frame[w].op = "WRITE"
           /\ Become(w, [frame[w] EXCEPT !.pc = "find_in", !.op = "REWRITE", !.file = NULL])
  <2>1. NULL \in Pointers
    BY DEF Pointers
  <2>2. QED
    BY <1>1, <1>3, <2>1, FrameFacts, SecondLookupFrame, FrameOnly
<1>4. CASE Go(w, "write_meta")
  BY <1>1, <1>4, GoStep DEF Labels, Creating, Freeing
<1>5. QED
  BY <1>2, <1>3, <1>4 DEF RecvMessage

\* READN_FILE fixes how many files it sends.
LEMMA CountFilesStep ==
  ASSUME IInv, NEW w \in Workers, CountFiles(w)
  PROVE  IInv'
<1>1. /\ frame[w].pc = "count" /\ frame[w].pc \notin Freeing
      /\ MaxRecvFile' \in Nat /\ MaxUsedMemory' \in Int
      /\ UNCHANGED <<lists, heap, counters, metadataLock, policy>>
  BY DEF CountFiles, At, storeVars, lists, counters, IInv, TypeOK, Freeing
<1>2. CASE Done(w)
  BY <1>1, <1>2, DoneStep
<1>3. ASSUME NEW n \in Int, Become(w, [frame[w] EXCEPT !.pc = "head", !.left = n])
      PROVE  IInv'
  <2>1. frame[w].file \in Pointers
    BY FrameFacts DEF Frames
  <2>2. QED
    BY <1>1, <1>3, <2>1, FrameFacts, CountedFrame, FrameOnly
<1>4. nCurrentFile \in Int /\ frame[w].arg \in Int
  BY FrameFacts DEF Frames, IInv, TypeOK
<1>5. QED
  BY <1>2, <1>3, <1>4 DEF CountFiles

\* READN holds a file of the list or none.
LEMMA ReadnFrame ==
  ASSUME NEW fr \in Frames, FrameOK(fr), fr.pc \notin Freeing, NEW f \in Pointers
  PROVE  LET next == [fr EXCEPT !.pc = "sendn", !.file = f]
         IN  next \in Frames /\ FrameOK(next) /\ Own(next) = {} /\ next.pc # "read_send"
<1> DEFINE next == [fr EXCEPT !.pc = "sendn", !.file = f]
<1>1. "sendn" \in Labels
  BY DEF Labels
<1>2. next \in Frames
  BY <1>1 DEF Frames
<1>3. FrameOK(next)
  BY DEF Frames, FrameOK, Creating, Freeing
<1>4. Own(next) = {} /\ next.pc # "read_send"
  BY DEF Frames, Own, Creating, Freeing
<1>5. QED
  BY <1>2, <1>3, <1>4

\* get_head, for READN_FILE.
LEMMA GetHeadStep ==
  ASSUME IInv, NEW w \in Workers, GetHead(w)
  PROVE  IInv'
<1>1. /\ frame[w].pc = "head" /\ frame[w].pc \notin Freeing
      /\ MaxRecvFile' \in Nat /\ MaxUsedMemory' \in Int
      /\ UNCHANGED <<lists, heap, counters, metadataLock, policy>>
  BY DEF GetHead, At, storeVars, lists, counters, IInv, TypeOK, Freeing
<1>2. CASE Done(w)
  BY <1>1, <1>2, DoneStep
<1>3. CASE memory # <<>> /\ Become(w, [frame[w] EXCEPT !.pc = "sendn", !.file = Head(memory)])
  <2>1. Head(memory) \in Pointers
    BY <1>3, HeadTailProperties DEF IInv, TypeOK, Pointers
  <2>2. QED
    BY <1>1, <1>3, <2>1, FrameFacts, ReadnFrame, FrameOnly
<1>4. QED
  BY <1>2, <1>3 DEF GetHead

\* READN_FILE starts to send a file, without its mutex.
LEMMA SendNStep ==
  ASSUME IInv, NEW w \in Workers, SendN(w)
  PROVE  IInv'
<1>1. /\ frame[w].pc = "sendn" /\ frame[w].pc \notin Freeing
      /\ MaxRecvFile' \in Nat /\ MaxUsedMemory' \in Int
      /\ UNCHANGED <<lists, heap, counters, metadataLock, policy>>
  BY DEF SendN, At, storeVars, lists, counters, IInv, TypeOK, Freeing
<1>2. QED
  BY <1>1, GoStep DEF SendN, Labels, Creating, Freeing

\* next, for READN_FILE, in the list or in one that was lost.
LEMMA SendNNextStep ==
  ASSUME IInv, NEW w \in Workers, SendNNext(w)
  PROVE  IInv'
<1>1. /\ frame[w].pc = "sendn_next" /\ frame[w].pc \notin Freeing
      /\ MaxRecvFile' \in Nat /\ MaxUsedMemory' \in Int
      /\ UNCHANGED <<lists, heap, counters, metadataLock, policy>>
  BY DEF SendNNext, At, storeVars, lists, counters, IInv, TypeOK, Freeing
<1>2. CASE Done(w)
  BY <1>1, <1>2, DoneStep
<1>3. ASSUME NEW f \in NextOf(frame[w].file),
             Become(w, [frame[w] EXCEPT !.pc = "sendn", !.file = f, !.left = @ - 1])
      PROVE  IInv'
  <2>1. f \in Pointers
    BY <1>3 DEF NextOf, Successors, Pointers
  <2>2. frame[w].left - 1 \in Int
    BY FrameFacts DEF Frames
  <2>3. [frame[w] EXCEPT !.pc = "sendn", !.file = f, !.left = @ - 1]
          = [frame[w] EXCEPT !.pc = "sendn", !.left = frame[w].left - 1, !.file = f]
    BY FrameFacts DEF Frames
  <2>4. QED
    BY <1>1, <1>3, <2>1, <2>2, <2>3, FrameFacts, CountedFrame, FrameOnly
<1>4. QED
  BY <1>2, <1>3 DEF SendNNext

\* The call of inMem in remove_generic_file.
LEMMA RemoveInMemStep ==
  ASSUME IInv, NEW w \in Workers, RemoveInMem(w)
  PROVE  IInv'
<1>1. /\ frame[w].pc = "remove_in" /\ frame[w].pc \notin Freeing
      /\ MaxRecvFile' \in Nat /\ MaxUsedMemory' \in Int
      /\ UNCHANGED <<lists, heap, counters, metadataLock, policy>>
  BY DEF RemoveInMem, At, storeVars, lists, counters, IInv, TypeOK, Freeing
<1>2. frame[w].file \in Pointers
  BY FrameFacts DEF Frames
<1>3. [frame[w] EXCEPT !.pc = "find_in", !.op = "POP"]
        = [frame[w] EXCEPT !.pc = "find_in", !.op = "POP", !.file = frame[w].file]
  BY FrameFacts DEF Frames
<1>4. Become(w, [frame[w] EXCEPT !.pc = "find_in", !.op = "POP", !.file = frame[w].file])
  BY <1>3 DEF RemoveInMem
<1>5. QED
  BY <1>1, <1>2, <1>4, FrameFacts, SecondLookupFrame, FrameOnly

-----------------------------------------------------------------------------
(* Steps that change a file and leave the lists alone.                     *)

\* One allocated struct changes and stays allocated, the lists and the file
\* count stay: IInv is kept when the sends under way still have their locks.
LEMMA FileStep ==
  ASSUME IInv, NEW w \in Workers, NEW fr \in Frames, FrameOK(fr),
         Own(fr) \subseteq Own(frame[w]),
         Become(w, fr),
         UNCHANGED <<lists, nCurrentFile, peaks, policy>>,
         heap' \in [FileIds -> FileMemory \cup {NULL}],
         \A f \in FileIds : Freed(f)' => Freed(f),
         nCurrentMemoryUsed' \in Int,
         metadataLock' \in Workers \cup {NULL},
         SendsLocked'
  PROVE  IInv'
<1> USE DEF Become, lists, peaks
<1>1. /\ frame' \in [Workers -> Frames]
      /\ \A v \in Workers : FrameOK(frame'[v])
      /\ frame'[w] = fr
      /\ \A v \in Workers \ {w} : frame'[v] = frame[v]
  BY OneFrame DEF IInv
<1>2. TypeOK'
  BY <1>1 DEF IInv, TypeOK
<1>3. Linked' = Linked /\ Leaked' = Leaked /\ Listed' = Listed
  BY DEF Linked, Leaked, Listed
<1>4. \A v \in Workers : Own(frame'[v]) \subseteq Own(frame[v])
  BY <1>1
<1>5. Linked \subseteq FileIds /\ \A v \in Workers : Own(frame[v]) \subseteq FileIds
  BY LenProperties DEF Linked, Listed, Leaked, Range, Own, IInv, TypeOK
<1>6. OneOwner'
  BY <1>3, <1>4, <1>5 DEF IInv, OneOwner
<1>7. CountCovers' /\ CountExact'
  BY <1>3 DEF IInv, CountCovers, CountExact
<1>8. QED
  BY <1>1, <1>2, <1>6, <1>7 DEF IInv

\* The file a worker is about to lock or write: allocated and not locked.
LEMMA UnlockedFile ==
  ASSUME IInv, NEW w \in Workers, frame[w].file \in FileIds, ~Freed(frame[w].file), Unlocked(w)
  PROVE  /\ heap[frame[w].file] \in FileMemory
         /\ \A v \in Workers : frame[v].pc = "read_send" => frame[v].file # frame[w].file
<1>1. heap[frame[w].file] \in FileMemory
  BY DEF IInv, TypeOK, Freed
<1>2. \A v \in Workers : v # NULL
  BY MemoryAssumption
<1>3. QED
  BY <1>1, <1>2 DEF Unlocked, IInv, SendsLocked

\* set_file_open and set_file_close change a file that nobody has locked.
LEMMA SetOpenFlag ==
  ASSUME IInv, NEW w \in Workers, NEW fr \in Frames, FrameOK(fr), Own(fr) = {},
         fr.pc # "read_send", Become(w, fr),
         frame[w].file \in FileIds, ~Freed(frame[w].file), Unlocked(w), NEW b \in BOOLEAN,
         heap' = [heap EXCEPT ![frame[w].file].isOpen = b],
         UNCHANGED <<lists, counters, peaks, metadataLock, policy>>
  PROVE  IInv'
<1> DEFINE f == frame[w].file
<1>1. /\ heap[f] \in FileMemory
      /\ \A v \in Workers : frame[v].pc = "read_send" => frame[v].file # f
  BY UnlockedFile
<1>2. [heap[f] EXCEPT !.isOpen = b] \in FileMemory
  BY <1>1 DEF FileMemory
<1>3. /\ heap' \in [FileIds -> FileMemory \cup {NULL}]
      /\ \A g \in FileIds : Freed(g)' => Freed(g)
      /\ \A g \in FileIds \ {f} : heap'[g] = heap[g]
  BY <1>2, MemoryAssumption DEF IInv, TypeOK, Freed
<1>4. SendsLocked'
  BY <1>1, <1>3, OneFrame DEF SendsLocked, Unused, Freed, Become, IInv
<1>5. QED
  BY <1>3, <1>4, FileStep DEF counters, IInv, TypeOK

\* set_file_open, the end of OPEN_FILE.
LEMMA SetFileOpenStep ==
  ASSUME IInv, NEW w \in Workers, SetFileOpen(w)
  PROVE  IInv'
<1>1. frame[w].file \in FileIds /\ ~Freed(frame[w].file)
  BY FrameFacts DEF SetFileOpen, At, FollowsBadPointer, Frames, Pointers, Unused
<1>2. QED
  BY <1>1, IdleOK, SetOpenFlag DEF SetFileOpen, Done

\* set_file_close, and the fall of CLOSE_FILE into READ_FILE.
LEMMA SetFileCloseStep ==
  ASSUME IInv, NEW w \in Workers, SetFileClose(w)
  PROVE  IInv'
<1> DEFINE fr == [frame[w] EXCEPT !.pc = "find_in", !.op = "READ", !.file = NULL]
<1>1. frame[w].file \in FileIds /\ ~Freed(frame[w].file) /\ frame[w].pc = "set_close"
  BY FrameFacts DEF SetFileClose, At, FollowsBadPointer, Dangling, Frames, Unused
<1>2. frame[w] \in Frames /\ FrameOK(frame[w]) /\ frame[w].pc \notin Freeing
  BY <1>1, FrameFacts DEF Freeing
<1>3. /\ "find_in" \in Labels
      /\ "READ" \in Phases \cup {NULL}
      /\ NULL \in Pointers
  BY DEF Labels, Phases, AllOps, Pointers
<1>4. fr \in Frames
  BY <1>2, <1>3 DEF Frames
<1>5. fr.pc = "find_in" /\ fr.op = "READ" /\ fr.victim = frame[w].victim
  BY <1>2 DEF Frames
<1>6. Own(fr) = {}
  BY <1>5 DEF Own, Creating, Freeing
<1>7. Become(w, fr)
  BY DEF SetFileClose
<1> HIDE DEF fr
<1>8. FrameOK(fr)
  BY <1>2, <1>5 DEF FrameOK, Creating
<1>9. QED
  BY <1>1, <1>4, <1>5, <1>6, <1>7, <1>8, SetOpenFlag DEF SetFileClose

\* Only the holder of a file's mutex is between ReadLock and ReadSend.
LEMMA ReadLockStep ==
  ASSUME IInv, NEW w \in Workers, ReadLock(w)
  PROVE  IInv'
<1> DEFINE fr == [frame[w] EXCEPT !.pc = "read_send"]
           f  == frame[w].file
<1>1. f \in FileIds /\ ~Freed(f) /\ frame[w].pc = "read_lock"
  BY FrameFacts DEF ReadLock, At, FollowsBadPointer, Dangling, Frames, Unused
<1>2. frame[w] \in Frames /\ FrameOK(frame[w])
  BY FrameFacts
<1>3. /\ heap[f] \in FileMemory
      /\ \A v \in Workers : frame[v].pc = "read_send" => frame[v].file # f
  BY <1>1, UnlockedFile DEF ReadLock
<1>4. fr \in Frames
  BY <1>2 DEF Frames, Labels
<1>5. fr.pc = "read_send" /\ fr.file = f
  BY <1>2 DEF Frames
<1>6. FrameOK(fr) /\ Own(fr) = {}
  BY <1>1, <1>2 DEF FrameOK, Frames, Own, Creating, Freeing
<1>7. [heap[f] EXCEPT !.lockFile = w] \in FileMemory
  BY <1>3 DEF FileMemory
<1>8. /\ heap' \in [FileIds -> FileMemory \cup {NULL}]
      /\ \A g \in FileIds : Freed(g)' => Freed(g)
      /\ \A g \in FileIds \ {f} : heap'[g] = heap[g]
      /\ heap'[f] \in FileMemory /\ heap'[f].lockFile = w
  BY <1>1, <1>3, <1>7, MemoryAssumption DEF ReadLock, IInv, TypeOK, Freed, FileMemory
<1>9. Become(w, fr)
  BY DEF ReadLock, Go
<1>10. SendsLocked'
  <2>1. frame'[w] = fr /\ \A v \in Workers \ {w} : frame'[v] = frame[v]
    BY <1>4, <1>6, <1>9, OneFrame DEF Become, IInv
  <2>2. heap'[f] # NULL
    BY <1>8, MemoryAssumption
  <2>3. SUFFICES ASSUME NEW v \in Workers, frame'[v].pc = "read_send"
                 PROVE  /\ frame'[v].file \in FileIds
                        /\ heap'[frame'[v].file] # NULL
                        /\ heap'[frame'[v].file].lockFile = v
    BY DEF SendsLocked, Unused, Freed
  <2>4. CASE v = w
    BY <1>1, <1>5, <1>8, <2>1, <2>2, <2>4
  <2>5. CASE v # w
    <3>1. frame'[v] = frame[v] /\ frame[v].file # f
      BY <1>3, <2>1, <2>3, <2>5
    <3>2. frame[v].file \in FileIds /\ ~Freed(frame[v].file) /\ heap[frame[v].file].lockFile = v
      BY <2>1, <2>3, <2>5 DEF IInv, SendsLocked, Unused
    <3>3. QED
      BY <1>8, <3>1, <3>2 DEF Freed
  <2>6. QED
    BY <2>4, <2>5
<1>11. QED
  BY <1>4, <1>6, <1>8, <1>9, <1>10, FileStep DEF ReadLock, counters, IInv, TypeOK

\* READ_FILE releases the file it has sent.
LEMMA ReadSendStep ==
  ASSUME IInv, NEW w \in Workers, ReadSend(w)
  PROVE  IInv'
<1> DEFINE f == frame[w].file
<1>1. /\ f \in FileIds /\ ~Freed(f)
      /\ heap[f] \in FileMemory
      /\ heap[f].lockFile = w
  BY DEF ReadSend, At, IInv, TypeOK, SendsLocked, Unused, Freed
<1>2. [heap[f] EXCEPT !.lockFile = NULL] \in FileMemory
  BY <1>1 DEF FileMemory
<1>3. /\ heap' \in [FileIds -> FileMemory \cup {NULL}]
      /\ \A g \in FileIds : Freed(g)' => Freed(g)
      /\ \A g \in FileIds \ {f} : heap'[g] = heap[g]
  BY <1>1, <1>2, MemoryAssumption DEF ReadSend, IInv, TypeOK, Freed
<1>4. Become(w, Idle)
  BY DEF ReadSend, Done
<1>5. SendsLocked'
  <2>1. frame'[w] = Idle /\ \A v \in Workers \ {w} : frame'[v] = frame[v]
    BY <1>4, IdleOK, OneFrame DEF Become, IInv
  <2>2. QED
    BY <1>1, <1>3, <2>1, IdleOK DEF SendsLocked, Unused, Freed, IInv
<1>6. QED
  BY <1>3, <1>4, <1>5, IdleOK, FileStep DEF ReadSend, counters, IInv, TypeOK

\* write_to_file takes metadataLock.
LEMMA WriteMetaStep ==
  ASSUME IInv, NEW w \in Workers, WriteMeta(w)
  PROVE  IInv'
<1> DEFINE fr == [frame[w] EXCEPT !.pc = "write_file"]
<1>1. frame[w] \in Frames /\ FrameOK(frame[w]) /\ frame[w].pc = "write_meta"
  BY FrameFacts DEF WriteMeta, At
<1>2. fr \in Frames
  BY <1>1 DEF Frames, Labels
<1>3. FrameOK(fr) /\ Own(fr) = {} /\ fr.pc # "read_send"
  BY <1>1 DEF FrameOK, Frames, Own, Creating, Freeing
<1>4. Become(w, fr)
  BY DEF WriteMeta, Go
<1>5. SendsLocked'
  BY <1>2, <1>3, <1>4, OneFrame DEF SendsLocked, Unused, Freed, Become, IInv, WriteMeta
<1>6. QED
  BY <1>2, <1>3, <1>4, <1>5, FileStep DEF WriteMeta, counters, IInv, TypeOK, Freed

\* write_to_file appends to a file that no reader has locked.
LEMMA WriteFileStep ==
  ASSUME IInv, NEW w \in Workers, WriteFile(w)
  PROVE  IInv'
<1> DEFINE f == frame[w].file
<1>1. f \in FileIds /\ ~Freed(f)
  BY FrameFacts DEF WriteFile, At, FollowsBadPointer, Dangling, Frames, Unused
<1>2. /\ heap[f] \in FileMemory
      /\ \A v \in Workers : frame[v].pc = "read_send" => frame[v].file # f
  BY <1>1, UnlockedFile DEF WriteFile
<1>3. frame[w].arg \in Nat
  BY FrameFacts DEF Frames
<1>4. [heap[f] EXCEPT !.usedMemory = @ + frame[w].arg] \in FileMemory
  BY <1>2, <1>3 DEF FileMemory
<1>5. /\ heap' \in [FileIds -> FileMemory \cup {NULL}]
      /\ \A g \in FileIds : Freed(g)' => Freed(g)
      /\ \A g \in FileIds \ {f} : heap'[g] = heap[g]
  BY <1>4, MemoryAssumption DEF WriteFile, AppendBytes, IInv, TypeOK, Freed
<1>6. Become(w, Idle)
  BY DEF WriteFile, Done
<1>7. SendsLocked'
  <2>1. frame'[w] = Idle /\ \A v \in Workers \ {w} : frame'[v] = frame[v]
    BY <1>6, IdleOK, OneFrame DEF Become, IInv
  <2>2. QED
    BY <1>2, <1>5, <2>1, IdleOK DEF SendsLocked, Unused, Freed, IInv
<1>8. nCurrentMemoryUsed' \in Int
  BY <1>3 DEF WriteFile, AppendBytes, IInv, TypeOK
<1>9. QED
  BY <1>5, <1>6, <1>7, <1>8, IdleOK, FileStep DEF WriteFile

-----------------------------------------------------------------------------
(* Steps that change the list.                                             *)

\* Under OneOwner the linked files are allocated, and finitely many.
LEMMA LinkedFacts ==
  ASSUME IInv
  PROVE  /\ Linked \subseteq FileIds
         /\ IsFiniteSet(Linked)
         /\ Len(memory) \in Nat
         /\ \A v \in Workers : Own(frame[v]) \subseteq FileIds
<1>1. Listed \subseteq FileIds /\ Len(memory) \in Nat
  BY LenProperties DEF Listed, Range, IInv, TypeOK
<1>2. Linked \subseteq FileIds
  BY <1>1 DEF Linked, Leaked
<1>3. IsFiniteSet(Linked)
  BY <1>2, FS_Subset, MemoryAssumption
<1>4. QED
  BY <1>1, <1>2, <1>3 DEF Own

\* No frame is about to send a file the step touches: the sends stay locked.
LEMMA SendsStay ==
  ASSUME IInv, NEW w \in Workers, NEW fr \in Frames, FrameOK(fr), Become(w, fr),
         fr.pc # "read_send",
         \A f \in FileIds : ~Freed(f) /\ heap[f].lockFile # NULL => heap'[f] = heap[f]
  PROVE  SendsLocked'
<1>1. /\ frame'[w] = fr
      /\ \A v \in Workers \ {w} : frame'[v] = frame[v]
  BY OneFrame DEF IInv, Become
<1>2. \A v \in Workers : v # NULL
  BY MemoryAssumption
<1>3. QED
  BY <1>1, <1>2 DEF IInv, SendsLocked, Unused, Freed

\* pop_from_tail and pop_from_head hand their victim to the worker.
LEMMA PopStep ==
  ASSUME IInv, NEW w \in Workers, NEW fr \in Frames, FrameOK(fr), Become(w, fr),
         fr.pc # "read_send",
         NEW x \in Listed, Own(fr) \subseteq {x},
         memory' \in Seq(FileIds), Len(memory') = Len(memory) - 1,
         Range(memory') = Range(memory) \ {x}, IsInjective(memory'),
         nCurrentFile' = nCurrentFile - 1, nCurrentMemoryUsed' \in Int,
         UNCHANGED <<lost, heap, peaks, metadataLock, policy>>
  PROVE  IInv'
<1> USE DEF peaks
<1>1. /\ frame' \in [Workers -> Frames]
      /\ \A v \in Workers : FrameOK(frame'[v])
      /\ frame'[w] = fr
      /\ \A v \in Workers \ {w} : frame'[v] = frame[v]
  BY OneFrame DEF IInv, Become
<1>2. Len(memory) \in Nat /\ Len(memory') \in Nat
  BY LinkedFacts, LenProperties
<1>3. nCurrentFile' \in Nat /\ CountCovers'
  BY <1>2 DEF IInv, CountCovers, TypeOK
<1>4. TypeOK'
  BY <1>1, <1>3 DEF IInv, TypeOK, Become
<1>5. x \notin Leaked /\ x \in Linked
  BY DEF IInv, OneOwner, Linked
<1>6. Listed' = Listed \ {x} /\ Leaked' = Leaked /\ Linked' = Linked \ {x}
  BY <1>5 DEF Linked, Listed, Leaked
<1>7. OneOwner'
  <2>1. \A v \in Workers \ {w} : x \notin Own(frame[v])
    BY <1>5 DEF IInv, OneOwner
  <2>2. \A v \in Workers : \A f \in Own(frame'[v]) : ~Freed(f)' /\ f \notin Linked'
    BY <1>1, <1>5, <1>6 DEF IInv, OneOwner, Freed
  <2>3. \A v \in Workers : \A f \in Own(frame'[v]) :
          \A u \in Workers \ {v} : f \notin Own(frame'[u])
    <3> SUFFICES ASSUME NEW v \in Workers, NEW f \in Own(frame'[v]), NEW u \in Workers \ {v}
                 PROVE  f \notin Own(frame'[u])
      OBVIOUS
    <3>1. CASE v = w
      BY <1>1, <2>1, <3>1
    <3>2. CASE u = w
      BY <1>1, <2>1, <3>2
    <3>3. CASE v # w /\ u # w
      BY <1>1, <3>3 DEF IInv, OneOwner
    <3>4. QED
      BY <3>1, <3>2, <3>3
  <2>4. QED
    BY <1>6, <2>2, <2>3 DEF IInv, OneOwner, Freed
<1>8. CountExact'
  BY <1>5, <1>6, LinkedFacts, FS_RemoveElement DEF IInv, CountExact
<1>9. SendsLocked'
  BY SendsStay
<1>10. QED
  BY <1>1, <1>3, <1>4, <1>7, <1>8, <1>9 DEF IInv

\* A victim in the frame of a worker about to free it.
LEMMA VictimFrame ==
  ASSUME NEW fr \in Frames, FrameOK(fr), NEW label \in Freeing, NEW x \in FileIds,
         NEW next \in Frames, next.pc = label, next.victim = x,
         next.op = fr.op, next.filename = fr.filename
  PROVE  FrameOK(next) /\ Own(next) \subseteq {x} /\ next.pc # "read_send"
<1>1. FrameOK(next)
  BY DEF FrameOK, Creating, Freeing
<1>2. Own(next) \subseteq {x}
  BY DEF Own, Creating, Freeing
<1>3. QED
  BY <1>1, <1>2 DEF Freeing

\* What pop_from_tail does to the list is what PopStep asks for.
LEMMA PopTailFacts ==
  ASSUME IInv, memory # <<>>, PopTail
  PROVE  /\ Oldest \in Listed /\ Oldest \in FileIds
         /\ memory' \in Seq(FileIds) /\ Len(memory') = Len(memory) - 1
         /\ Range(memory') = Range(memory) \ {Oldest} /\ IsInjective(memory')
         /\ nCurrentFile' = nCurrentFile - 1 /\ nCurrentMemoryUsed' \in Int
         /\ heap[Oldest] \in FileMemory
<1>1. memory \in Seq(FileIds) /\ IsInjective(memory)
  BY DEF IInv, TypeOK, OneOwner
<1>2. Oldest \in Listed /\ Oldest \in FileIds
  BY <1>1, PoppedTailList, LinkedFacts DEF Oldest, Listed, Linked
<1>3. heap[Oldest] \in FileMemory
  BY <1>2 DEF IInv, TypeOK, OneOwner, Freed, Linked
<1>4. nCurrentMemoryUsed' \in Int
  BY <1>3 DEF PopTail, Uncount, IInv, TypeOK, FileMemory
<1>5. QED
  BY <1>1, <1>2, <1>3, <1>4, PoppedTailList DEF PopTail, Uncount, Oldest

\* A turn of the first eviction loop of cache_algorithm, the pop.
LEMMA PopFileStep ==
  ASSUME IInv, NEW w \in Workers, PopFile(w)
  PROVE  IInv'
<1>1. frame[w] \in Frames /\ FrameOK(frame[w]) /\ frame[w].pc = "pop_file"
  BY FrameFacts DEF PopFile, At
<1>2. CASE memory = <<>>
  <2> DEFINE fr == [frame[w] EXCEPT !.pc = "free_file"]
  <2>1. frame[w].victim = NULL
    BY <1>1 DEF FrameOK, Freeing
  <2>2. fr \in Frames
    BY <1>1 DEF Frames, Labels
  <2>3. FrameOK(fr) /\ Own(fr) = {} /\ fr.pc # "read_send"
    BY <1>1, <2>1, MemoryAssumption DEF FrameOK, Frames, Own, Creating, Freeing
  <2>4. QED
    BY <1>2, <2>2, <2>3, FrameOnly DEF PopFile, Go, peaks, IInv, TypeOK
<1>3. CASE memory # <<>>
  <2>1. PopTail /\ Become(w, [frame[w] EXCEPT !.pc = "free_file", !.victim = Oldest])
    BY <1>3 DEF PopFile
  <2>2. "free_file" \in Freeing
    BY DEF Freeing
  <2> DEFINE fr == [frame[w] EXCEPT !.pc = "free_file", !.victim = Oldest]
  <2>3. FrameOK(fr) /\ Own(fr) \subseteq {Oldest} /\ fr.pc # "read_send" /\ fr \in Frames
    <3>1. Oldest \in FileIds /\ Oldest \in Pointers /\ "free_file" \in Labels
      BY <1>3, <2>1, PopTailFacts DEF Pointers, Labels
    <3>2. /\ fr \in Frames /\ fr.pc = "free_file" /\ fr.victim = Oldest
          /\ fr.op = frame[w].op /\ fr.filename = frame[w].filename
      BY <1>1, <3>1 DEF Frames
    <3> HIDE DEF fr
    <3>3. QED
      BY <1>1, <2>2, <3>1, <3>2, VictimFrame
  <2>4. UNCHANGED <<lost, heap, peaks, metadataLock, policy>>
    BY <1>3, <2>1 DEF PopFile, PopTail
  <2> HIDE DEF fr
  <2>5. Become(w, fr)
    BY <2>1 DEF fr
  <2>6. QED
    BY <1>3, <2>1, <2>3, <2>4, <2>5, PopTailFacts, PopStep
<1>4. QED
  BY <1>2, <1>3

\* A turn of the second eviction loop of cache_algorithm, the pop.
LEMMA PopMemoryStep ==
  ASSUME IInv, NEW w \in Workers, PopMemory(w)
  PROVE  IInv'
<1>1. frame[w] \in Frames /\ FrameOK(frame[w]) /\ frame[w].pc = "pop_memory"
  BY FrameFacts DEF PopMemory, At
<1>2. memory # <<>>
  BY <1>1 DEF PopMemory, At, FollowsBadPointer
<1>3. PopTail
  BY DEF PopMemory
<1>4. "subtract" \in Freeing
  BY DEF Freeing
<1> DEFINE fr == [frame[w] EXCEPT !.pc = "subtract", !.victim = Oldest]
<1>5. FrameOK(fr) /\ Own(fr) \subseteq {Oldest} /\ fr.pc # "read_send" /\ fr \in Frames
  <2>1. Oldest \in FileIds /\ Oldest \in Pointers /\ "subtract" \in Labels
    BY <1>2, <1>3, PopTailFacts DEF Pointers, Labels
  <2>2. /\ fr \in Frames /\ fr.pc = "subtract" /\ fr.victim = Oldest
        /\ fr.op = frame[w].op /\ fr.filename = frame[w].filename
    BY <1>1, <2>1 DEF Frames
  <2> HIDE DEF fr
  <2>3. QED
    BY <1>1, <1>4, <2>1, <2>2, VictimFrame
<1>6. UNCHANGED <<lost, heap, peaks, metadataLock, policy>>
  BY DEF PopMemory, PopTail
<1> HIDE DEF fr
<1>7. Become(w, fr)
  BY DEF PopMemory, fr
<1>8. QED
  BY <1>2, <1>3, <1>5, <1>6, <1>7, PopTailFacts, PopStep

\* The size of the popped file, which nobody has freed, comes off the excess.
LEMMA SubtractPoppedStep ==
  ASSUME IInv, NEW w \in Workers, SubtractPopped(w)
  PROVE  IInv'
<1>1. frame[w] \in Frames /\ FrameOK(frame[w]) /\ frame[w].pc = "subtract"
  BY FrameFacts DEF SubtractPopped, At
<1> DEFINE x == frame[w].victim
           n == frame[w].left - heap[x].usedMemory
<1>2. x \in FileIds /\ x \in Own(frame[w])
  BY <1>1 DEF FrameOK, Own, Freeing
<1>3. heap[x] \in FileMemory
  BY <1>2 DEF IInv, TypeOK, OneOwner, Freed
<1>4. n \in Int
  BY <1>1, <1>3 DEF Frames, FileMemory
<1>5. [frame[w] EXCEPT !.pc = "free_memory", !.left = @ - heap[frame[w].victim].usedMemory]
        = [frame[w] EXCEPT !.pc = "free_memory", !.left = n]
  BY <1>1 DEF Frames
<1>6. Become(w, [frame[w] EXCEPT !.pc = "free_memory", !.left = n])
  BY <1>5 DEF SubtractPopped
<1> HIDE DEF n
<1> DEFINE fr == [frame[w] EXCEPT !.pc = "free_memory", !.left = n]
<1>7. /\ fr \in Frames /\ fr.pc = "free_memory" /\ fr.victim = x
      /\ fr.op = frame[w].op /\ fr.filename = frame[w].filename
  BY <1>1, <1>4 DEF Frames, Labels
<1>8. Become(w, fr)
  BY <1>6
<1> HIDE DEF fr
<1>9. FrameOK(fr)
  BY <1>1, <1>7 DEF FrameOK, Creating, Freeing
<1>10. Own(fr) \subseteq Own(frame[w])
  BY <1>1, <1>7 DEF Own, Creating, Freeing
<1>11. UNCHANGED <<lists, heap, counters, metadataLock, policy, peaks>>
  BY DEF SubtractPopped, storeVars, lists, counters, peaks
<1>12. MaxRecvFile' \in Nat /\ MaxUsedMemory' \in Int
  BY <1>11 DEF IInv, TypeOK, peaks
<1>13. QED
  BY <1>7, <1>8, <1>9, <1>10, <1>11, <1>12, FrameOnly

\* pop_from_head in remove_generic_file.
LEMMA RemovePopStep ==
  ASSUME IInv, NEW w \in Workers, RemovePop(w)
  PROVE  IInv'
<1>1. frame[w] \in Frames /\ FrameOK(frame[w]) /\ frame[w].pc = "remove_pop"
  BY FrameFacts DEF RemovePop, At
<1>2. CASE memory = <<>>
  <2> DEFINE fr == [frame[w] EXCEPT !.pc = "remove_free"]
  <2>1. frame[w].victim = NULL
    BY <1>1 DEF FrameOK, Freeing
  <2>2. fr \in Frames
    BY <1>1 DEF Frames, Labels
  <2>3. FrameOK(fr) /\ Own(fr) = {} /\ fr.pc # "read_send"
    BY <1>1, <2>1, MemoryAssumption DEF FrameOK, Frames, Own, Creating, Freeing
  <2>4. QED
    BY <1>2, <2>2, <2>3, FrameOnly DEF RemovePop, Go, peaks, IInv, TypeOK
<1>3. CASE memory # <<>>
  <2> DEFINE x == Head(memory)
  <2>1. PopHead /\ Become(w, [frame[w] EXCEPT !.pc = "remove_free", !.victim = x])
    BY <1>3 DEF RemovePop
  <2>2. memory \in Seq(FileIds) /\ IsInjective(memory)
    BY DEF IInv, TypeOK, OneOwner
  <2>3. x \in Listed /\ x \in FileIds
    BY <1>3, <2>2, PoppedHeadList, LinkedFacts DEF Listed, Linked
  <2>4. heap[x] \in FileMemory
    BY <2>3 DEF IInv, TypeOK, OneOwner, Freed, Linked
  <2>5. nCurrentMemoryUsed' \in Int /\ nCurrentFile' = nCurrentFile - 1
    BY <2>1, <2>4 DEF PopHead, Uncount, IInv, TypeOK, FileMemory
  <2>6. /\ memory' \in Seq(FileIds) /\ Len(memory') = Len(memory) - 1
        /\ Range(memory') = Range(memory) \ {x} /\ IsInjective(memory')
    BY <1>3, <2>1, <2>2, PoppedHeadList DEF PopHead
  <2>7. "remove_free" \in Freeing
    BY DEF Freeing
  <2> HIDE DEF x
  <2> DEFINE fr == [frame[w] EXCEPT !.pc = "remove_free", !.victim = x]
  <2>8. FrameOK(fr) /\ Own(fr) \subseteq {x} /\ fr.pc # "read_send" /\ fr \in Frames
    <3>1. x \in Pointers /\ "remove_free" \in Labels
      BY <2>3 DEF Pointers, Labels
    <3>2. /\ fr \in Frames /\ fr.pc = "remove_free" /\ fr.victim = x
          /\ fr.op = frame[w].op /\ fr.filename = frame[w].filename
      BY <1>1, <3>1 DEF Frames
    <3> HIDE DEF fr
    <3>3. QED
      BY <1>1, <2>3, <2>7, <3>2, VictimFrame
  <2>9. UNCHANGED <<lost, heap, peaks, metadataLock, policy>>
    BY <1>3, <2>1 DEF RemovePop, PopHead
  <2> HIDE DEF fr
  <2>10. Become(w, fr)
    BY <2>1 DEF fr
  <2>11. QED
    BY <2>3, <2>5, <2>6, <2>8, <2>9, <2>10, PopStep
<1>4. QED
  BY <1>2, <1>3

\* free_file: the victim is the worker's own, so nothing that is listed goes.
LEMMA FreeStep ==
  ASSUME IInv, NEW w \in Workers, NEW fr \in Frames, FrameOK(fr), Own(fr) = {},
         fr.pc # "read_send", Become(w, fr),
         frame[w].pc \in Freeing, FreeVictim(w),
         UNCHANGED <<lists, counters, peaks, metadataLock, policy>>
  PROVE  IInv'
<1> DEFINE x == frame[w].victim
<1> USE DEF lists, counters, peaks
<1>1. x \in Pointers
  BY FrameFacts DEF Frames
<1>2. CASE x = NULL
  BY <1>2, FrameOnly DEF FreeVictim, IInv, TypeOK
<1>3. CASE x # NULL
  <2>1. x \in FileIds /\ CanFree(x) /\ heap' = [heap EXCEPT ![x] = NULL]
    BY <1>1, <1>3 DEF FreeVictim, Free, Pointers
  <2>2. x \in Own(frame[w])
    BY <2>1 DEF Own
  <2>3. ~Freed(x) /\ x \notin Linked /\ \A v \in Workers \ {w} : x \notin Own(frame[v])
    BY <2>2 DEF IInv, OneOwner
  <2>4. /\ heap' \in [FileIds -> FileMemory \cup {NULL}]
        /\ \A g \in FileIds \ {x} : heap'[g] = heap[g]
    BY <2>1 DEF IInv, TypeOK
  <2>5. /\ frame' \in [Workers -> Frames]
        /\ \A v \in Workers : FrameOK(frame'[v])
        /\ frame'[w] = fr
        /\ \A v \in Workers \ {w} : frame'[v] = frame[v]
    BY OneFrame DEF IInv, Become
  <2>6. TypeOK'
    BY <2>4, <2>5 DEF IInv, TypeOK, Become
  <2>7. Linked' = Linked /\ Leaked' = Leaked /\ Listed' = Listed
    BY DEF Linked, Leaked, Listed
  <2>8. CountCovers' /\ CountExact'
    BY <2>7 DEF IInv, CountCovers, CountExact
  <2>9. SendsLocked'
    <3>1. \A f \in FileIds : ~Freed(f) /\ heap[f].lockFile # NULL => heap'[f] = heap[f]
      BY <2>1, <2>4 DEF CanFree
    <3>2. QED
      BY <3>1, SendsStay
  <2>10. \A v \in Workers : \A f \in Own(frame'[v]) : f \in Own(frame[v]) /\ f # x
    BY <2>3, <2>5
  <2>11. OneOwner'
    <3>1. \A f \in Linked' : ~Freed(f)'
      BY <2>3, <2>4, <2>7, LinkedFacts DEF IInv, OneOwner, Freed
    <3>2. \A v \in Workers : \A f \in Own(frame'[v]) : ~Freed(f)' /\ f \notin Linked'
      BY <2>4, <2>7, <2>10, LinkedFacts DEF IInv, OneOwner, Freed
    <3>3. \A v \in Workers : \A f \in Own(frame'[v]) :
            \A u \in Workers \ {v} : f \notin Own(frame'[u])
      BY <2>10 DEF IInv, OneOwner
    <3>4. QED
      BY <2>7, <3>1, <3>2, <3>3 DEF IInv, OneOwner
  <2>12. QED
    BY <2>5, <2>6, <2>8, <2>9, <2>11 DEF IInv
<1>4. QED
  BY <1>2, <1>3

\* A turn of the first eviction loop of cache_algorithm, the free.
LEMMA FreeFileStep ==
  ASSUME IInv, NEW w \in Workers, FreeFile(w)
  PROVE  IInv'
<1> DEFINE label == IF frame[w].left > 1 THEN "pop_file" ELSE "plan_memory"
           n == frame[w].left - 1
           fr == [frame[w] EXCEPT !.victim = NULL, !.left = n, !.pc = label]
<1>1. frame[w] \in Frames /\ FrameOK(frame[w]) /\ frame[w].pc \in Freeing
  BY FrameFacts DEF FreeFile, At, Freeing
<1>2. label \in Labels /\ n \in Int /\ NULL \in Pointers
  BY <1>1 DEF Labels, Frames, Pointers
<1>3. Become(w, fr)
  BY <1>1 DEF FreeFile, Frames
<1>4. label \in {"pop_file", "plan_memory"}
  OBVIOUS
<1> HIDE DEF label, n
<1>5. /\ fr \in Frames
      /\ fr.pc = label /\ fr.op = frame[w].op /\ fr.filename = frame[w].filename /\ fr.victim = NULL
  BY <1>1, <1>2 DEF Frames
<1> HIDE DEF fr
<1>6. FrameOK(fr)
  BY <1>1, <1>4, <1>5 DEF FrameOK, Creating
<1>7. Own(fr) = {} /\ fr.pc # "read_send"
  BY <1>4, <1>5 DEF Own, Creating, Freeing
<1>8. QED
  BY <1>1, <1>3, <1>5, <1>6, <1>7, FreeStep DEF FreeFile

\* A turn of the second eviction loop of cache_algorithm, the free.
LEMMA FreeMemoryStep ==
  ASSUME IInv, NEW w \in Workers, FreeMemory(w)
  PROVE  IInv'
<1>1. frame[w] \in Frames /\ FrameOK(frame[w]) /\ frame[w].pc \in Freeing
  BY FrameFacts DEF FreeMemory, At, Freeing
<1>2. CASE Become(w, [frame[w] EXCEPT !.pc = "more", !.victim = NULL])
  <2> DEFINE fr == [frame[w] EXCEPT !.pc = "more", !.victim = NULL]
  <2>1. "more" \in Labels /\ NULL \in Pointers
    BY DEF Labels, Pointers
  <2>2. /\ fr \in Frames
        /\ fr.pc = "more" /\ fr.op = frame[w].op /\ fr.filename = frame[w].filename /\ fr.victim = NULL
    BY <1>1, <2>1 DEF Frames
  <2>3. Become(w, fr)
    BY <1>2
  <2> HIDE DEF fr
  <2>4. FrameOK(fr)
    BY <1>1, <2>2 DEF FrameOK, Creating
  <2>5. Own(fr) = {} /\ fr.pc # "read_send"
    BY <2>2 DEF Own, Creating, Freeing
  <2>6. QED
    BY <1>1, <2>2, <2>3, <2>4, <2>5, FreeStep DEF FreeMemory
<1>3. CASE CacheDone(w)
  BY <1>1, <1>3, AfterCacheFrame, FreeStep DEF FreeMemory, CacheDone
<1>4. QED
  BY <1>2, <1>3 DEF FreeMemory

\* free_file at the end of REMOVE_FILE.
LEMMA RemoveFreeStep ==
  ASSUME IInv, NEW w \in Workers, RemoveFree(w)
  PROVE  IInv'
<1>1. frame[w].pc \in Freeing /\ Become(w, Idle)
  BY DEF RemoveFree, At, Freeing, Done
<1>2. QED
  BY <1>1, IdleOK, FreeStep DEF RemoveFree

\* add_file_to_memory, either way: the file it created becomes the head.
LEMMA LinkStep ==
  ASSUME IInv, NEW w \in Workers, Go(w, "set_open"),
         frame[w].pc \in Creating,
         memory' \in Seq(FileIds), lost' \subseteq Seq(FileIds), IsInjective(memory'),
         Listed' \cap Leaked' = {}, Linked' = Linked \cup {frame[w].file},
         nCurrentFile' = nCurrentFile + 1, CountCovers',
         UNCHANGED <<heap, nCurrentMemoryUsed, peaks, metadataLock, policy>>
  PROVE  IInv'
<1> DEFINE f  == frame[w].file
           fr == [frame[w] EXCEPT !.pc = "set_open"]
<1> USE DEF peaks
<1>1. frame[w] \in Frames /\ FrameOK(frame[w]) /\ f \in FileIds /\ f \in Own(frame[w])
  BY FrameFacts DEF FrameOK, Own
<1>2. /\ fr \in Frames
      /\ fr.pc = "set_open" /\ fr.op = frame[w].op /\ fr.filename = frame[w].filename
      /\ fr.victim = frame[w].victim
  BY <1>1 DEF Frames, Labels
<1>3. Become(w, fr)
  BY DEF Go
<1> HIDE DEF fr
<1>4. frame[w].victim = NULL
  BY <1>1 DEF FrameOK, Creating, Freeing
<1>5. FrameOK(fr)
  BY <1>1, <1>2, <1>4 DEF FrameOK, Creating
<1>6. Own(fr) = {} /\ fr.pc # "read_send"
  BY <1>2 DEF Own, Creating, Freeing
<1>7. /\ frame' \in [Workers -> Frames]
      /\ \A v \in Workers : FrameOK(frame'[v])
      /\ frame'[w] = fr
      /\ \A v \in Workers \ {w} : frame'[v] = frame[v]
  BY <1>2, <1>3, <1>5, OneFrame DEF IInv, Become
<1>8. TypeOK'
  BY <1>3, <1>7 DEF IInv, TypeOK, Become
<1>9. ~Freed(f) /\ f \notin Linked /\ \A v \in Workers \ {w} : f \notin Own(frame[v])
  BY <1>1 DEF IInv, OneOwner
<1>10. OneOwner'
  <2>1. \A g \in Linked' : ~Freed(g)'
    BY <1>9 DEF IInv, OneOwner, Freed
  <2>2. \A v \in Workers : \A g \in Own(frame'[v]) : v # w /\ g \in Own(frame[v]) /\ g # f
    BY <1>6, <1>7, <1>9
  <2>3. \A v \in Workers : \A g \in Own(frame'[v]) : ~Freed(g)' /\ g \notin Linked'
    BY <2>2 DEF IInv, OneOwner, Freed
  <2>4. \A v \in Workers : \A g \in Own(frame'[v]) :
          \A u \in Workers \ {v} : g \notin Own(frame'[u])
    BY <2>2 DEF IInv, OneOwner
  <2>5. QED
    BY <2>1, <2>3, <2>4 DEF OneOwner
<1>11. CountExact'
  BY <1>9, LinkedFacts, FS_AddElement DEF IInv, CountExact
<1>12. SendsLocked'
  BY <1>2, <1>3, <1>5, <1>6, SendsStay
<1>13. QED
  BY <1>7, <1>8, <1>10, <1>11, <1>12 DEF IInv

\* add_file_to_memory when it saw no file: what was listed is lost.
LEMMA AddFirstStep ==
  ASSUME IInv, NEW w \in Workers, AddFirst(w)
  PROVE  IInv'
<1> DEFINE f == frame[w].file
<1>1. f \in FileIds /\ frame[w].pc \in Creating /\ f \in Own(frame[w])
  BY FrameFacts DEF AddFirst, At, FrameOK, Creating, Own
<1>2. f \notin Linked
  BY <1>1 DEF IInv, OneOwner
<1>3. memory \in Seq(FileIds) /\ lost \subseteq Seq(FileIds) /\ nCurrentFile \in Nat
  BY DEF IInv, TypeOK
<1>4. /\ memory' = <<f>>
      /\ lost' = IF memory = <<>> THEN lost ELSE lost \cup {memory}
      /\ nCurrentFile' = nCurrentFile + 1
  BY DEF AddFirst, SetAsOnly
<1> HIDE DEF f
<1>5. memory' \in Seq(FileIds) /\ Len(memory') = 1 /\ Listed' = {f} /\ IsInjective(memory')
  BY <1>1, <1>4, SingleList DEF Listed
<1>6. Leaked' = Linked
  <2>1. Listed \subseteq FileIds
    BY LinkedFacts DEF Linked
  <2>2. CASE memory = <<>>
    <3>1. Listed = {}
      BY <2>2 DEF Listed, Range
    <3>2. QED
      BY <1>4, <2>2, <3>1 DEF Leaked, Linked
  <2>3. CASE memory # <<>>
    BY <1>4, <2>1, <2>3 DEF Leaked, Linked, Listed
  <2>4. QED
    BY <2>2, <2>3
<1>7. Linked' = Linked \cup {f} /\ Listed' \cap Leaked' = {}
  BY <1>2, <1>5, <1>6 DEF Linked
<1>8. lost' \subseteq Seq(FileIds) /\ CountCovers'
  BY <1>3, <1>4, <1>5 DEF CountCovers
<1>9. QED
  BY <1>1, <1>4, <1>5, <1>7, <1>8, LinkStep DEF AddFirst, SetAsOnly, f

\* add_file_to_memory when it saw files.
LEMMA AddHeadStep ==
  ASSUME IInv, NEW w \in Workers, AddHead(w)
  PROVE  IInv'
<1> DEFINE f == frame[w].file
<1>1. f \in FileIds /\ frame[w].pc \in Creating /\ f \in Own(frame[w])
  BY FrameFacts DEF AddHead, At, FrameOK, Creating, Own
<1>2. f \notin Linked
  BY <1>1 DEF IInv, OneOwner
<1>3. memory \in Seq(FileIds) /\ lost \subseteq Seq(FileIds) /\ nCurrentFile \in Nat /\ Len(memory) \in Nat
  BY LinkedFacts DEF IInv, TypeOK
<1>4. memory' = <<f>> \o memory /\ lost' = lost /\ nCurrentFile' = nCurrentFile + 1
  BY DEF AddHead, PushHead
<1> HIDE DEF f
<1>5. /\ memory' \in Seq(FileIds)
      /\ Len(memory') = Len(memory) + 1
      /\ Listed' = Listed \cup {f}
      /\ IsInjective(memory')
  BY <1>1, <1>2, <1>3, <1>4, PushedList DEF IInv, OneOwner, Linked, Listed
<1>6. Leaked' = Leaked
  BY <1>4 DEF Leaked
<1>7. Linked' = Linked \cup {f} /\ Listed' \cap Leaked' = {}
  BY <1>2, <1>5, <1>6 DEF Linked, IInv, OneOwner
<1>8. lost' \subseteq Seq(FileIds) /\ CountCovers'
  BY <1>3, <1>4, <1>5 DEF CountCovers, IInv
<1>9. QED
  BY <1>1, <1>4, <1>5, <1>7, <1>8, LinkStep DEF AddHead, PushHead, f

\* create_file: the new file is the worker's own, or, when its name turned up
\* in the list meanwhile, nobody's.
LEMMA AddCheckStep ==
  ASSUME IInv, NEW w \in Workers, AddCheck(w)
  PROVE  IInv'
<1> DEFINE label == IF InMem(frame[w].filename) THEN "set_open" ELSE "add_count"
<1>1. PICK f \in Unused :
        /\ Allocate(f, frame[w].filename)
        /\ Become(w, [frame[w] EXCEPT !.file = f, !.pc = label])
  BY DEF AddCheck
<1>2. UNCHANGED <<lists, counters, peaks, metadataLock, policy>>
  BY DEF AddCheck
<1>3. frame[w] \in Frames /\ FrameOK(frame[w]) /\ frame[w].pc = "add_check"
  BY FrameFacts DEF AddCheck, At
<1>4. frame[w].op = "CREATE" /\ frame[w].filename \in Names /\ frame[w].victim = NULL
  BY <1>3 DEF FrameOK, Freeing
<1>5. label \in {"set_open", "add_count"} /\ label \in Labels
  BY DEF Labels
<1> HIDE DEF label
<1> DEFINE fr == [frame[w] EXCEPT !.file = f, !.pc = label]
<1>6. f \in FileIds /\ Freed(f) /\ f \in Pointers
  BY DEF Unused, Pointers
<1>7. /\ fr \in Frames
      /\ fr.pc = label /\ fr.file = f /\ fr.op = frame[w].op
      /\ fr.filename = frame[w].filename /\ fr.victim = NULL
  BY <1>3, <1>4, <1>5, <1>6 DEF Frames
<1>8. Become(w, fr)
  BY <1>1
<1> HIDE DEF fr
<1>9. FrameOK(fr) /\ fr.pc # "read_send"
  BY <1>4, <1>5, <1>6, <1>7 DEF FrameOK, Creating, Freeing
<1>10. Own(fr) \subseteq {f}
  BY <1>5, <1>7 DEF Own, Creating, Freeing
<1>11. NewFile(frame[w].filename) \in FileMemory
  BY <1>4 DEF NewFile, FileMemory
<1>12. /\ heap' \in [FileIds -> FileMemory \cup {NULL}]
       /\ heap'[f] # NULL
       /\ \A g \in FileIds \ {f} : heap'[g] = heap[g]
  BY <1>1, <1>6, <1>11, MemoryAssumption DEF Allocate, IInv, TypeOK
<1>13. /\ frame' \in [Workers -> Frames]
       /\ \A v \in Workers : FrameOK(frame'[v])
       /\ frame'[w] = fr
       /\ \A v \in Workers \ {w} : frame'[v] = frame[v]
  BY <1>7, <1>8, <1>9, OneFrame DEF IInv, Become
<1>14. TypeOK'
  BY <1>2, <1>8, <1>12, <1>13 DEF IInv, TypeOK, Become, lists, counters, peaks
<1>15. Linked' = Linked /\ Leaked' = Leaked /\ Listed' = Listed
  BY <1>2 DEF Linked, Leaked, Listed, lists
<1>16. f \notin Linked /\ \A v \in Workers : f \notin Own(frame[v])
  BY <1>6 DEF IInv, OneOwner
<1>17. OneOwner'
  <2>1. \A g \in Linked' : ~Freed(g)'
    BY <1>12, <1>15, <1>16, LinkedFacts DEF IInv, OneOwner, Freed
  <2>2. \A v \in Workers : \A g \in Own(frame'[v]) : ~Freed(g)' /\ g \notin Linked'
    BY <1>10, <1>12, <1>13, <1>15, <1>16, LinkedFacts DEF IInv, OneOwner, Freed
  <2>3. \A v \in Workers : \A g \in Own(frame'[v]) :
          \A u \in Workers \ {v} : g \notin Own(frame'[u])
    <3> SUFFICES ASSUME NEW v \in Workers, NEW g \in Own(frame'[v]), NEW u \in Workers \ {v}
                 PROVE  g \notin Own(frame'[u])
      OBVIOUS
    <3>1. CASE v = w
      BY <1>10, <1>13, <1>16, <3>1
    <3>2. CASE u = w
      BY <1>10, <1>13, <1>16, <3>2
    <3>3. CASE v # w /\ u # w
      BY <1>13, <3>3 DEF IInv, OneOwner
    <3>4. QED
      BY <3>1, <3>2, <3>3
  <2>4. IsInjective(memory')
    BY <1>2 DEF IInv, OneOwner, lists
  <2>5. QED
    BY <1>15, <2>1, <2>2, <2>3, <2>4 DEF IInv, OneOwner
<1>18. CountCovers' /\ CountExact'
  BY <1>2, <1>15 DEF IInv, CountCovers, CountExact, lists, counters
<1>19. SendsLocked'
  BY <1>6, <1>7, <1>8, <1>9, <1>12, SendsStay
<1>20. QED
  BY <1>13, <1>14, <1>17, <1>18, <1>19 DEF IInv

\* policy_routine reorders the list.
LEMMA FindPolicyStep ==
  ASSUME IInv, NEW w \in Workers, FindPolicy(w)
  PROVE  IInv'
<1>1. PICK i \in DOMAIN memory : memory' = MovedToFront(memory, i)
  BY DEF FindPolicy, FirstMatch, Matches
<1>2. /\ frame[w].pc = "find_policy"
      /\ FindReturns(w, frame[w].cursor)
      /\ UNCHANGED <<lost, heap, counters, peaks, metadataLock, policy>>
  BY DEF FindPolicy, At
<1>3. frame[w].cursor \in Pointers
  BY FrameFacts DEF Frames
<1> DEFINE fr == FoundFrame(frame[w], frame[w].cursor)
<1>4. Become(w, fr) /\ fr \in Frames /\ FrameOK(fr) /\ Own(fr) = {} /\ fr.pc # "read_send"
  BY <1>2, <1>3, FindReturnsFrame
<1> HIDE DEF fr
<1>5. /\ memory' \in Seq(FileIds)
      /\ Len(memory') = Len(memory)
      /\ Listed' = Listed
      /\ IsInjective(memory')
  BY <1>1, MovedList DEF IInv, TypeOK, OneOwner, Listed
<1>6. Leaked' = Leaked /\ Linked' = Linked
  BY <1>2, <1>5 DEF Leaked, Linked
<1>7. /\ frame' \in [Workers -> Frames]
      /\ \A v \in Workers : FrameOK(frame'[v])
      /\ frame'[w] = fr
      /\ \A v \in Workers \ {w} : frame'[v] = frame[v]
  BY <1>4, OneFrame DEF IInv, Become
<1>8. TypeOK'
  BY <1>2, <1>4, <1>5, <1>7 DEF IInv, TypeOK, Become, counters, peaks
<1>9. OneOwner'
  <2>1. \A v \in Workers : Own(frame'[v]) \subseteq Own(frame[v])
    BY <1>4, <1>7
  <2>2. QED
    BY <1>2, <1>5, <1>6, <2>1 DEF IInv, OneOwner, Freed
<1>10. CountCovers' /\ CountExact'
  BY <1>2, <1>5, <1>6 DEF IInv, CountCovers, CountExact, counters
<1>11. SendsLocked'
  BY <1>2, <1>4, SendsStay
<1>12. QED
  BY <1>7, <1>8, <1>9, <1>10, <1>11 DEF IInv

-----------------------------------------------------------------------------
(* The run ends, and the invariant of every step.                          *)

\* The process exits, or follows a bad pointer: every thread is gone.
LEMMA EndStep ==
  ASSUME IInv, NEW how \in {"exited", "undefined"}, End(how)
  PROVE  IInv'
<1> USE DEF End, storeVars
<1>1. /\ frame' \in [Workers -> Frames]
      /\ \A v \in Workers : frame'[v] = Idle
  BY IdleOK
<1>2. TypeOK'
  BY <1>1 DEF IInv, TypeOK
<1>3. Linked' = Linked /\ Leaked' = Leaked /\ Listed' = Listed
  BY DEF Linked, Leaked, Listed
<1>4. \A v \in Workers : FrameOK(frame'[v]) /\ Own(frame'[v]) = {} /\ frame'[v].pc = "idle"
  BY <1>1, IdleOK
<1>5. OneOwner'
  BY <1>3, <1>4 DEF IInv, OneOwner, Freed
<1>6. CountCovers' /\ CountExact' /\ SendsLocked'
  BY <1>3, <1>4 DEF IInv, CountCovers, CountExact, SendsLocked
<1>7. QED
  BY <1>2, <1>4, <1>5, <1>6 DEF IInv

\* A step that changes no variable of the model.
LEMMA StutterStep == ASSUME IInv, UNCHANGED vars PROVE IInv'
BY DEF IInv, TypeOK, OneOwner, CountCovers, CountExact, SendsLocked, Linked, Listed,
       Leaked, Freed, Unused, vars

\* Every step of Next, action by action.
LEMMA NextInv == ASSUME IInv, [Next]_vars PROVE IInv'
<1>1. ASSUME NEW w \in Workers, Step(w) PROVE IInv'
  <2>1. CASE TakeJob(w) BY <2>1, TakeJobStep
  <2>2. CASE OpenInMem(w) BY <2>2, OpenInMemStep
  <2>3. CASE FindInMem(w) BY <2>3, FindInMemStep
  <2>4. CASE FindScan(w) BY <2>4, FindScanStep
  <2>5. CASE FindPolicy(w) BY <2>5, FindPolicyStep
  <2>6. CASE IsActionLegal(w) BY <2>6, IsActionLegalStep
  <2>7. CASE PlanFiles(w) BY <2>7, PlanFilesStep
  <2>8. CASE PopFile(w) BY <2>8, PopFileStep
  <2>9. CASE FreeFile(w) BY <2>9, FreeFileStep
  <2>10. CASE PlanMemory(w) BY <2>10, PlanMemoryStep
  <2>11. CASE MoreFiles(w) BY <2>11, MoreFilesStep
  <2>12. CASE PopMemory(w) BY <2>12, PopMemoryStep
  <2>13. CASE FreeMemory(w) BY <2>13, FreeMemoryStep
  <2>39. CASE SubtractPopped(w) BY <2>39, SubtractPoppedStep
  <2>14. CASE AddCheck(w) BY <2>14, AddCheckStep
  <2>15. CASE OutOfMemory(w) BY <2>15, EndStep DEF OutOfMemory, Exit
  <2>16. CASE AddCount(w) BY <2>16, AddCountStep
  <2>17. CASE AddFirst(w) BY <2>17, AddFirstStep
  <2>18. CASE AddHead(w) BY <2>18, AddHeadStep
  <2>19. CASE SetFileOpen(w) BY <2>19, SetFileOpenStep
  <2>20. CASE SetOpenOnNull(w) BY <2>20, EndStep DEF SetOpenOnNull, Exit
  <2>21. CASE SetFileClose(w) BY <2>21, SetFileCloseStep
  <2>22. CASE ReadCheck(w) BY <2>22, ReadCheckStep
  <2>23. CASE ReadLock(w) BY <2>23, ReadLockStep
  <2>24. CASE ReadSend(w) BY <2>24, ReadSendStep
  <2>25. CASE RecvMessage(w) BY <2>25, RecvMessageStep
  <2>26. CASE WriteMeta(w) BY <2>26, WriteMetaStep
  <2>27. CASE WriteFile(w) BY <2>27, WriteFileStep
  <2>28. CASE CountFiles(w) BY <2>28, CountFilesStep
  <2>29. CASE GetHead(w) BY <2>29, GetHeadStep
  <2>30. CASE SendN(w) BY <2>30, SendNStep
  <2>31. CASE SendNNext(w) BY <2>31, SendNNextStep
  <2>32. CASE RemoveInMem(w) BY <2>32, RemoveInMemStep
  <2>33. CASE RemoveFails(w) BY <2>33, EndStep DEF RemoveFails, Exit
  <2>34. CASE RemovePop(w) BY <2>34, RemovePopStep
  <2>35. CASE RemoveFree(w) BY <2>35, RemoveFreeStep
  <2>36. CASE SendFails(w) BY <2>36, EndStep DEF SendFails, Exit
  <2>37. CASE Crash(w) BY <2>37, EndStep DEF Crash
  <2>38. CASE ClosedJobFreed(w) BY <2>38, EndStep DEF ClosedJobFreed
  <2>40. QED
    BY <1>1, <2>1, <2>2, <2>3, <2>4, <2>5, <2>6, <2>7, <2>8, <2>9, <2>10, <2>11, <2>12,
       <2>13, <2>14, <2>15, <2>16, <2>17, <2>18, <2>19, <2>20, <2>21, <2>22, <2>23, <2>24,
       <2>25, <2>26, <2>27, <2>28, <2>29, <2>30, <2>31, <2>32, <2>33, <2>34, <2>35, <2>36,
       <2>37, <2>38, <2>39 DEF Step
<1>2. CASE Ended
  BY <1>2, StutterStep DEF Ended
<1>3. CASE UNCHANGED vars
  BY <1>3, StutterStep
<1>4. QED
  BY <1>1, <1>2, <1>3 DEF Next

\* The inductive invariant holds in every state worker_thread can reach.
THEOREM Invariant == Spec => []IInv
<1>1. Init => IInv
  BY InitInv
<1>2. IInv /\ [Next]_vars => IInv'
  BY NextInv
<1>3. QED
  BY <1>1, <1>2, PTL DEF Spec

-----------------------------------------------------------------------------
(* The properties.                                                         *)

\* What the code's counters and pointers are worth in every run of the
\* workers, racing ones included: each variable keeps its type, and the
\* unsigned nCurrentFile of memory.c is never decremented below zero.
THEOREM TypeCorrect == Spec => []TypeOK
<1>1. IInv => TypeOK
  BY DEF IInv
<1>2. QED
  BY <1>1, Invariant, PTL

\* No double free, no freed node in the list and no cycle in it, for any
\* number of workers of worker_thread and any limits of the configuration.
THEOREM OneOwnerAlways == Spec => []OneOwner
<1>1. IInv => OneOwner
  BY DEF IInv
<1>2. QED
  BY <1>1, Invariant, PTL

\* nCurrentFile is the number of files add_file_to_memory linked and no pop
\* unlinked, whichever sections of memory.c interleave.
THEOREM CountAlwaysExact == Spec => []CountExact
<1>1. IInv => CountExact
  BY DEF IInv
<1>2. QED
  BY <1>1, Invariant, PTL

\* The counted walk of inMem finds every listed name.
THEOREM ScanAlwaysReaches == Spec => []ScanReaches
<1>1. IInv => ScanReaches
  <2> SUFFICES ASSUME IInv, NEW n \in Names, NEW i \in Matches(n)
               PROVE  InMem(n)
    BY DEF ScanReaches
  <2>1. i \in 1..Len(memory)
    BY LenProperties DEF Matches, IInv, TypeOK
  <2>2. i <= nCurrentFile
    BY <2>1, LinkedFacts DEF IInv, CountCovers, TypeOK
  <2>3. QED
    BY <2>2 DEF InMem
<1>2. QED
  BY <1>1, Invariant, PTL

\* A locked file changes only when the reader that holds it is done.
LEMMA LockedFileStays ==
  ASSUME IInv, Next, NEW f \in FileIds, ~Freed(f), heap[f].lockFile # NULL
  PROVE  \/ heap'[f] = heap[f]
         \/ \E v \in Workers : ReadSend(v) /\ frame[v].file = f
<1> heap \in [FileIds -> FileMemory \cup {NULL}]
  BY DEF IInv, TypeOK
<1>1. ASSUME NEW v \in Workers, FreeVictim(v)
      PROVE  heap'[f] = heap[f]
  BY <1>1 DEF FreeVictim, CanFree, Free
<1>2. ASSUME NEW v \in Workers, storeVars' = storeVars
      PROVE  heap' = heap
  BY <1>2 DEF storeVars
<1>3. ASSUME NEW v \in Workers, Step(v)
      PROVE  heap'[f] = heap[f] \/ (ReadSend(v) /\ frame[v].file = f)
  <2>1. CASE AddCheck(v)
    <3>1. PICK g \in Unused : heap' = [heap EXCEPT ![g] = NewFile(frame[v].filename)]
      BY <2>1 DEF AddCheck, Allocate
    <3>2. g # f
      BY DEF Unused
    <3>3. QED
      BY <3>1, <3>2
  <2>2. CASE FreeFile(v) BY <1>1, <2>2 DEF FreeFile
  <2>3. CASE FreeMemory(v) BY <1>1, <2>3 DEF FreeMemory
  <2>4. CASE RemoveFree(v) BY <1>1, <2>4 DEF RemoveFree
  <2>5. CASE SetFileOpen(v) BY <2>5 DEF SetFileOpen, Unlocked
  <2>6. CASE SetFileClose(v) BY <2>6 DEF SetFileClose, Unlocked
  <2>7. CASE ReadLock(v) BY <2>7 DEF ReadLock, Unlocked
  <2>8. CASE WriteFile(v) BY <2>8 DEF WriteFile, AppendBytes, Unlocked
  <2>9. CASE ReadSend(v) BY <2>9 DEF ReadSend
  <2>10. CASE TakeJob(v) BY <1>2, <2>10 DEF TakeJob
  <2>11. CASE OpenInMem(v) BY <1>2, <2>11 DEF OpenInMem
  <2>12. CASE FindInMem(v) BY <1>2, <2>12 DEF FindInMem
  <2>13. CASE FindScan(v) BY <1>2, <2>13 DEF FindScan
  <2>14. CASE FindPolicy(v) BY <2>14 DEF FindPolicy
  <2>15. CASE IsActionLegal(v) BY <2>15 DEF IsActionLegal
  <2>16. CASE PlanFiles(v) BY <1>2, <2>16 DEF PlanFiles
  <2>17. CASE PopFile(v) BY <2>17 DEF PopFile
  <2>18. CASE PlanMemory(v) BY <1>2, <2>18 DEF PlanMemory
  <2>19. CASE MoreFiles(v) BY <1>2, <2>19 DEF MoreFiles
  <2>20. CASE PopMemory(v) BY <2>20 DEF PopMemory
  <2>39. CASE SubtractPopped(v) BY <1>2, <2>39 DEF SubtractPopped
  <2>21. CASE AddCount(v) BY <1>2, <2>21 DEF AddCount
  <2>22. CASE AddFirst(v) BY <2>22 DEF AddFirst
  <2>23. CASE AddHead(v) BY <2>23 DEF AddHead
  <2>24. CASE ReadCheck(v) BY <1>2, <2>24 DEF ReadCheck
  <2>25. CASE RecvMessage(v) BY <1>2, <2>25 DEF RecvMessage
  <2>26. CASE WriteMeta(v) BY <2>26 DEF WriteMeta
  <2>27. CASE CountFiles(v) BY <1>2, <2>27 DEF CountFiles
  <2>28. CASE GetHead(v) BY <1>2, <2>28 DEF GetHead
  <2>29. CASE SendN(v) BY <1>2, <2>29 DEF SendN
  <2>30. CASE SendNNext(v) BY <1>2, <2>30 DEF SendNNext
  <2>31. CASE RemoveInMem(v) BY <1>2, <2>31 DEF RemoveInMem
  <2>32. CASE RemovePop(v) BY <2>32 DEF RemovePop
  <2>33. CASE OutOfMemory(v) BY <1>2, <2>33 DEF OutOfMemory, Exit, End
  <2>34. CASE SetOpenOnNull(v) BY <1>2, <2>34 DEF SetOpenOnNull, Exit, End
  <2>35. CASE RemoveFails(v) BY <1>2, <2>35 DEF RemoveFails, Exit, End
  <2>36. CASE SendFails(v) BY <1>2, <2>36 DEF SendFails, Exit, End
  <2>37. CASE Crash(v) BY <1>2, <2>37 DEF Crash, End
  <2>38. CASE ClosedJobFreed(v) BY <1>2, <2>38 DEF ClosedJobFreed, End
  <2>40. QED
    BY <1>3, <2>1, <2>2, <2>3, <2>4, <2>5, <2>6, <2>7, <2>8, <2>9, <2>10, <2>11, <2>12, <2>13,
       <2>14, <2>15, <2>16, <2>17, <2>18, <2>19, <2>20, <2>21, <2>22, <2>23, <2>24, <2>25,
       <2>26, <2>27, <2>28, <2>29, <2>30, <2>31, <2>32, <2>33, <2>34, <2>35, <2>36, <2>37,
       <2>38, <2>39 DEF Step
<1>4. CASE Ended
  BY <1>4 DEF Ended, vars
<1>5. QED
  BY <1>3, <1>4 DEF Next

\* READ_FILE sends a file that stands still: the lock it takes before
\* send_message keeps every other worker's write, open, close and free away.
THEOREM SendsStable == Spec => StableWhileSent
<1>1. ASSUME IInv, [Next]_vars, NEW w \in Workers, NEW f \in FileIds,
             frame[w].pc = "read_send", frame[w].file = f, frame'[w].pc = "read_send"
      PROVE  heap'[f] = heap[f]
  <2>1. ~Freed(f) /\ heap[f].lockFile = w /\ w # NULL
    BY <1>1, MemoryAssumption DEF IInv, SendsLocked, Unused
  <2>2. CASE UNCHANGED vars
    BY <2>2 DEF vars
  <2>3. ASSUME NEW v \in Workers, ReadSend(v), frame[v].file = f
        PROVE  FALSE
    <3>1. heap[f].lockFile = v
      BY <1>1, <2>3 DEF ReadSend, At, IInv, SendsLocked
    <3>2. frame'[w] = Idle
      BY <1>1, <2>1, <2>3, <3>1 DEF ReadSend, Done, Become, IInv, TypeOK
    <3>3. QED
      BY <1>1, <3>2, IdleOK
  <2>4. CASE Next
    BY <1>1, <2>1, <2>3, <2>4, LockedFileStays
  <2>5. QED
    BY <1>1, <2>2, <2>4
<1>2. IInv /\ [Next]_vars =>
        [\A w \in Workers, f \in FileIds :
           frame[w].pc = "read_send" /\ frame[w].file = f /\ frame'[w].pc = "read_send"
             => heap'[f] = heap[f]]_vars
  BY <1>1
<1>3. QED
  BY <1>2, Invariant, PTL DEF Spec, StableWhileSent

=============================================================================
