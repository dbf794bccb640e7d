------------------------- MODULE StoreAsCacheProofs -------------------------
(***************************************************************************)
(* Proofs about StoreAsCache.tla: what holds of the store when one worker  *)
(* runs it, for every set of names, addresses and sizes and every limit    *)
(* that SequentialAssumption allows.                                       *)
(*                                                                         *)
(* While the server is on, nobody but the worker touches the store, so     *)
(* what it learnt in one section is still true in the next.  JobOK says,   *)
(* label by label, what the worker has learnt by then; StoreOK what the    *)
(* store is like until a stop at once; MainOK where main is.  OneInv has   *)
(* them all, and what is left of them after a stop at once, when main and  *)
(* the worker interleave.                                                  *)
(*                                                                         *)
(* The second half shows, section by section, that the store implements    *)
(* Cache.tla: what the cache sees of the list depends on the label the     *)
(* worker is at (PlainView, AskedView, GoneView), and from one such view   *)
(* to the next every section is an action of the cache or changes nothing. *)
(***************************************************************************)
EXTENDS StoreAsCache, ShutdownProofs, FunctionTheorems

-----------------------------------------------------------------------------
(* The invariant.                                                          *)

Finding == {"find_in", "find_scan", "find_policy"}

\* Nobody has a file of this name.
NoSuch(n) == \A f \in Listed : heap[f].filename # n

\* The operations that get to a label.
OpAt(fr) ==
  /\ fr.op \notin {"APPEND", "CLOSE"}
  /\ fr.pc = "in_mem" => fr.op \in {"CREATE", "OPEN"}
  /\ fr.pc \in Finding => fr.op \in {"OPEN", "READ", "WRITE", "REWRITE", "REMOVE", "POP"}
  /\ fr.pc \in {"legal", "plan", "plan_memory"} => fr.op \in {"CREATE", "WRITE"}
  /\ fr.pc \in {"pop_file", "free_file", "add_check"} \cup Creating => fr.op = "CREATE"
  /\ fr.pc \in {"more", "pop_memory", "subtract", "free_memory", "recv"} => fr.op = "WRITE"
  /\ fr.pc = "set_open" => fr.op \in {"CREATE", "OPEN"}
  /\ fr.pc # "set_close"
  /\ fr.pc \in {"write_meta", "write_file"} => fr.op = "REWRITE"
  /\ fr.pc = "remove_in" => fr.op = "REMOVE"
  /\ fr.pc \in {"remove_pop", "remove_free"} => fr.op = "POP"
  /\ fr.op = "CREATE" => fr.arg = 0
  /\ fr.op \in {"WRITE", "REWRITE"} => fr.arg \in Sizes

\* A pointer the worker carries from one section to the next leads to a file
\* of the list, and to the one the job is about.
PointersOK(fr) ==
  /\ fr.pc \in {"set_open", "read_check", "read_lock", "read_send", "write_meta",
                "write_file", "remove_in", "sendn", "sendn_next"} => fr.file \in Listed
  /\ (fr.pc \in Finding /\ fr.op = "POP") \/ fr.pc = "remove_in" =>
       fr.file \in Listed /\ heap[fr.file].filename = fr.filename
  /\ fr.pc = "find_policy" =>
       /\ fr.cursor \in Listed
       /\ heap[fr.cursor].filename = fr.filename
       /\ PolicyOf(fr.op) = "LRU"
  /\ fr.pc \in Finding /\ fr.op = "OPEN" => ~NoSuch(fr.filename)
  /\ fr.pc \in {"pop_memory", "remove_pop", "add_head"} => memory # <<>>
  /\ fr.pc \in Creating => heap[fr.file] = NewFile(fr.filename)
  /\ fr.op = "CREATE" /\ fr.pc \notin {"in_mem", "set_open"} => NoSuch(fr.filename)

\* What the worker counted is still so: the room it made for a file or for
\* bytes, and how much of the list it has yet to send.
CountsOK(fr) ==
  /\ fr.pc = "pop_file" => nCurrentFile = MaxFiles /\ fr.left = 1
  /\ fr.pc = "free_file" => fr.left = 1
  /\ fr.op = "CREATE" /\ fr.pc \in {"free_file", "plan_memory", "add_check"} \cup Creating =>
       nCurrentFile < MaxFiles
  /\ fr.pc \in {"more", "pop_memory", "free_memory"} =>
       fr.left = nCurrentMemoryUsed + fr.arg - MaxMemory
  /\ fr.pc = "subtract" =>
       fr.left = nCurrentMemoryUsed + heap[fr.victim].usedMemory + fr.arg - MaxMemory
  /\ fr.pc \in {"more", "pop_memory"} => fr.left > 0
  /\ fr.pc = "recv" \/ fr.op = "REWRITE" => nCurrentMemoryUsed + fr.arg <= MaxMemory
  /\ fr.pc = "head" => fr.left \in 1..nCurrentFile
  /\ fr.pc \in {"sendn", "sendn_next"} =>
       \E i \in DOMAIN memory : memory[i] = fr.file /\ fr.left \in 1..(Len(memory) - i + 1)

JobOK(fr) == OpAt(fr) /\ PointersOK(fr) /\ CountsOK(fr)

\* Names are distinct, both limits hold and the bytes are counted.
ListOK ==
  /\ \A f, g \in Listed : heap[f].filename = heap[g].filename => f = g
  /\ nCurrentFile <= MaxFiles
  /\ nCurrentMemoryUsed <= MaxMemory
  /\ nCurrentMemoryUsed = Bytes(memory)

\* Every allocated file is in the list or in somebody's hands.
Accounted ==
  server = "running" =>
    \A f \in FileIds : \/ Freed(f)
                       \/ f \in Listed
                       \/ \E w \in Workers : f \in Own(frame[w])
                       \/ main.pc = "clean_free" /\ main.node = f

StoreOK == ListOK /\ Accounted /\ server # "undefined"

MainLabels == {"select", "print_head", "print_test", "print_next", "clean_test",
               "clean_pop", "clean_free", "returned"}

\* Where main is in the mode it is in, and in a graceful end, when it is alone,
\* that it finds the list as it left it.
MainOK ==
  /\ mode \in {"ON", "GRACEFUL", "OFF"}
  /\ main.pc \in MainLabels
  /\ mode = "ON" <=> main.pc = "select"
  /\ main.pc = "returned" => server # "running"
  /\ mode = "GRACEFUL" =>
       /\ \A w \in Workers : frame[w] = Idle
       /\ main.pc \in {"print_test", "print_next"} =>
            /\ main.printed \in Nat
            /\ main.printed < Len(memory) => main.node = memory[main.printed + 1]
       /\ main.pc = "print_next" => main.printed < Len(memory)
       /\ main.pc = "clean_pop" => memory # <<>>

OneInv ==
  /\ SInv
  /\ CountedCovered
  /\ lost = {}
  /\ \A w \in Workers : frame[w].pc = "add_first" => memory = <<>>
  /\ MainOK
  /\ mode = "ON" => \A w \in Workers : JobOK(frame[w])
  /\ mode # "OFF" => StoreOK
  /\ GracefulLeavesNothing

-----------------------------------------------------------------------------
(* What follows for the store while one worker has it to itself.           *)

\* A file in no list and in no worker's hands is free.
AllHeld(fr) == \A f \in FileIds : Freed(f) \/ f \in Listed \/ f \in Own(fr)

JobInv(fr) ==
  /\ JobOK(fr)
  /\ ListOK
  /\ AllHeld(fr)
  /\ lost = {}
  /\ fr.pc = "add_first" => memory = <<>>

\* The worker goes on with a frame that is right for the store it leaves.
Advances(w) == \E fr : frame'[w] = fr /\ JobInv(fr)'

\* A list without repetition has as many files as places.
LEMMA PlacesOfList ==
  ASSUME NEW S, NEW s \in Seq(S), IsInjective(s)
  PROVE  IsFiniteSet(Range(s)) /\ Cardinality(Range(s)) = Len(s)
<1>1. Len(s) \in Nat /\ DOMAIN s = 1..Len(s) /\ s \in [1..Len(s) -> S]
  BY LenProperties
<1>2. s \in Bijection(1..Len(s), Range(s))
  BY <1>1 DEF Bijection, Injection, Surjection, Range, IsInjective
<1>3. IsFiniteSet(1..Len(s)) /\ Cardinality(1..Len(s)) = Len(s)
  BY <1>1, FS_Interval
<1>4. QED
  BY <1>2, <1>3, FS_Bijection DEF ExistsBijection

\* With no list out of reach nCurrentFile is the length of the list.
LEMMA StoreFacts ==
  ASSUME IInv, lost = {}
  PROVE  /\ Leaked = {} /\ Linked = Listed
         /\ nCurrentFile = Len(memory) /\ nCurrentFile \in Nat /\ nCurrentMemoryUsed \in Int
         /\ memory \in Seq(FileIds) /\ DOMAIN memory = 1..Len(memory)
         /\ Listed \subseteq FileIds
         /\ \A f \in Listed : ~Freed(f) /\ heap[f] \in FileMemory
         /\ \A i \in 1..Len(memory) : memory[i] \in Listed
         /\ \A f \in Listed : \E i \in 1..Len(memory) : memory[i] = f
         /\ \A i, j \in 1..Len(memory) : memory[i] = memory[j] => i = j
         /\ memory = <<>> <=> nCurrentFile = 0
<1>1. memory \in Seq(FileIds) /\ IsInjective(memory) /\ heap \in [FileIds -> FileMemory \cup {NULL}]
  BY DEF IInv, TypeOK, OneOwner
<1>2. DOMAIN memory = 1..Len(memory) /\ Len(memory) \in Nat
  BY <1>1, LenProperties
<1>3. Leaked = {} /\ Linked = Listed
  BY DEF Leaked, Linked
<1>4. nCurrentFile = Len(memory)
  BY <1>1, <1>3, PlacesOfList DEF IInv, CountExact, Listed
<1>5. Listed \subseteq FileIds /\ \A f \in Listed : ~Freed(f)
  BY <1>3, LinkedFacts DEF IInv, OneOwner
<1>6. \A f \in Listed : heap[f] \in FileMemory
  BY <1>1, <1>5 DEF Freed
<1>7. /\ \A i \in 1..Len(memory) : memory[i] \in Listed
      /\ \A f \in Listed : \E i \in 1..Len(memory) : memory[i] = f
  BY <1>2 DEF Listed, Range
<1>8. \A i, j \in 1..Len(memory) : memory[i] = memory[j] => i = j
  BY <1>1, <1>2 DEF IsInjective
<1>9. memory = <<>> <=> nCurrentFile = 0
  BY <1>1, <1>4, EmptySeq
<1>10. QED
  BY <1>1, <1>2, <1>3, <1>4, <1>5, <1>6, <1>7, <1>8, <1>9 DEF IInv, TypeOK

\* A walk of the list finds a name when there is a file of that name.
LEMMA NamesHere ==
  ASSUME IInv, lost = {}, NEW n
  PROVE  /\ Matches(n) = {} <=> NoSuch(n)
         /\ InMem(n) <=> ~NoSuch(n)
         /\ \A i \in Matches(n) : i \in 1..Len(memory) /\ memory[i] \in Listed
                                  /\ heap[memory[i]].filename = n
<1>1. Matches(n) = {i \in 1..Len(memory) : heap[memory[i]].filename = n}
  BY StoreFacts DEF Matches
<1>2. Matches(n) = {} <=> NoSuch(n)
  BY <1>1, StoreFacts DEF NoSuch
<1>3. \A i \in Matches(n) : i <= nCurrentFile
  BY <1>1, StoreFacts
<1>4. QED
  BY <1>1, <1>2, <1>3, StoreFacts DEF InMem

\* A file of the list is not freed, and the walk that looks for its name ends.
LEMMA ListedGood ==
  ASSUME IInv, lost = {}, NEW f \in Listed
  PROVE  /\ f \in FileIds \ Unused /\ ~Dangling(f)
         /\ NamedLike(f) # {}
         /\ ~NoSuch(heap[f].filename)
<1>1. f \in FileIds \ Unused /\ ~Dangling(f)
  BY StoreFacts DEF Unused, Freed, Dangling
<1>2. ~NoSuch(heap[f].filename)
  BY DEF NoSuch
<1>3. PICK i \in Matches(heap[f].filename) : TRUE
  BY <1>2, NamesHere
<1>4. i \in DOMAIN memory
  BY DEF Matches
<1>5. QED
  BY <1>1, <1>2, <1>3, <1>4 DEF NamedLike

\* The worker that has the store to itself never follows a bad pointer.
LEMMA NoFault ==
  ASSUME IInv, NEW w \in Workers, JobInv(frame[w])
  PROVE  ~FollowsBadPointer(w)
<1> DEFINE fr == frame[w]
<1>1. lost = {} /\ OpAt(fr) /\ PointersOK(fr)
  BY DEF JobInv, JobOK
<1>2. ~InMemFaults
  BY <1>1, StoreFacts DEF InMemFaults
<1>3. fr.pc \in {"find_in", "find_scan"} /\ fr.op = "POP" => ~Dangling(fr.file)
  BY <1>1, ListedGood DEF PointersOK, Finding
<1>4. fr.pc = "find_policy" => ~Dangling(fr.cursor) /\ NamedLike(fr.cursor) # {}
  BY <1>1, ListedGood DEF PointersOK
<1>5. fr.pc \in {"pop_memory", "add_head"} => memory # <<>>
  BY <1>1 DEF PointersOK
<1>6. fr.pc \in {"set_open", "read_check", "read_lock", "read_send", "write_meta",
                "write_file", "remove_in", "sendn", "sendn_next"} => ~Dangling(fr.file) /\ fr.file \notin Unused
  BY <1>1, ListedGood DEF PointersOK
<1>7. fr.pc # "set_close"
  BY <1>1 DEF OpAt
<1> HIDE DEF fr
<1>8. QED
  BY <1>2, <1>3, <1>4, <1>5, <1>6, <1>7 DEF FollowsBadPointer, fr

-----------------------------------------------------------------------------
(* Sections that only read, or that change what nobody else sees.          *)

\* JobInv of a frame speaks of the list, the heap and the counters only.
LEMMA StoreStays ==
  ASSUME UNCHANGED <<lists, heap, counters, policy>>, NEW fr
  PROVE  JobInv(fr)' <=> JobInv(fr)
BY DEF lists, counters, JobInv, JobOK, OpAt, PointersOK, CountsOK, PolicyOf, ListOK, AllHeld, Freed,
       Listed, NoSuch, Bytes, Places

\* A worker moves on and the store stays as it is.
LEMMA MovesOn ==
  ASSUME IInv, NEW w \in Workers, NEW fr, Become(w, fr),
         UNCHANGED <<lists, heap, counters, policy>>,
         JobInv(frame[w]), Own(frame[w]) \subseteq Own(fr), JobOK(fr),
         fr.pc = "add_first" => memory = <<>>
  PROVE  Advances(w)
<1>1. frame'[w] = fr
  BY DEF Become, IInv, TypeOK
<1>2. JobInv(fr)
  BY DEF JobInv, AllHeld
<1>3. JobInv(fr)'
  BY <1>2, StoreStays
<1>4. QED
  BY <1>1, <1>3 DEF Advances

\* A worker without a job has learnt nothing.
LEMMA IdleJob == JobOK(Idle)
<1>1. Idle.pc = "idle" /\ Idle.op = NULL
  BY DEF Idle, NewFrame
<1>2. NULL \notin Phases
  BY WorkersAssumption
<1>3. OpAt(Idle)
  BY <1>1, <1>2 DEF OpAt, Finding, Creating, Phases, AllOps
<1>4. PointersOK(Idle)
  BY <1>1, <1>2 DEF PointersOK, Finding, Creating, Phases, AllOps
<1>5. CountsOK(Idle)
  BY <1>1, <1>2 DEF CountsOK, Finding, Creating, Phases, AllOps
<1>6. QED
  BY <1>3, <1>4, <1>5 DEF JobOK

\* The worker owns nothing where it neither creates nor frees a file.
LEMMA OwnsNone == ASSUME NEW fr, fr.pc \notin Creating \cup Freeing PROVE Own(fr) = {}
BY DEF Own

\* A job ends.
LEMMA JobEnds ==
  ASSUME IInv, NEW w \in Workers, Done(w), UNCHANGED <<lists, heap, counters, policy>>,
         JobInv(frame[w]), frame[w].pc \notin Creating \cup Freeing
  PROVE  Advances(w)
<1>1. Own(frame[w]) = {}
  BY OwnsNone
<1>2. Idle.pc # "add_first"
  BY IdleOK
<1>3. QED
  BY <1>1, <1>2, IdleJob, MovesOn DEF Done

\* A section that only reads, where the worker has no file in its hands.
LEMMA ReadsOn ==
  ASSUME IInv, NEW w \in Workers, NEW fr, Become(w, fr), UNCHANGED storeVars,
         JobInv(frame[w]), frame[w].pc \notin Creating \cup Freeing,
         JobOK(fr), fr.pc # "add_first"
  PROVE  Advances(w)
<1>1. UNCHANGED <<lists, heap, counters, policy>>
  BY DEF storeVars, lists, counters
<1>2. Own(frame[w]) = {}
  BY OwnsNone
<1>3. QED
  BY <1>1, <1>2, MovesOn

\* The fields of a frame that is only at another label.
LEMMA AtLabel ==
  ASSUME NEW fr \in Frames, NEW label
  PROVE  LET g == [fr EXCEPT !.pc = label]
         IN  /\ g.pc = label /\ g.op = fr.op /\ g.filename = fr.filename /\ g.arg = fr.arg
             /\ g.file = fr.file /\ g.cursor = fr.cursor /\ g.left = fr.left /\ g.victim = fr.victim
BY DEF Frames

\* A worker takes a job that a client may ask for.
LEMMA TakeJobOn ==
  ASSUME IInv, NEW w \in Workers, JobInv(frame[w]), TakeJob(w)
  PROVE  Advances(w)
<1>1. PICK op \in Ops : \E n \in NamesOf(op), k \in ArgsOf(op) :
        Become(w, NewFrame(FirstLabel(op), op, n, k))
  BY DEF TakeJob
<1>2. PICK n \in NamesOf(op), k \in ArgsOf(op) : Become(w, NewFrame(FirstLabel(op), op, n, k))
  BY <1>1
<1> DEFINE fr == NewFrame(FirstLabel(op), op, n, k)
<1>3. op \in {"CREATE", "OPEN", "READ", "WRITE", "READN", "REMOVE"}
  BY WorkersAssumption, SequentialAssumption DEF AllOps
<1>4. /\ fr.pc = FirstLabel(op) /\ fr.op = op /\ fr.arg = k
      /\ fr.pc \in {"in_mem", "count", "find_in"}
      /\ fr.pc = "in_mem" <=> op \in {"CREATE", "OPEN"}
      /\ fr.pc = "count" <=> op = "READN"
  BY <1>3 DEF NewFrame, FirstLabel
<1>5. (op = "CREATE" => k = 0) /\ (op = "WRITE" => k \in Sizes)
  BY DEF ArgsOf, Writing
<1>6. Become(w, fr) /\ UNCHANGED storeVars /\ frame[w].pc \notin Creating \cup Freeing
  BY <1>2 DEF TakeJob, At, Creating, Freeing
<1> HIDE DEF fr
<1>7. OpAt(fr)
  BY <1>3, <1>4, <1>5 DEF OpAt, Finding, Creating
<1>8. PointersOK(fr) /\ CountsOK(fr)
  BY <1>3, <1>4 DEF PointersOK, CountsOK, Finding, Creating
<1>9. QED
  BY <1>4, <1>6, <1>7, <1>8, ReadsOn DEF JobOK

\* The lookup that begins OPEN_FILE.
LEMMA OpenInMemOn ==
  ASSUME IInv, NEW w \in Workers, JobInv(frame[w]), OpenInMem(w)
  PROVE  Advances(w)
<1> DEFINE fr == frame[w]
<1>1. /\ fr \in Frames /\ fr.pc = "in_mem" /\ fr.pc \notin Creating \cup Freeing
      /\ lost = {} /\ OpAt(fr) /\ UNCHANGED storeVars
  BY FrameFacts DEF OpenInMem, At, Creating, Freeing, JobInv, JobOK
<1>2. CASE fr.op = "CREATE" /\ ~InMem(fr.filename) /\ Go(w, "legal")
  <2> DEFINE g == [fr EXCEPT !.pc = "legal"]
  <2>1. Become(w, g) /\ g.pc = "legal" /\ g.op = fr.op /\ g.filename = fr.filename /\ g.arg = fr.arg
    BY <1>1, <1>2, AtLabel DEF Go
  <2> HIDE DEF g, fr
  <2>2. OpAt(g)
    BY <1>1, <1>2, <2>1 DEF OpAt, Finding, Creating
  <2>3. NoSuch(g.filename)
    BY <1>1, <1>2, <2>1, NamesHere
  <2>4. PointersOK(g) /\ CountsOK(g)
    BY <1>2, <2>1, <2>3 DEF PointersOK, CountsOK, Finding, Creating
  <2>5. QED
    BY <1>1, <2>1, <2>2, <2>4, ReadsOn DEF JobOK, fr
<1>3. CASE fr.op = "OPEN" /\ InMem(fr.filename) /\ Go(w, "find_in")
  <2> DEFINE g == [fr EXCEPT !.pc = "find_in"]
  <2>1. Become(w, g) /\ g.pc = "find_in" /\ g.op = fr.op /\ g.filename = fr.filename /\ g.arg = fr.arg
    BY <1>1, <1>3, AtLabel DEF Go
  <2> HIDE DEF g, fr
  <2>2. OpAt(g)
    BY <1>1, <1>3, <2>1 DEF OpAt, Finding, Creating
  <2>3. ~NoSuch(g.filename)
    BY <1>1, <1>3, <2>1, NamesHere
  <2>4. PointersOK(g) /\ CountsOK(g)
    BY <1>3, <2>1, <2>3 DEF PointersOK, CountsOK, Finding, Creating
  <2>5. QED
    BY <1>1, <2>1, <2>2, <2>4, ReadsOn DEF JobOK, fr
<1>4. CASE Done(w)
  BY <1>1, <1>4, JobEnds DEF storeVars, lists, counters
<1>5. QED
  BY <1>2, <1>3, <1>4 DEF OpenInMem

\* find_file has found the file a job is about.
LEMMA FoundJob ==
  ASSUME NEW fr \in Frames, fr.pc \in Finding, JobOK(fr),
         NEW f \in Listed, f # NULL, heap[f].filename = fr.filename, memory # <<>>
  PROVE  LET g == FoundFrame(fr, f)
         IN  JobOK(g) /\ g.pc \notin {"add_first", "sendn", "sendn_next"}
<1> DEFINE g == FoundFrame(fr, f)
<1>1. OpAt(fr) /\ PointersOK(fr) /\ CountsOK(fr)
  BY DEF JobOK
<1>2. fr.op \in {"OPEN", "READ", "WRITE", "REWRITE", "REMOVE", "POP"}
  BY <1>1 DEF OpAt
<1>3. /\ g.pc = AfterFind(fr.op) /\ g.op = fr.op /\ g.filename = fr.filename /\ g.arg = fr.arg
      /\ g.file = IF fr.op = "POP" THEN fr.file ELSE f
  BY DEF FoundFrame, Frames
<1>4. /\ fr.op = "OPEN" => g.pc = "set_open"
      /\ fr.op = "READ" => g.pc = "read_check"
      /\ fr.op = "WRITE" => g.pc = "legal"
      /\ fr.op = "REWRITE" => g.pc = "write_meta"
      /\ fr.op = "REMOVE" => g.pc = "remove_in"
      /\ fr.op = "POP" => g.pc = "remove_pop"
  BY <1>3 DEF AfterFind, Writing
<1> HIDE DEF g
<1>5. OpAt(g)
  BY <1>1, <1>2, <1>3, <1>4 DEF OpAt, Finding, Creating
<1>6. PointersOK(g)
  BY <1>2, <1>3, <1>4 DEF PointersOK, Finding, Creating
<1>7. CountsOK(g)
  BY <1>1, <1>2, <1>3, <1>4 DEF CountsOK, Finding, Creating
<1>8. QED
  BY <1>2, <1>4, <1>5, <1>6, <1>7 DEF JobOK, g

\* What find_file makes of a frame.
LEMMA FoundIs ==
  ASSUME IInv, NEW w \in Workers, NEW f, FindReturns(w, f)
  PROVE  Become(w, FoundFrame(frame[w], f))
BY FrameFacts DEF FindReturns, FoundFrame, Done, Frames

\* inMem, at the start of find_file.
LEMMA FindInMemOn ==
  ASSUME IInv, NEW w \in Workers, JobInv(frame[w]), FindInMem(w)
  PROVE  Advances(w)
<1> DEFINE fr == frame[w]
<1>1. /\ fr \in Frames /\ fr.pc = "find_in" /\ fr.pc \notin Creating \cup Freeing
      /\ lost = {} /\ OpAt(fr) /\ PointersOK(fr) /\ CountsOK(fr) /\ UNCHANGED storeVars
      /\ fr.op \in {"OPEN", "READ", "WRITE", "REWRITE", "REMOVE", "POP"}
  BY FrameFacts DEF FindInMem, At, Creating, Freeing, JobInv, JobOK, OpAt, Finding
<1>2. CASE Go(w, "find_scan")
  <2> DEFINE g == [fr EXCEPT !.pc = "find_scan"]
  <2>1. /\ Become(w, g) /\ g.pc = "find_scan" /\ g.op = fr.op /\ g.filename = fr.filename
        /\ g.arg = fr.arg /\ g.file = fr.file
    BY <1>1, <1>2, AtLabel DEF Go
  <2> HIDE DEF g, fr
  <2>2. OpAt(g)
    BY <1>1, <2>1 DEF OpAt, Finding, Creating
  <2>3. PointersOK(g)
    BY <1>1, <2>1 DEF PointersOK, Finding, Creating
  <2>4. CountsOK(g)
    BY <1>1, <2>1 DEF CountsOK, Finding, Creating
  <2>5. QED
    BY <1>1, <2>1, <2>2, <2>3, <2>4, ReadsOn DEF JobOK, fr
<1>3. CASE ~InMem(WantedName(fr)) /\ FindReturns(w, NULL)
  <2>1. fr.op # "POP"
    <3> SUFFICES ASSUME fr.op = "POP" PROVE FALSE
      OBVIOUS
    <3>1. fr.file \in Listed
      BY <1>1 DEF PointersOK, Finding
    <3>2. ~NoSuch(heap[fr.file].filename)
      BY <1>1, <3>1, ListedGood
    <3>3. QED
      BY <1>1, <1>3, <3>2, NamesHere DEF WantedName
  <2>2. fr.op # "OPEN"
    <3> SUFFICES ASSUME fr.op = "OPEN" PROVE FALSE
      OBVIOUS
    <3>1. ~NoSuch(fr.filename)
      BY <1>1 DEF PointersOK, Finding
    <3>2. QED
      BY <1>1, <1>3, <3>1, NamesHere DEF WantedName
  <2>3. Done(w)
    BY <1>1, <1>3, <2>1, <2>2 DEF FindReturns, Frames
  <2>4. QED
    BY <1>1, <2>3, JobEnds DEF storeVars, lists, counters
<1>4. QED
  BY <1>2, <1>3 DEF FindInMem

\* The name find_file looks for is the one of the job.
LEMMA WantedIsNamed ==
  ASSUME NEW fr, fr.pc \in Finding, JobOK(fr)
  PROVE  WantedName(fr) = fr.filename
BY DEF WantedName, JobOK, PointersOK

\* The walk of find_file, which ends at the file that inMem has seen.
LEMMA FindScanOn ==
  ASSUME IInv, NEW w \in Workers, JobInv(frame[w]), FindScan(w)
  PROVE  Advances(w)
<1> DEFINE fr == frame[w]
           n == WantedName(fr)
<1>1. /\ fr \in Frames /\ fr.pc = "find_scan" /\ fr.pc \notin Creating \cup Freeing
      /\ lost = {} /\ OpAt(fr) /\ PointersOK(fr) /\ CountsOK(fr) /\ UNCHANGED storeVars
      /\ fr.op \in {"OPEN", "READ", "WRITE", "REWRITE", "REMOVE", "POP"}
      /\ fr.pc \in Finding /\ JobOK(fr)
  BY FrameFacts DEF FindScan, At, Creating, Freeing, JobInv, JobOK, OpAt, Finding
<1>2. n = fr.filename
  BY <1>1, WantedIsNamed
<1>3. CASE Matches(n) = {} /\ FindReturns(w, NULL)
  <2>1. NoSuch(fr.filename)
    BY <1>1, <1>2, <1>3, NamesHere
  <2>2. fr.op # "POP" /\ fr.op # "OPEN"
    BY <1>1, <2>1 DEF PointersOK, NoSuch
  <2>3. Done(w)
    BY <1>1, <1>3, <2>2 DEF FindReturns, Frames
  <2>4. QED
    BY <1>1, <2>3, JobEnds DEF storeVars, lists, counters
<1>4. ASSUME NEW i \in FirstMatch(n),
             IF PolicyOf(fr.op) = "LRU"
             THEN Become(w, [fr EXCEPT !.pc = "find_policy", !.cursor = memory[i]])
             ELSE FindReturns(w, memory[i])
      PROVE  Advances(w)
  <2>1. /\ i \in 1..Len(memory) /\ memory[i] \in Listed /\ heap[memory[i]].filename = fr.filename
    BY <1>1, <1>2, NamesHere DEF FirstMatch
  <2>2. memory[i] # NULL /\ memory # <<>>
    BY <1>1, <2>1, StoreFacts, MemoryAssumption
  <2>3. CASE PolicyOf(fr.op) = "LRU"
    <3> DEFINE g == [fr EXCEPT !.pc = "find_policy", !.cursor = memory[i]]
    <3>1. /\ Become(w, g) /\ g.pc = "find_policy" /\ g.op = fr.op /\ g.filename = fr.filename
          /\ g.arg = fr.arg /\ g.file = fr.file /\ g.cursor = memory[i]
      BY <1>1, <1>4, <2>3 DEF Frames
    <3> HIDE DEF g, fr
    <3>2. OpAt(g)
      BY <1>1, <3>1 DEF OpAt, Finding, Creating
    <3>3. PointersOK(g)
      BY <1>1, <2>1, <2>3, <3>1 DEF PointersOK, Finding, Creating
    <3>4. CountsOK(g)
      BY <1>1, <3>1 DEF CountsOK, Finding, Creating
    <3>5. QED
      BY <1>1, <3>1, <3>2, <3>3, <3>4, ReadsOn DEF JobOK, fr
  <2>4. CASE PolicyOf(fr.op) # "LRU"
    <3> DEFINE g == FoundFrame(fr, memory[i])
    <3>1. Become(w, g)
      BY <1>4, <2>4, FoundIs
    <3>2. JobOK(g) /\ g.pc # "add_first"
      BY <1>1, <2>1, <2>2, FoundJob
    <3> HIDE DEF g
    <3>3. QED
      BY <1>1, <3>1, <3>2, ReadsOn
  <2>5. QED
    BY <2>3, <2>4
<1>5. QED
  BY <1>3, <1>4 DEF FindScan

\* The list in another order, for a frame that carries no place of it.
LEMMA OrderChanges ==
  ASSUME NEW fr, JobInv(fr), fr.pc \notin {"sendn", "sendn_next"},
         Range(memory') = Range(memory), memory # <<>>, memory' # <<>>,
         UNCHANGED <<lost, heap, counters, policy>>
  PROVE  JobInv(fr)'
<1>1. Listed' = Listed
  BY DEF Listed
<1>2. OpAt(fr)
  BY DEF JobInv, JobOK
<1>3. ListOK'
  BY <1>1 DEF JobInv, ListOK, Bytes, Places, counters
<1>4. AllHeld(fr)'
  BY <1>1 DEF JobInv, AllHeld, Freed
<1>5. PointersOK(fr)'
  BY <1>1 DEF JobInv, JobOK, PointersOK, NoSuch, PolicyOf
<1>6. CountsOK(fr)'
  BY DEF JobInv, JobOK, CountsOK, counters
<1>7. OpAt(fr)'
  BY <1>2 DEF OpAt
<1>8. QED
  BY <1>3, <1>4, <1>5, <1>6, <1>7 DEF JobInv, JobOK

\* policy_routine moves the file that was looked up to the head.
LEMMA FindPolicyOn ==
  ASSUME IInv, NEW w \in Workers, JobInv(frame[w]), FindPolicy(w)
  PROVE  Advances(w)
<1> DEFINE fr == frame[w]
           f == fr.cursor
<1>0. PICK g : g = FoundFrame(fr, f)
  OBVIOUS
<1>1. /\ fr \in Frames /\ fr.pc = "find_policy" /\ fr.pc \notin Creating \cup Freeing
      /\ lost = {} /\ PointersOK(fr) /\ fr.pc \in Finding /\ JobOK(fr)
      /\ FindReturns(w, f)
      /\ UNCHANGED <<lost, heap, counters, policy>>
  BY FrameFacts DEF FindPolicy, At, Creating, Freeing, JobInv, JobOK, Finding
<1>2. f \in Listed /\ heap[f].filename = fr.filename
  BY <1>1 DEF PointersOK
<1>3. f # NULL /\ memory # <<>>
  BY <1>1, <1>2, StoreFacts, MemoryAssumption
<1>4. PICK i \in DOMAIN memory : memory' = MovedToFront(memory, i)
  BY DEF FindPolicy, FirstMatch, Matches
<1>5. memory \in Seq(FileIds) /\ IsInjective(memory)
  BY DEF IInv, TypeOK, OneOwner
<1>6. Range(memory') = Range(memory) /\ Len(memory') = Len(memory)
  BY <1>4, <1>5, MovedList
<1>7. memory' # <<>>
  BY <1>3, <1>5, <1>6, EmptySeq
<1>8. Become(w, g)
  BY <1>0, <1>1, FoundIs
<1>9. JobOK(g) /\ g.pc \notin {"add_first", "sendn", "sendn_next"}
  BY <1>0, <1>1, <1>2, <1>3, FoundJob
<1>10. Own(fr) = {}
  BY <1>1, OwnsNone
<1> HIDE DEF fr
<1>11. JobInv(g)
  BY <1>9, <1>10 DEF JobInv, AllHeld, fr
<1>12. JobInv(g)'
  BY <1>1, <1>3, <1>6, <1>7, <1>9, <1>11, OrderChanges
<1>13. frame'[w] = g
  BY <1>8 DEF Become, IInv, TypeOK
<1>14. QED
  BY <1>12, <1>13 DEF Advances

-----------------------------------------------------------------------------
(* The bytes of the list.                                                  *)

\* One file of some, and the others.
LEMMA PlacesSplit ==
  ASSUME NEW h, NEW S, S \subseteq FileIds, \A f \in S : h[f] \in FileMemory, NEW x \in S
  PROVE  /\ Cardinality(PlacesIn(h, S)) = Cardinality(PlacesIn(h, S \ {x})) + h[x].usedMemory
         /\ Cardinality(PlacesIn(h, S \ {x})) \in Nat
<1> DEFINE P == PlacesIn(h, S \ {x})
           D == {x} \X (1..h[x].usedMemory)
<1>1. h[x].usedMemory \in Nat
  BY DEF FileMemory
<1>2. IsFiniteSet(D) /\ Cardinality(D) = h[x].usedMemory
  BY <1>1, BytesOfFile
<1>3. IsFiniteSet(P) /\ Cardinality(P) \in Nat
  BY CountedFinite
<1>4. PlacesIn(h, S) = P \cup D
  <2>1. PlacesIn(h, S) \subseteq P \cup D
    <3> SUFFICES ASSUME NEW f \in S, NEW p \in {f} \X (1..h[f].usedMemory)
                 PROVE  p \in P \cup D
      BY DEF PlacesIn
    <3>1. CASE f = x
      BY <3>1
    <3>2. CASE f # x
      BY <3>2 DEF PlacesIn
    <3>3. QED
      BY <3>1, <3>2
  <2>2. P \cup D \subseteq PlacesIn(h, S)
    BY DEF PlacesIn
  <2>3. QED
    BY <2>1, <2>2
<1>5. P \cap D = {}
  BY DEF PlacesIn
<1>6. Cardinality(P \cup D) = Cardinality(P) + Cardinality(D) - Cardinality(P \cap D)
  BY <1>2, <1>3, FS_Union
<1>7. Cardinality(P \cap D) = 0
  BY <1>5, FS_EmptySet
<1>8. Cardinality(PlacesIn(h, S)) = Cardinality(P \cup D)
  BY <1>4
<1> HIDE DEF P, D
<1>9. Cardinality(PlacesIn(h, S)) = Cardinality(P) + h[x].usedMemory
  BY <1>1, <1>2, <1>3, <1>6, <1>7, <1>8
<1>10. QED
  BY <1>3, <1>9 DEF P

\* The same, of the list.
LEMMA BytesAre == Bytes(memory) = Cardinality(PlacesIn(heap, Listed))
BY DEF Bytes, Places, PlacesIn, Listed

\* After a step.
LEMMA BytesAreNext == Bytes(memory)' = Cardinality(PlacesIn(heap', Listed'))
BY DEF Bytes, Places, PlacesIn, Listed

\* The files of the list keep their names and bytes.
LEMMA ListKept ==
  ASSUME ListOK, Listed' = Listed, UNCHANGED counters,
         \A f \in Listed : heap'[f].filename = heap[f].filename /\ heap'[f].usedMemory = heap[f].usedMemory
  PROVE  ListOK'
<1>1. PlacesIn(heap', Listed') = PlacesIn(heap, Listed)
  <2>1. \A f \in Listed : {f} \X (1..heap'[f].usedMemory) = {f} \X (1..heap[f].usedMemory)
    OBVIOUS
  <2>2. PlacesIn(heap', Listed) = PlacesIn(heap, Listed)
    BY <2>1, Zenon DEF PlacesIn
  <2>3. QED
    BY <2>2
<1>2. Bytes(memory)' = Bytes(memory)
  BY <1>1, BytesAre, BytesAreNext
<1>3. QED
  BY <1>2 DEF ListOK, counters

\* A file leaves the list and its bytes are taken off the count.
LEMMA ListShrinks ==
  ASSUME IInv, lost = {}, ListOK, NEW x \in Listed, Listed' = Listed \ {x}, Uncount(x), UNCHANGED heap
  PROVE  ListOK' /\ heap[x].usedMemory \in Nat
<1>1. /\ Listed \subseteq FileIds /\ (\A f \in Listed : heap[f] \in FileMemory)
      /\ nCurrentFile \in Nat /\ nCurrentMemoryUsed \in Int
  BY StoreFacts
<1>2. heap[x].usedMemory \in Nat
  BY <1>1 DEF FileMemory
<1>3. /\ Cardinality(PlacesIn(heap, Listed)) = Cardinality(PlacesIn(heap, Listed')) + heap[x].usedMemory
      /\ Cardinality(PlacesIn(heap, Listed')) \in Nat
  BY <1>1, PlacesSplit
<1>4. nCurrentMemoryUsed = Cardinality(PlacesIn(heap, Listed))
  BY BytesAre DEF ListOK
<1>5. nCurrentMemoryUsed' = nCurrentMemoryUsed - heap[x].usedMemory /\ nCurrentFile' = nCurrentFile - 1
  BY DEF Uncount
<1>6. nCurrentMemoryUsed' = Cardinality(PlacesIn(heap', Listed'))
  BY <1>2, <1>3, <1>4, <1>5
<1>7. nCurrentMemoryUsed' = Bytes(memory)'
  BY <1>6, BytesAreNext
<1>8. nCurrentFile' <= MaxFiles /\ nCurrentMemoryUsed' <= MaxMemory
  BY <1>1, <1>2, <1>5, MemoryAssumption DEF ListOK
<1>9. QED
  BY <1>2, <1>7, <1>8 DEF ListOK

\* An empty list has no bytes.
LEMMA NoBytes == memory = <<>> => Bytes(memory) = 0
<1> SUFFICES ASSUME memory = <<>> PROVE Bytes(memory) = 0
  OBVIOUS
<1>1. Listed = {}
  BY DEF Listed, Range
<1>2. PlacesIn(heap, Listed) = {}
  BY <1>1 DEF PlacesIn
<1>3. QED
  BY <1>2, BytesAre, FS_EmptySet

-----------------------------------------------------------------------------
(* cache_algorithm.                                                        *)

\* cache_algorithm returns with the room it was asked for.
LEMMA CacheJob ==
  ASSUME NEW fr \in Frames, JobOK(fr), fr.op \in {"CREATE", "WRITE"}, fr.pc \notin {"in_mem", "set_open"},
         fr.op = "CREATE" => nCurrentFile < MaxFiles,
         fr.op = "WRITE" => nCurrentMemoryUsed + fr.arg <= MaxMemory
  PROVE  JobOK(AfterCache(fr)) /\ AfterCache(fr).pc \in {"add_check", "recv"}
<1> DEFINE g == AfterCache(fr)
<1>1. /\ g.pc = IF fr.op = "CREATE" THEN "add_check" ELSE "recv"
      /\ g.op = fr.op /\ g.filename = fr.filename /\ g.arg = fr.arg
  BY DEF AfterCache, Frames
<1>2. OpAt(fr) /\ PointersOK(fr)
  BY DEF JobOK
<1> HIDE DEF g
<1>3. OpAt(g)
  BY <1>1, <1>2 DEF OpAt, Finding, Creating
<1>4. PointersOK(g)
  BY <1>1, <1>2 DEF PointersOK, Finding, Creating
<1>5. CountsOK(g)
  BY <1>1 DEF CountsOK, Creating
<1>6. QED
  BY <1>1, <1>3, <1>4, <1>5 DEF JobOK, g

\* The arguments of cache_algorithm, and what SequentialAssumption says of them.
LEMMA CacheArgs ==
  ASSUME IInv, NEW w \in Workers, JobInv(frame[w]), frame[w].op \in {"CREATE", "WRITE"}
  PROVE  /\ NewFiles(w) = (IF frame[w].op = "CREATE" THEN 1 ELSE 0)
         /\ NewBytes(w) = frame[w].arg
         /\ frame[w].arg \in Nat /\ frame[w].arg < MaxMemory + 1
         /\ frame[w].op = "CREATE" => frame[w].arg = 0
         /\ frame[w].op = "WRITE" => frame[w].arg < MaxMemory
         /\ ~TooBig(w)
         /\ nCurrentFile \in Nat /\ nCurrentMemoryUsed \in Int
         /\ nCurrentFile <= MaxFiles /\ nCurrentMemoryUsed <= MaxMemory
<1>1. /\ frame[w].op = "CREATE" => frame[w].arg = 0
      /\ frame[w].op = "WRITE" => frame[w].arg \in Sizes
  BY DEF JobInv, JobOK, OpAt
<1>2. frame[w].arg \in Nat /\ MaxFiles \in Nat /\ MaxMemory \in Nat
  BY FrameFacts, MemoryAssumption DEF Frames
<1>3. frame[w].op = "WRITE" => frame[w].arg < MaxMemory
  BY <1>1, SequentialAssumption
<1>4. ~TooBig(w)
  BY <1>1, <1>2, <1>3, SequentialAssumption DEF TooBig, NewFiles, NewBytes
<1>5. frame[w].arg < MaxMemory + 1
  BY <1>1, <1>2, <1>3
<1>6. QED
  BY <1>1, <1>2, <1>3, <1>4, <1>5 DEF NewFiles, NewBytes, JobInv, ListOK, IInv, TypeOK

\* is_action_legal.
LEMMA IsActionLegalOn ==
  ASSUME IInv, NEW w \in Workers, JobInv(frame[w]), IsActionLegal(w)
  PROVE  Advances(w)
<1> DEFINE fr == frame[w]
<1>1. /\ fr \in Frames /\ fr.pc = "legal" /\ fr.pc \notin Creating \cup Freeing
      /\ JobOK(fr) /\ OpAt(fr) /\ PointersOK(fr)
      /\ fr.op \in {"CREATE", "WRITE"}
      /\ UNCHANGED <<lists, heap, counters, policy>>
  BY FrameFacts DEF IsActionLegal, At, Creating, Freeing, JobInv, JobOK, OpAt
<1>2. Own(fr) = {}
  BY <1>1, OwnsNone
<1>3. CASE IsLegal(NewFiles(w), NewBytes(w)) /\ CacheDone(w)
  <2>1. /\ fr.op = "CREATE" => nCurrentFile < MaxFiles
        /\ fr.op = "WRITE" => nCurrentMemoryUsed + fr.arg <= MaxMemory
    BY <1>1, <1>3, CacheArgs, MemoryAssumption DEF IsLegal
  <2>2. JobOK(AfterCache(fr)) /\ AfterCache(fr).pc # "add_first"
    BY <1>1, <2>1, CacheJob
  <2>3. QED
    BY <1>1, <1>2, <1>3, <2>2, MovesOn DEF CacheDone
<1>4. CASE Go(w, "plan")
  <2> DEFINE g == [fr EXCEPT !.pc = "plan"]
  <2>1. Become(w, g) /\ g.pc = "plan" /\ g.op = fr.op /\ g.filename = fr.filename /\ g.arg = fr.arg
    BY <1>1, <1>4, AtLabel DEF Go
  <2> HIDE DEF g, fr
  <2>2. OpAt(g)
    BY <1>1, <2>1 DEF OpAt, Finding, Creating
  <2>3. PointersOK(g) /\ CountsOK(g)
    BY <1>1, <2>1 DEF PointersOK, CountsOK, Finding, Creating
  <2>4. QED
    BY <1>1, <1>2, <2>1, <2>2, <2>3, MovesOn DEF JobOK, fr
<1>5. QED
  BY <1>3, <1>4 DEF IsActionLegal

\* The number of files to evict: one, for a file, from a full list.
LEMMA PlanFilesOn ==
  ASSUME IInv, NEW w \in Workers, JobInv(frame[w]), PlanFiles(w)
  PROVE  Advances(w)
<1> DEFINE fr == frame[w]
           excess == nCurrentFile + NewFiles(w) - MaxFiles
<1>1. /\ fr \in Frames /\ fr.pc = "plan" /\ fr.pc \notin Creating \cup Freeing
      /\ JobOK(fr) /\ OpAt(fr) /\ PointersOK(fr)
      /\ fr.op \in {"CREATE", "WRITE"}
      /\ UNCHANGED storeVars
  BY FrameFacts DEF PlanFiles, At, Creating, Freeing, JobInv, JobOK, OpAt
<1>2. /\ ~TooBig(w) /\ nCurrentFile \in Nat /\ nCurrentFile <= MaxFiles
      /\ NewFiles(w) = IF fr.op = "CREATE" THEN 1 ELSE 0
      /\ MaxFiles \in Nat /\ MaxFiles > 1
  BY <1>1, CacheArgs, MemoryAssumption, SequentialAssumption
<1>3. CASE ~(excess > 0 /\ MaxFiles > NewFiles(w)) /\ Go(w, "plan_memory")
  <2> DEFINE g == [fr EXCEPT !.pc = "plan_memory"]
  <2>1. Become(w, g) /\ g.pc = "plan_memory" /\ g.op = fr.op /\ g.filename = fr.filename /\ g.arg = fr.arg
    BY <1>1, <1>3, AtLabel DEF Go
  <2>2. fr.op = "CREATE" => nCurrentFile < MaxFiles
    BY <1>2, <1>3
  <2> HIDE DEF g, fr
  <2>3. OpAt(g)
    BY <1>1, <2>1 DEF OpAt, Finding, Creating
  <2>4. PointersOK(g)
    BY <1>1, <2>1 DEF PointersOK, Finding, Creating
  <2>5. CountsOK(g)
    BY <1>1, <2>1, <2>2 DEF CountsOK, Creating
  <2>6. QED
    BY <1>1, <2>1, <2>3, <2>4, <2>5, ReadsOn DEF JobOK, fr
<1>4. CASE excess > 0 /\ Become(w, [fr EXCEPT !.pc = "pop_file", !.left = excess])
  <2> DEFINE g == [fr EXCEPT !.pc = "pop_file", !.left = excess]
  <2>1. fr.op = "CREATE" /\ excess = 1 /\ nCurrentFile = MaxFiles
    BY <1>1, <1>2, <1>4
  <2>2. /\ Become(w, g) /\ g.pc = "pop_file" /\ g.op = fr.op /\ g.filename = fr.filename
        /\ g.arg = fr.arg /\ g.left = 1
    BY <1>1, <1>4, <2>1 DEF Frames
  <2> HIDE DEF g, fr
  <2>3. OpAt(g)
    BY <1>1, <2>1, <2>2 DEF OpAt, Finding, Creating
  <2>4. PointersOK(g)
    BY <1>1, <2>1, <2>2 DEF PointersOK, Finding, Creating
  <2>5. CountsOK(g)
    BY <1>1, <2>1, <2>2 DEF CountsOK, Creating
  <2>6. QED
    BY <1>1, <2>2, <2>3, <2>4, <2>5, ReadsOn DEF JobOK, fr
<1>5. QED
  BY <1>2, <1>3, <1>4 DEF PlanFiles

\* The number of bytes to evict: none for a file, which brings none.
LEMMA PlanMemoryOn ==
  ASSUME IInv, NEW w \in Workers, JobInv(frame[w]), PlanMemory(w)
  PROVE  Advances(w)
<1> DEFINE fr == frame[w]
           excess == nCurrentMemoryUsed + NewBytes(w) - MaxMemory
<1>1. /\ fr \in Frames /\ fr.pc = "plan_memory" /\ fr.pc \notin Creating \cup Freeing
      /\ JobOK(fr) /\ OpAt(fr) /\ PointersOK(fr) /\ CountsOK(fr)
      /\ fr.op \in {"CREATE", "WRITE"}
      /\ UNCHANGED storeVars
  BY FrameFacts DEF PlanMemory, At, Creating, Freeing, JobInv, JobOK, OpAt
<1>2. /\ NewBytes(w) = fr.arg /\ fr.arg \in Nat /\ nCurrentMemoryUsed \in Int
      /\ nCurrentMemoryUsed <= MaxMemory /\ MaxMemory \in Nat
      /\ fr.op = "CREATE" => fr.arg = 0
      /\ fr.op = "WRITE" => fr.arg < MaxMemory
  BY <1>1, CacheArgs, MemoryAssumption
<1>3. CASE excess > 0 /\ MaxMemory > NewBytes(w)
           /\ Become(w, [fr EXCEPT !.pc = "more", !.left = excess])
  <2> DEFINE g == [fr EXCEPT !.pc = "more", !.left = excess]
  <2>1. fr.op = "WRITE"
    BY <1>1, <1>2, <1>3
  <2>2. /\ Become(w, g) /\ g.pc = "more" /\ g.op = fr.op /\ g.filename = fr.filename
        /\ g.arg = fr.arg /\ g.left = excess
    BY <1>1, <1>3 DEF Frames
  <2>3. excess = nCurrentMemoryUsed + fr.arg - MaxMemory
    BY <1>2
  <2> HIDE DEF g, fr, excess
  <2>4. OpAt(g)
    BY <1>1, <2>1, <2>2 DEF OpAt, Finding, Creating
  <2>5. PointersOK(g)
    BY <1>1, <2>1, <2>2 DEF PointersOK, Finding, Creating
  <2>6. CountsOK(g)
    BY <1>3, <2>1, <2>2, <2>3 DEF CountsOK, Creating
  <2>7. QED
    BY <1>1, <2>2, <2>4, <2>5, <2>6, ReadsOn DEF JobOK, fr
<1>4. CASE ~(excess > 0 /\ MaxMemory > NewBytes(w)) /\ CacheDone(w)
  <2>1. fr.op = "CREATE" => nCurrentFile < MaxFiles
    BY <1>1 DEF CountsOK
  <2>2. fr.op = "WRITE" => nCurrentMemoryUsed + fr.arg <= MaxMemory
    BY <1>2, <1>4
  <2>3. JobOK(AfterCache(fr)) /\ AfterCache(fr).pc # "add_first"
    BY <1>1, <2>1, <2>2, CacheJob
  <2>4. QED
    BY <1>1, <1>4, <2>3, ReadsOn DEF CacheDone
<1>5. QED
  BY <1>3, <1>4 DEF PlanMemory

\* The condition of the second loop: as long as bytes have to go there are
\* files that hold them.
LEMMA MoreFilesOn ==
  ASSUME IInv, NEW w \in Workers, JobInv(frame[w]), MoreFiles(w)
  PROVE  Advances(w)
<1> DEFINE fr == frame[w]
           g == [fr EXCEPT !.pc = "pop_memory"]
<1>1. /\ fr \in Frames /\ fr.pc = "more" /\ fr.pc \notin Creating \cup Freeing
      /\ lost = {} /\ ListOK /\ OpAt(fr) /\ PointersOK(fr) /\ CountsOK(fr)
      /\ fr.op = "WRITE"
      /\ UNCHANGED storeVars
  BY FrameFacts DEF MoreFiles, At, Creating, Freeing, JobInv, JobOK, OpAt
<1>2. memory # <<>> /\ nCurrentFile # 0
  <2> SUFFICES ASSUME memory = <<>> PROVE FALSE
    BY <1>1, StoreFacts
  <2>1. nCurrentMemoryUsed = 0
    BY <1>1, NoBytes DEF ListOK
  <2>2. fr.arg \in Nat /\ fr.arg < MaxMemory /\ MaxMemory \in Nat
    BY <1>1, CacheArgs, MemoryAssumption
  <2>3. fr.left = nCurrentMemoryUsed + fr.arg - MaxMemory /\ fr.left > 0
    BY <1>1 DEF CountsOK
  <2>4. QED
    BY <2>1, <2>2, <2>3
<1>3. /\ Become(w, g) /\ g.pc = "pop_memory" /\ g.op = fr.op /\ g.filename = fr.filename
      /\ g.arg = fr.arg /\ g.left = fr.left
  BY <1>1, <1>2, AtLabel DEF MoreFiles, Go
<1> HIDE DEF g, fr
<1>4. OpAt(g)
  BY <1>1, <1>3 DEF OpAt, Finding, Creating
<1>5. PointersOK(g)
  BY <1>1, <1>2, <1>3 DEF PointersOK, Finding, Creating
<1>6. CountsOK(g)
  BY <1>1, <1>3 DEF CountsOK, Creating
<1>7. QED
  BY <1>1, <1>3, <1>4, <1>5, <1>6, ReadsOn DEF JobOK, fr

\* A worker takes a file out of the list, which is its own from then on.
LEMMA PopsOn ==
  ASSUME IInv, NEW w \in Workers, JobInv(frame[w]), Own(frame[w]) = {},
         NEW x \in Listed, Listed' = Listed \ {x}, Uncount(x), UNCHANGED <<lost, heap, policy>>,
         NEW g, Become(w, g), x \in Own(g), JobOK(g)', g.pc # "add_first"
  PROVE  Advances(w)
<1>1. ListOK'
  BY ListShrinks DEF JobInv
<1>2. AllHeld(g)'
  BY DEF JobInv, AllHeld, Freed
<1>3. lost' = {}
  BY DEF JobInv
<1>4. JobInv(g)'
  BY <1>1, <1>2, <1>3 DEF JobInv
<1>5. frame'[w] = g
  BY DEF Become, IInv, TypeOK
<1>6. QED
  BY <1>4, <1>5 DEF Advances

\* pop_from_tail in the first loop of cache_algorithm.
LEMMA PopFileOn ==
  ASSUME IInv, NEW w \in Workers, JobInv(frame[w]), PopFile(w)
  PROVE  Advances(w)
<1> DEFINE fr == frame[w]
           x == Oldest
<1>1. /\ fr \in Frames /\ fr.pc = "pop_file" /\ fr.pc \notin Creating \cup Freeing
      /\ lost = {} /\ PointersOK(fr) /\ CountsOK(fr) /\ OpAt(fr) /\ fr.op = "CREATE"
      /\ UNCHANGED <<heap, policy>>
  BY FrameFacts DEF PopFile, At, Creating, Freeing, JobInv, JobOK, OpAt
<1>2. nCurrentFile = MaxFiles /\ fr.left = 1 /\ NoSuch(fr.filename)
  BY <1>1 DEF CountsOK, PointersOK
<1>3. memory # <<>>
  BY <1>1, <1>2, StoreFacts, SequentialAssumption
<1>4. PICK g : g = [fr EXCEPT !.pc = "free_file", !.victim = x]
  OBVIOUS
<1>5. Become(w, g) /\ PopTail /\ lost' = lost
  BY <1>3, <1>4 DEF PopFile, PopTail
<1>6. x \in Listed /\ Listed' = Listed \ {x}
  BY <1>3, <1>5, PopTailFacts DEF Listed
<1>7. /\ g.pc = "free_file" /\ g.op = "CREATE" /\ g.filename = fr.filename /\ g.arg = fr.arg
      /\ g.left = 1 /\ g.victim = x
  BY <1>1, <1>2, <1>4 DEF Frames
<1>8. x \in FileIds
  BY <1>1, <1>6, StoreFacts
<1>9. x \in Own(g)
  BY <1>7, <1>8 DEF Own, Freeing
<1> HIDE DEF fr, x
<1>10. nCurrentFile' < MaxFiles
  BY <1>2, <1>5, MemoryAssumption DEF PopTail, Uncount
<1>11. NoSuch(g.filename)'
  BY <1>1, <1>2, <1>6, <1>7 DEF NoSuch
<1>12. OpAt(g)'
  BY <1>1, <1>7 DEF OpAt, Finding, Creating
<1>13. PointersOK(g)'
  BY <1>7, <1>11 DEF PointersOK, Finding, Creating
<1>14. CountsOK(g)'
  BY <1>7, <1>10 DEF CountsOK, Creating
<1>15. JobOK(g)'
  BY <1>12, <1>13, <1>14 DEF JobOK
<1>16. Uncount(x) /\ Own(fr) = {}
  BY <1>1, <1>5, OwnsNone DEF PopTail, x
<1>17. QED
  BY <1>1, <1>5, <1>6, <1>7, <1>9, <1>15, <1>16, PopsOn DEF fr

\* pop_from_tail in the second loop.
LEMMA PopMemoryOn ==
  ASSUME IInv, NEW w \in Workers, JobInv(frame[w]), PopMemory(w)
  PROVE  Advances(w)
<1> DEFINE fr == frame[w]
           x == Oldest
<1>1. /\ fr \in Frames /\ fr.pc = "pop_memory" /\ fr.pc \notin Creating \cup Freeing
      /\ lost = {} /\ PointersOK(fr) /\ CountsOK(fr) /\ OpAt(fr) /\ fr.op = "WRITE"
      /\ UNCHANGED <<heap, policy>> /\ PopTail /\ lost' = lost
  BY FrameFacts DEF PopMemory, At, Creating, Freeing, JobInv, JobOK, OpAt, PopTail
<1>2. memory # <<>> /\ fr.left = nCurrentMemoryUsed + fr.arg - MaxMemory
  BY <1>1 DEF CountsOK, PointersOK
<1>3. PICK g : g = [fr EXCEPT !.pc = "subtract", !.victim = x]
  OBVIOUS
<1>4. Become(w, g)
  BY <1>3 DEF PopMemory
<1>5. x \in Listed /\ Listed' = Listed \ {x}
  BY <1>1, <1>2, PopTailFacts DEF Listed
<1>6. PICK y : y = x
  OBVIOUS
<1>7. /\ g.pc = "subtract" /\ g.op = "WRITE" /\ g.filename = fr.filename /\ g.arg = fr.arg
      /\ g.left = fr.left /\ g.victim = y
  BY <1>1, <1>3, <1>6 DEF Frames
<1>8. y \in FileIds /\ heap[y].usedMemory \in Nat /\ nCurrentMemoryUsed \in Int
  BY <1>1, <1>5, <1>6, StoreFacts DEF FileMemory
<1>9. y \in Own(g)
  BY <1>7, <1>8 DEF Own, Freeing
<1>10. Uncount(y) /\ Own(fr) = {}
  BY <1>1, <1>6, OwnsNone DEF PopTail
<1>11. nCurrentMemoryUsed' = nCurrentMemoryUsed - heap[y].usedMemory /\ heap'[y].usedMemory = heap[y].usedMemory
  BY <1>1, <1>10 DEF Uncount
<1>12. PICK used \in Nat, u \in Int, a \in Nat :
         used = heap[y].usedMemory /\ u = nCurrentMemoryUsed /\ a = fr.arg
  BY <1>1, <1>8 DEF Frames
<1> HIDE DEF fr, x
<1>13. g.left = nCurrentMemoryUsed' + heap'[y].usedMemory + g.arg - MaxMemory
  <2>1. g.left = u + a - MaxMemory
    BY <1>2, <1>7, <1>12
  <2>2. nCurrentMemoryUsed' + heap'[y].usedMemory = (u - used) + used
    BY <1>11, <1>12
  <2>3. ((u - used) + used) + a - MaxMemory = u + a - MaxMemory
    BY <1>12, MemoryAssumption
  <2>4. QED
    BY <1>7, <1>12, <2>1, <2>2, <2>3
<1>14. OpAt(g)'
  BY <1>1, <1>7 DEF OpAt, Finding, Creating
<1>15. PointersOK(g)'
  BY <1>7 DEF PointersOK, Finding, Creating
<1>16. CountsOK(g)'
  BY <1>7, <1>13 DEF CountsOK, Creating
<1>17. JobOK(g)'
  BY <1>14, <1>15, <1>16 DEF JobOK
<1>18. QED
  BY <1>1, <1>4, <1>5, <1>6, <1>7, <1>9, <1>10, <1>17, PopsOn DEF fr

\* The bytes of the popped file come off the excess.
LEMMA SubtractPoppedOn ==
  ASSUME IInv, NEW w \in Workers, JobInv(frame[w]), SubtractPopped(w)
  PROVE  Advances(w)
<1> DEFINE fr == frame[w]
<1>1. /\ fr \in Frames /\ fr.pc = "subtract" /\ fr.victim \in FileIds /\ fr.op = "WRITE"
      /\ OpAt(fr) /\ PointersOK(fr) /\ CountsOK(fr) /\ UNCHANGED <<lists, heap, counters, policy>>
  BY FrameFacts DEF SubtractPopped, At, FrameOK, JobInv, JobOK, OpAt, storeVars, lists, counters
<1>2. PICK y : y = fr.victim
  OBVIOUS
<1>3. y \in Own(fr) /\ fr.left = nCurrentMemoryUsed + heap[y].usedMemory + fr.arg - MaxMemory
  BY <1>1, <1>2 DEF Own, Freeing, CountsOK
<1>4. heap[y] \in FileMemory /\ nCurrentMemoryUsed \in Int
  BY <1>1, <1>2, <1>3 DEF IInv, TypeOK, OneOwner, Freed
<1>5. PICK g : g = [fr EXCEPT !.pc = "free_memory", !.left = @ - heap[y].usedMemory]
  OBVIOUS
<1>6. Become(w, g)
  BY <1>2, <1>5 DEF SubtractPopped
<1>7. /\ g.pc = "free_memory" /\ g.op = "WRITE" /\ g.filename = fr.filename /\ g.arg = fr.arg
      /\ g.left = fr.left - heap[y].usedMemory /\ g.victim = y
  BY <1>1, <1>2, <1>5 DEF Frames
<1>8. PICK used \in Nat, u \in Int, a \in Nat :
        used = heap[y].usedMemory /\ u = nCurrentMemoryUsed /\ a = fr.arg
  BY <1>1, <1>4 DEF Frames, FileMemory
<1>9. Own(fr) \subseteq Own(g)
  BY <1>1, <1>2, <1>7 DEF Own, Creating, Freeing
<1> HIDE DEF fr
<1>10. g.left = nCurrentMemoryUsed + g.arg - MaxMemory
  <2>1. (u + used + a - MaxMemory) - used = u + a - MaxMemory
    BY <1>8, MemoryAssumption
  <2>2. QED
    BY <1>3, <1>7, <1>8, <2>1
<1>11. OpAt(g)
  BY <1>1, <1>7 DEF OpAt, Finding, Creating
<1>12. PointersOK(g)
  BY <1>7 DEF PointersOK, Finding, Creating
<1>13. CountsOK(g)
  BY <1>7, <1>10 DEF CountsOK, Creating
<1>14. JobOK(g) /\ g.pc # "add_first"
  BY <1>7, <1>11, <1>12, <1>13 DEF JobOK
<1>15. QED
  BY <1>1, <1>6, <1>9, <1>14, MovesOn DEF fr

\* What the worker has learnt does not depend on who else holds a file, nor on
\* a file that is in no list.
LEMMA JobStays ==
  ASSUME NEW g, JobOK(g), g.pc \notin Creating \cup {"subtract"}, UNCHANGED <<lists, counters, policy>>,
         \A f \in Listed : heap'[f].filename = heap[f].filename
  PROVE  JobOK(g)'
<1>1. Listed' = Listed /\ memory' = memory /\ \A n : NoSuch(n)' <=> NoSuch(n)
  BY DEF Listed, lists, NoSuch
<1>2. OpAt(g)'
  BY DEF JobOK, OpAt
<1>3. PointersOK(g)'
  BY <1>1 DEF JobOK, PointersOK, PolicyOf
<1>4. CountsOK(g)'
  BY <1>1 DEF JobOK, CountsOK, counters
<1>5. QED
  BY <1>2, <1>3, <1>4 DEF JobOK

\* free_file of a file the worker has popped.
LEMMA FreesOn ==
  ASSUME IInv, NEW w \in Workers, JobInv(frame[w]), frame[w].pc \in Freeing, FreeVictim(w),
         UNCHANGED <<lists, counters, policy>>,
         NEW g, Become(w, g), JobOK(g), g.pc \notin Creating \cup {"subtract"}
  PROVE  Advances(w)
<1>0. PICK v : v = frame[w].victim
  OBVIOUS
<1>1. v \in FileIds \cup {NULL} /\ heap \in [FileIds -> FileMemory \cup {NULL}] /\ lost = {}
  BY <1>0, FrameFacts DEF Frames, Pointers, IInv, TypeOK, JobInv
<1>2. v \in FileIds => v \in Own(frame[w])
  BY <1>0 DEF Own
<1>3. v \notin Listed
  BY <1>1, <1>2, StoreFacts, MemoryAssumption DEF IInv, OneOwner
<1>4. \A f \in Own(frame[w]) : f = v
  BY <1>0 DEF Own, Creating, Freeing
<1>5. heap' = heap \/ heap' = [heap EXCEPT ![v] = NULL]
  BY <1>0 DEF FreeVictim, Free
<1>6. v \in FileIds => heap' = [heap EXCEPT ![v] = NULL]
  BY <1>0, MemoryAssumption DEF FreeVictim, Free
<1>7. Listed' = Listed /\ lost' = lost
  BY DEF Listed, lists
<1>8. \A f \in Listed : heap'[f] = heap[f]
  BY <1>1, <1>3, <1>5, StoreFacts
<1>9. \A f \in FileIds : Freed(f) => Freed(f)'
  BY <1>1, <1>5 DEF Freed
<1>10. v \in FileIds => Freed(v)'
  BY <1>1, <1>6 DEF Freed
<1>11. AllHeld(g)'
  BY <1>4, <1>7, <1>9, <1>10 DEF JobInv, AllHeld
<1>12. ListOK'
  BY <1>7, <1>8, ListKept DEF JobInv
<1>13. JobOK(g)'
  BY <1>8, JobStays
<1>14. g.pc # "add_first"
  BY DEF Creating
<1>15. JobInv(g)'
  BY <1>1, <1>7, <1>11, <1>12, <1>13, <1>14 DEF JobInv
<1>16. frame'[w] = g
  BY DEF Become, IInv, TypeOK
<1>17. QED
  BY <1>15, <1>16 DEF Advances

\* The first loop of cache_algorithm frees the one file it popped and ends.
LEMMA FreeFileOn ==
  ASSUME IInv, NEW w \in Workers, JobInv(frame[w]), FreeFile(w)
  PROVE  Advances(w)
<1> DEFINE fr == frame[w]
<1>1. /\ fr \in Frames /\ fr.pc = "free_file" /\ fr.pc \in Freeing
      /\ OpAt(fr) /\ PointersOK(fr) /\ CountsOK(fr)
      /\ fr.op = "CREATE" /\ fr.left = 1 /\ FreeVictim(w)
      /\ UNCHANGED <<lists, counters, policy>>
  BY FrameFacts DEF FreeFile, At, Freeing, JobInv, JobOK, OpAt, CountsOK
<1>2. PICK g : g = [fr EXCEPT !.victim = NULL, !.left = @ - 1, !.pc = "plan_memory"]
  OBVIOUS
<1>3. /\ g.pc = "plan_memory" /\ g.op = fr.op /\ g.filename = fr.filename /\ g.arg = fr.arg
  BY <1>1, <1>2 DEF Frames
<1>4. Become(w, g)
  BY <1>1, <1>2 DEF FreeFile
<1> HIDE DEF fr
<1>5. OpAt(g)
  BY <1>1, <1>3 DEF OpAt, Finding, Creating
<1>6. PointersOK(g)
  BY <1>1, <1>3 DEF PointersOK, Finding, Creating
<1>7. CountsOK(g)
  BY <1>1, <1>3 DEF CountsOK, Creating
<1>8. JobOK(g) /\ g.pc \notin Creating \cup {"subtract"}
  BY <1>3, <1>5, <1>6, <1>7 DEF JobOK, Creating
<1>9. QED
  BY <1>1, <1>4, <1>8, FreesOn DEF fr

\* The second loop goes on until there is room for the bytes.
LEMMA FreeMemoryOn ==
  ASSUME IInv, NEW w \in Workers, JobInv(frame[w]), FreeMemory(w)
  PROVE  Advances(w)
<1> DEFINE fr == frame[w]
<1>1. /\ fr \in Frames /\ fr.pc = "free_memory" /\ fr.pc \in Freeing
      /\ JobOK(fr) /\ OpAt(fr) /\ PointersOK(fr) /\ CountsOK(fr)
      /\ fr.op = "WRITE" /\ FreeVictim(w)
      /\ UNCHANGED <<lists, counters, policy>>
  BY FrameFacts DEF FreeMemory, At, Freeing, JobInv, JobOK, OpAt
<1>2. fr.left = nCurrentMemoryUsed + fr.arg - MaxMemory
  BY <1>1 DEF CountsOK
<1>3. CASE fr.left > 0
  <2>1. PICK g : g = [fr EXCEPT !.pc = "more", !.victim = NULL]
    OBVIOUS
  <2>2. /\ g.pc = "more" /\ g.op = fr.op /\ g.filename = fr.filename /\ g.arg = fr.arg /\ g.left = fr.left
    BY <1>1, <2>1 DEF Frames
  <2>3. Become(w, g)
    BY <1>3, <2>1 DEF FreeMemory
  <2> HIDE DEF fr
  <2>4. OpAt(g)
    BY <1>1, <2>2 DEF OpAt, Finding, Creating
  <2>5. PointersOK(g)
    BY <1>1, <2>2 DEF PointersOK, Finding, Creating
  <2>6. CountsOK(g)
    BY <1>1, <1>2, <1>3, <2>2 DEF CountsOK, Creating
  <2>7. JobOK(g) /\ g.pc \notin Creating \cup {"subtract"}
    BY <2>2, <2>4, <2>5, <2>6 DEF JobOK, Creating
  <2>8. QED
    BY <1>1, <2>3, <2>7, FreesOn DEF fr
<1>4. CASE ~(fr.left > 0)
  <2>1. nCurrentMemoryUsed \in Int /\ fr.arg \in Nat /\ MaxMemory \in Nat /\ fr.left \in Int
    BY <1>1, MemoryAssumption DEF Frames, IInv, TypeOK
  <2>2. nCurrentMemoryUsed + fr.arg <= MaxMemory
    BY <1>2, <1>4, <2>1
  <2>3. PICK g : g = AfterCache(fr)
    OBVIOUS
  <2>4. JobOK(g) /\ g.pc \notin Creating \cup {"subtract"}
    BY <1>1, <2>2, <2>3, CacheJob DEF Creating
  <2>5. Become(w, g)
    BY <1>4, <2>3 DEF FreeMemory, CacheDone
  <2>6. QED
    BY <1>1, <2>4, <2>5, FreesOn
<1>5. QED
  BY <1>3, <1>4

\* remove_generic_file frees the file it popped, and the job ends.
LEMMA RemoveFreeOn ==
  ASSUME IInv, NEW w \in Workers, JobInv(frame[w]), RemoveFree(w)
  PROVE  Advances(w)
<1>1. /\ frame[w].pc \in Freeing /\ FreeVictim(w) /\ UNCHANGED <<lists, counters, policy>>
      /\ Become(w, Idle)
  BY DEF RemoveFree, At, Freeing, Done
<1>2. Idle.pc \notin Creating \cup {"subtract"}
  BY IdleOK DEF Creating
<1>3. QED
  BY <1>1, <1>2, IdleJob, FreesOn

-----------------------------------------------------------------------------
(* OPEN_FILE: create_file, add_file_to_memory, set_file_open.              *)

\* create_file, for a name that nobody has: nobody created it meanwhile.
LEMMA AddCheckOn ==
  ASSUME IInv, NEW w \in Workers, JobInv(frame[w]), AddCheck(w)
  PROVE  Advances(w)
<1> DEFINE fr == frame[w]
<1>1. /\ fr \in Frames /\ fr.pc = "add_check" /\ fr.pc \notin Creating \cup Freeing
      /\ OpAt(fr) /\ PointersOK(fr) /\ CountsOK(fr) /\ lost = {} /\ fr.op = "CREATE"
      /\ UNCHANGED <<lists, counters, policy>>
  BY FrameFacts DEF AddCheck, At, Creating, Freeing, JobInv, JobOK, OpAt
<1>2. PICK f \in Unused :
        /\ heap' = [heap EXCEPT ![f] = NewFile(fr.filename)]
        /\ Become(w, [fr EXCEPT !.file = f,
             !.pc = IF InMem(fr.filename) THEN "set_open" ELSE "add_count"])
  BY DEF AddCheck, Allocate
<1>3. NoSuch(fr.filename) /\ nCurrentFile < MaxFiles
  BY <1>1 DEF PointersOK, CountsOK
<1>4. ~InMem(fr.filename)
  BY <1>1, <1>3, NamesHere
<1>5. PICK g : g = [fr EXCEPT !.file = f, !.pc = "add_count"]
  OBVIOUS
<1>6. Become(w, g)
  BY <1>2, <1>4, <1>5
<1>7. /\ g.pc = "add_count" /\ g.op = fr.op /\ g.filename = fr.filename /\ g.arg = fr.arg /\ g.file = f
  BY <1>1, <1>5 DEF Frames
<1>8. f \in FileIds /\ f \notin Listed /\ heap \in [FileIds -> FileMemory \cup {NULL}]
  BY <1>1, StoreFacts DEF Unused, IInv, TypeOK
<1>9. Own(fr) = {}
  BY <1>1, OwnsNone
<1> HIDE DEF fr
<1>10. heap'[f] = NewFile(g.filename) /\ \A x \in FileIds \ {f} : heap'[x] = heap[x]
  BY <1>2, <1>7, <1>8
<1>11. Listed' = Listed /\ lost' = lost /\ counters' = counters
  BY <1>1 DEF Listed, lists
<1>12. \A x \in Listed : heap'[x] = heap[x]
  BY <1>1, <1>8, <1>10, StoreFacts
<1>13. NoSuch(g.filename)'
  BY <1>3, <1>7, <1>11, <1>12 DEF NoSuch
<1>14. OpAt(g)'
  BY <1>1, <1>7 DEF OpAt, Finding, Creating
<1>15. PointersOK(g)'
  BY <1>7, <1>10, <1>13 DEF PointersOK, Finding, Creating
<1>16. CountsOK(g)'
  BY <1>1, <1>3, <1>7, <1>11 DEF CountsOK, Creating, counters
<1>17. f \in Own(g)
  BY <1>7, <1>8 DEF Own, Creating
<1>18. AllHeld(g)'
  BY <1>8, <1>9, <1>10, <1>11, <1>17 DEF JobInv, AllHeld, Freed, fr
<1>19. ListOK'
  BY <1>11, <1>12, ListKept DEF JobInv
<1>20. JobInv(g)'
  BY <1>1, <1>7, <1>11, <1>14, <1>15, <1>16, <1>18, <1>19 DEF JobInv, JobOK
<1>21. frame'[w] = g
  BY <1>6 DEF Become, IInv, TypeOK
<1>22. QED
  BY <1>20, <1>21 DEF Advances

\* Whether there are files: this is still so when the file is linked.
LEMMA AddCountOn ==
  ASSUME IInv, NEW w \in Workers, JobInv(frame[w]), AddCount(w)
  PROVE  Advances(w)
<1> DEFINE fr == frame[w]
           label == IF nCurrentFile = 0 THEN "add_first" ELSE "add_head"
<1>1. /\ fr \in Frames /\ fr.pc = "add_count" /\ fr.op = "CREATE"
      /\ OpAt(fr) /\ PointersOK(fr) /\ CountsOK(fr) /\ lost = {}
      /\ UNCHANGED <<lists, heap, counters, policy>>
  BY FrameFacts DEF AddCount, At, Creating, JobInv, JobOK, OpAt, storeVars, lists, counters
<1>2. PICK g : g = [fr EXCEPT !.pc = label]
  OBVIOUS
<1>3. Become(w, g)
  BY <1>2 DEF AddCount, Go
<1>4. /\ g.pc = label /\ g.op = fr.op /\ g.filename = fr.filename /\ g.arg = fr.arg /\ g.file = fr.file
  BY <1>1, <1>2, AtLabel
<1>5. /\ label \in {"add_first", "add_head"}
      /\ label = "add_first" => memory = <<>>
      /\ label = "add_head" => memory # <<>>
  BY <1>1, StoreFacts
<1> HIDE DEF fr, label
<1>6. OpAt(g)
  BY <1>1, <1>4, <1>5 DEF OpAt, Finding, Creating
<1>7. PointersOK(g)
  BY <1>1, <1>4, <1>5 DEF PointersOK, Finding, Creating
<1>8. CountsOK(g)
  BY <1>1, <1>4, <1>5 DEF CountsOK, Creating
<1>9. Own(fr) \subseteq Own(g)
  BY <1>1, <1>4, <1>5 DEF Own, Creating, Freeing
<1>10. QED
  BY <1>1, <1>3, <1>4, <1>5, <1>6, <1>7, <1>8, <1>9, MovesOn DEF JobOK, fr

\* The new file is linked: it brings a name that nobody has, and no bytes.
LEMMA LinksOn ==
  ASSUME IInv, NEW w \in Workers, JobInv(frame[w]), frame[w].pc \in {"add_first", "add_head"},
         Listed' = Listed \cup {frame[w].file}, nCurrentFile' = nCurrentFile + 1,
         UNCHANGED <<lost, heap, nCurrentMemoryUsed, policy>>, Go(w, "set_open")
  PROVE  Advances(w)
<1>0. PICK x : x = frame[w].file
  OBVIOUS
<1> DEFINE fr == frame[w]
<1>1. /\ fr \in Frames /\ fr.pc \in Creating /\ fr.op = "CREATE"
      /\ OpAt(fr) /\ PointersOK(fr) /\ CountsOK(fr) /\ lost = {} /\ ListOK
  BY FrameFacts DEF Creating, JobInv, JobOK, OpAt
<1>2. NoSuch(fr.filename) /\ nCurrentFile < MaxFiles /\ heap[x] = NewFile(fr.filename)
  BY <1>0, <1>1 DEF PointersOK, CountsOK, Creating
<1>3. x \in FileIds /\ x \in Own(fr)
  BY <1>0, <1>1, FrameFacts DEF FrameOK, Own
<1>4. ~Freed(x) /\ x \notin Listed
  BY <1>1, <1>3, StoreFacts DEF IInv, OneOwner
<1>5. /\ Listed \subseteq FileIds /\ (\A f \in Listed : heap[f] \in FileMemory)
      /\ nCurrentFile \in Nat /\ heap[x] \in FileMemory
  BY <1>1, <1>3, <1>4, StoreFacts DEF IInv, TypeOK, Freed
<1>6. PICK g : g = [fr EXCEPT !.pc = "set_open"]
  OBVIOUS
<1>7. Become(w, g) /\ g.pc = "set_open" /\ g.op = fr.op /\ g.filename = fr.filename
      /\ g.arg = fr.arg /\ g.file = x
  BY <1>0, <1>1, <1>6, AtLabel DEF Go
<1>8. heap[x].filename = fr.filename /\ heap[x].usedMemory = 0
  BY <1>2 DEF NewFile
<1>9. Own(fr) = {x}
  BY <1>0, <1>1, <1>3 DEF Own, Creating, Freeing
<1> HIDE DEF fr
<1>10. Listed' = Listed \cup {x} /\ x \in Listed' /\ Listed' \ {x} = Listed
  BY <1>0, <1>4
<1>11. Cardinality(PlacesIn(heap, Listed')) = Cardinality(PlacesIn(heap, Listed))
  <2>1. Listed' \subseteq FileIds /\ \A f \in Listed' : heap[f] \in FileMemory
    BY <1>3, <1>5, <1>10
  <2>2. /\ Cardinality(PlacesIn(heap, Listed')) = Cardinality(PlacesIn(heap, Listed' \ {x})) + heap[x].usedMemory
        /\ Cardinality(PlacesIn(heap, Listed' \ {x})) \in Nat
    BY <1>10, <2>1, PlacesSplit
  <2>3. PICK c \in Nat : c = Cardinality(PlacesIn(heap, Listed))
    BY <1>10, <2>2
  <2>4. Cardinality(PlacesIn(heap, Listed')) = c + 0
    BY <1>8, <1>10, <2>2, <2>3
  <2>5. QED
    BY <2>3, <2>4
<1>12. nCurrentMemoryUsed' = Bytes(memory)'
  BY <1>1, <1>11, BytesAre, BytesAreNext DEF ListOK
<1>13. nCurrentFile' <= MaxFiles
  BY <1>2, <1>5, MemoryAssumption
<1>14. \A f, h \in Listed' : heap'[f].filename = heap'[h].filename => f = h
  BY <1>1, <1>2, <1>8, <1>10 DEF ListOK, NoSuch
<1>15. ListOK'
  BY <1>1, <1>12, <1>13, <1>14 DEF ListOK
<1>16. OpAt(g)'
  BY <1>1, <1>7 DEF OpAt, Finding, Creating
<1>17. PointersOK(g)'
  BY <1>7, <1>1, <1>10 DEF PointersOK, Finding, Creating
<1>18. CountsOK(g)'
  BY <1>1, <1>7 DEF CountsOK, Creating
<1>19. AllHeld(g)'
  BY <1>9, <1>10 DEF JobInv, AllHeld, Freed, fr
<1>20. JobInv(g)'
  BY <1>1, <1>7, <1>15, <1>16, <1>17, <1>18, <1>19 DEF JobInv, JobOK
<1>21. frame'[w] = g
  BY <1>7 DEF Become, IInv, TypeOK
<1>22. QED
  BY <1>20, <1>21 DEF Advances

\* add_file_to_memory, into an empty list.
LEMMA AddFirstOn ==
  ASSUME IInv, NEW w \in Workers, JobInv(frame[w]), AddFirst(w)
  PROVE  Advances(w)
<1>1. /\ frame[w].pc = "add_first" /\ memory = <<>> /\ Go(w, "set_open")
      /\ UNCHANGED <<heap, policy>>
  BY DEF AddFirst, At, JobInv
<1>2. memory' = <<frame[w].file>> /\ lost' = lost /\ nCurrentFile' = nCurrentFile + 1
      /\ nCurrentMemoryUsed' = nCurrentMemoryUsed
  BY <1>1 DEF AddFirst, SetAsOnly
<1>3. Listed = {} /\ Listed' = {frame[w].file}
  BY <1>1, <1>2 DEF Listed, Range
<1>4. Listed' = Listed \cup {frame[w].file}
  BY <1>3
<1>5. QED
  BY <1>1, <1>2, <1>4, LinksOn

\* add_file_to_memory, at the head.
LEMMA AddHeadOn ==
  ASSUME IInv, NEW w \in Workers, JobInv(frame[w]), AddHead(w)
  PROVE  Advances(w)
<1>1. /\ frame[w].pc = "add_head" /\ Go(w, "set_open")
      /\ UNCHANGED <<heap, policy>>
      /\ memory' = <<frame[w].file>> \o memory /\ lost' = lost /\ nCurrentFile' = nCurrentFile + 1
      /\ nCurrentMemoryUsed' = nCurrentMemoryUsed
  BY DEF AddHead, At, JobInv, PushHead
<1>2. frame[w].file \in FileIds /\ memory \in Seq(FileIds)
  BY <1>1, FrameFacts DEF FrameOK, Creating, IInv, TypeOK
<1>3. Listed' = Listed \cup {frame[w].file}
  BY <1>1, <1>2, PushedList DEF Listed
<1>4. QED
  BY <1>1, <1>3, LinksOn

\* A section that changes who holds a file or whether it is open.
LEMMA FileChanges ==
  ASSUME IInv, NEW w \in Workers, JobInv(frame[w]), frame[w].pc \notin Creating \cup Freeing,
         UNCHANGED <<lists, counters, policy>>,
         \A f \in FileIds : Freed(f) => Freed(f)',
         \A f \in Listed : heap'[f].filename = heap[f].filename /\ heap'[f].usedMemory = heap[f].usedMemory,
         NEW g, Become(w, g), JobOK(g), g.pc \notin Creating \cup {"subtract"}
  PROVE  Advances(w)
<1>1. Listed' = Listed /\ lost' = lost /\ UNCHANGED counters
  BY DEF Listed, lists
<1>2. Own(frame[w]) = {}
  BY OwnsNone
<1>3. AllHeld(g)'
  BY <1>1, <1>2 DEF JobInv, AllHeld
<1>4. ListOK'
  BY <1>1, ListKept DEF JobInv
<1>5. JobOK(g)'
  BY JobStays
<1>6. JobInv(g)' /\ frame'[w] = g
  BY <1>1, <1>3, <1>4, <1>5 DEF JobInv, Creating, Become, IInv, TypeOK
<1>7. QED
  BY <1>6 DEF Advances

\* A field of one file that neither its name nor its bytes depend on.
LEMMA FieldChanges ==
  ASSUME IInv, lost = {}, NEW x \in Listed, NEW h,
         h.filename = heap[x].filename, h.usedMemory = heap[x].usedMemory,
         heap' = [heap EXCEPT ![x] = h]
  PROVE  /\ \A f \in FileIds : Freed(f) => Freed(f)'
         /\ \A f \in Listed : heap'[f].filename = heap[f].filename /\ heap'[f].usedMemory = heap[f].usedMemory
<1>1. /\ heap \in [FileIds -> FileMemory \cup {NULL}] /\ Listed \subseteq FileIds
      /\ ~Freed(x)
  BY StoreFacts DEF IInv, TypeOK
<1>2. heap'[x] = h /\ \A f \in FileIds \ {x} : heap'[f] = heap[f]
  BY <1>1
<1>3. QED
  BY <1>1, <1>2 DEF Freed

\* set_file_open.
LEMMA SetFileOpenOn ==
  ASSUME IInv, NEW w \in Workers, JobInv(frame[w]), SetFileOpen(w)
  PROVE  Advances(w)
<1>0. PICK x, h : x = frame[w].file /\ h = [heap[x] EXCEPT !.isOpen = TRUE]
  OBVIOUS
<1>1. /\ frame[w].pc = "set_open" /\ frame[w].pc \notin Creating \cup Freeing
      /\ lost = {} /\ PointersOK(frame[w])
      /\ UNCHANGED <<lists, counters, policy>> /\ Become(w, Idle)
  BY DEF SetFileOpen, At, Creating, Freeing, JobInv, JobOK, Done
<1>2. x \in Listed
  BY <1>0, <1>1 DEF PointersOK
<1>3. heap[x] \in FileMemory
  BY <1>1, <1>2, StoreFacts
<1>4. h.filename = heap[x].filename /\ h.usedMemory = heap[x].usedMemory
  BY <1>0, <1>3 DEF FileMemory
<1>5. heap' = [heap EXCEPT ![x] = h]
  BY <1>0 DEF SetFileOpen
<1>6. /\ \A f \in FileIds : Freed(f) => Freed(f)'
      /\ \A f \in Listed : heap'[f].filename = heap[f].filename /\ heap'[f].usedMemory = heap[f].usedMemory
  BY <1>1, <1>2, <1>4, <1>5, FieldChanges
<1>7. Idle.pc \notin Creating \cup {"subtract"}
  BY IdleOK DEF Creating
<1>8. QED
  BY <1>1, <1>6, <1>7, IdleJob, FileChanges

-----------------------------------------------------------------------------
(* READ_FILE.                                                              *)

\* isOpen decides whether the file is sent.
LEMMA ReadCheckOn ==
  ASSUME IInv, NEW w \in Workers, JobInv(frame[w]), ReadCheck(w)
  PROVE  Advances(w)
<1> DEFINE fr == frame[w]
           g == [fr EXCEPT !.pc = "read_lock"]
<1>1. /\ fr \in Frames /\ fr.pc = "read_check" /\ fr.pc \notin Creating \cup Freeing
      /\ OpAt(fr) /\ PointersOK(fr) /\ CountsOK(fr)
      /\ UNCHANGED storeVars
  BY FrameFacts DEF ReadCheck, At, Creating, Freeing, JobInv, JobOK
<1>2. CASE Done(w)
  BY <1>1, <1>2, JobEnds DEF storeVars, lists, counters
<1>3. CASE Go(w, "read_lock")
  <2>1. /\ Become(w, g) /\ g.pc = "read_lock" /\ g.op = fr.op /\ g.filename = fr.filename
        /\ g.arg = fr.arg /\ g.file = fr.file
    BY <1>1, <1>3, AtLabel DEF Go
  <2> HIDE DEF g, fr
  <2>2. OpAt(g)
    BY <1>1, <2>1 DEF OpAt, Finding, Creating
  <2>3. PointersOK(g)
    BY <1>1, <2>1 DEF PointersOK, Finding, Creating
  <2>4. CountsOK(g)
    BY <1>1, <2>1 DEF CountsOK, Creating
  <2>5. QED
    BY <1>1, <2>1, <2>2, <2>3, <2>4, ReadsOn DEF JobOK, fr
<1>4. QED
  BY <1>2, <1>3 DEF ReadCheck

\* The file is locked for the send.
LEMMA ReadLockOn ==
  ASSUME IInv, NEW w \in Workers, JobInv(frame[w]), ReadLock(w)
  PROVE  Advances(w)
<1> DEFINE fr == frame[w]
<1>0. PICK x, h, g : x = frame[w].file /\ h = [heap[x] EXCEPT !.lockFile = w]
                     /\ g = [fr EXCEPT !.pc = "read_send"]
  OBVIOUS
<1>1. /\ fr \in Frames /\ fr.pc = "read_lock" /\ fr.pc \notin Creating \cup Freeing
      /\ lost = {} /\ OpAt(fr) /\ PointersOK(fr) /\ CountsOK(fr)
      /\ UNCHANGED <<lists, counters, policy>>
  BY FrameFacts DEF ReadLock, At, Creating, Freeing, JobInv, JobOK
<1>2. x \in Listed
  BY <1>0, <1>1 DEF PointersOK
<1>3. heap[x] \in FileMemory
  BY <1>1, <1>2, StoreFacts
<1>4. h.filename = heap[x].filename /\ h.usedMemory = heap[x].usedMemory
  BY <1>0, <1>3 DEF FileMemory
<1>5. heap' = [heap EXCEPT ![x] = h] /\ Become(w, g)
  BY <1>0 DEF ReadLock, Go
<1>6. /\ \A f \in FileIds : Freed(f) => Freed(f)'
      /\ \A f \in Listed : heap'[f].filename = heap[f].filename /\ heap'[f].usedMemory = heap[f].usedMemory
  BY <1>1, <1>2, <1>4, <1>5, FieldChanges
<1>7. /\ g.pc = "read_send" /\ g.op = fr.op /\ g.filename = fr.filename /\ g.arg = fr.arg /\ g.file = fr.file
  BY <1>0, <1>1, AtLabel
<1> HIDE DEF fr
<1>8. OpAt(g)
  BY <1>1, <1>7 DEF OpAt, Finding, Creating
<1>9. PointersOK(g)
  BY <1>1, <1>7 DEF PointersOK, Finding, Creating
<1>10. CountsOK(g)
  BY <1>1, <1>7 DEF CountsOK, Creating
<1>11. JobOK(g) /\ g.pc \notin Creating \cup {"subtract"}
  BY <1>7, <1>8, <1>9, <1>10 DEF JobOK, Creating
<1>12. QED
  BY <1>1, <1>5, <1>6, <1>11, FileChanges DEF fr

\* The file has been sent.
LEMMA ReadSendOn ==
  ASSUME IInv, NEW w \in Workers, JobInv(frame[w]), ReadSend(w)
  PROVE  Advances(w)
<1>0. PICK x, h : x = frame[w].file /\ h = [heap[x] EXCEPT !.lockFile = NULL]
  OBVIOUS
<1>1. /\ frame[w].pc = "read_send" /\ frame[w].pc \notin Creating \cup Freeing
      /\ lost = {} /\ PointersOK(frame[w])
      /\ UNCHANGED <<lists, counters, policy>> /\ Become(w, Idle)
  BY DEF ReadSend, At, Creating, Freeing, JobInv, JobOK, Done
<1>2. x \in Listed
  BY <1>0, <1>1 DEF PointersOK
<1>3. heap[x] \in FileMemory
  BY <1>1, <1>2, StoreFacts
<1>4. h.filename = heap[x].filename /\ h.usedMemory = heap[x].usedMemory
  BY <1>0, <1>3 DEF FileMemory
<1>5. heap' = [heap EXCEPT ![x] = h]
  BY <1>0 DEF ReadSend
<1>6. /\ \A f \in FileIds : Freed(f) => Freed(f)'
      /\ \A f \in Listed : heap'[f].filename = heap[f].filename /\ heap'[f].usedMemory = heap[f].usedMemory
  BY <1>1, <1>2, <1>4, <1>5, FieldChanges
<1>7. Idle.pc \notin Creating \cup {"subtract"}
  BY IdleOK DEF Creating
<1>8. QED
  BY <1>1, <1>6, <1>7, IdleJob, FileChanges

-----------------------------------------------------------------------------
(* WRITE_FILE.                                                             *)

\* The bytes have arrived, or not, and the file is looked up again.
LEMMA RecvMessageOn ==
  ASSUME IInv, NEW w \in Workers, JobInv(frame[w]), RecvMessage(w)
  PROVE  Advances(w)
<1> DEFINE fr == frame[w]
           g == [fr EXCEPT !.pc = "find_in", !.op = "REWRITE", !.file = NULL]
<1>1. /\ fr \in Frames /\ fr.pc = "recv" /\ fr.pc \notin Creating \cup Freeing
      /\ OpAt(fr) /\ PointersOK(fr) /\ CountsOK(fr) /\ fr.op = "WRITE"
      /\ UNCHANGED storeVars
  BY FrameFacts DEF RecvMessage, At, Creating, Freeing, JobInv, JobOK, OpAt
<1>2. CASE Done(w)
  BY <1>1, <1>2, JobEnds DEF storeVars, lists, counters
<1>3. CASE Become(w, g)
  <2>1. g.pc = "find_in" /\ g.op = "REWRITE" /\ g.filename = fr.filename /\ g.arg = fr.arg
    BY <1>1 DEF Frames
  <2> HIDE DEF g, fr
  <2>2. OpAt(g)
    BY <1>1, <2>1 DEF OpAt, Finding, Creating
  <2>3. PointersOK(g)
    BY <1>1, <2>1 DEF PointersOK, Finding, Creating
  <2>4. CountsOK(g)
    BY <1>1, <2>1 DEF CountsOK, Creating
  <2>5. QED
    BY <1>1, <1>3, <2>1, <2>2, <2>3, <2>4, ReadsOn DEF JobOK, fr
<1>4. QED
  BY <1>1, <1>2, <1>3 DEF RecvMessage

\* write_to_file takes metadataLock.
LEMMA WriteMetaOn ==
  ASSUME IInv, NEW w \in Workers, JobInv(frame[w]), WriteMeta(w)
  PROVE  Advances(w)
<1> DEFINE fr == frame[w]
           g == [fr EXCEPT !.pc = "write_file"]
<1>1. /\ fr \in Frames /\ fr.pc = "write_meta" /\ fr.pc \notin Creating \cup Freeing
      /\ OpAt(fr) /\ PointersOK(fr) /\ CountsOK(fr)
      /\ UNCHANGED <<lists, heap, counters, policy>>
  BY FrameFacts DEF WriteMeta, At, Creating, Freeing, JobInv, JobOK
<1>2. /\ Become(w, g) /\ g.pc = "write_file" /\ g.op = fr.op /\ g.filename = fr.filename
      /\ g.arg = fr.arg /\ g.file = fr.file
  BY <1>1, AtLabel DEF WriteMeta, Go
<1>3. Own(fr) = {}
  BY <1>1, OwnsNone
<1> HIDE DEF g, fr
<1>4. OpAt(g)
  BY <1>1, <1>2 DEF OpAt, Finding, Creating
<1>5. PointersOK(g)
  BY <1>1, <1>2 DEF PointersOK, Finding, Creating
<1>6. CountsOK(g)
  BY <1>1, <1>2 DEF CountsOK, Creating
<1>7. QED
  BY <1>1, <1>2, <1>3, <1>4, <1>5, <1>6, MovesOn DEF JobOK, fr

\* The bytes are appended to a file of the list and counted, and there is room
\* for them.
LEMMA WriteFileOn ==
  ASSUME IInv, NEW w \in Workers, JobInv(frame[w]), WriteFile(w)
  PROVE  Advances(w)
<1>0. PICK x, k, h : x = frame[w].file /\ k = frame[w].arg
                     /\ h = [heap[x] EXCEPT !.usedMemory = @ + k]
  OBVIOUS
<1>1. /\ frame[w].pc = "write_file" /\ frame[w].pc \notin Creating \cup Freeing
      /\ lost = {} /\ ListOK /\ OpAt(frame[w]) /\ PointersOK(frame[w]) /\ CountsOK(frame[w])
      /\ frame[w].op = "REWRITE"
      /\ UNCHANGED <<lists, nCurrentFile, policy>> /\ Become(w, Idle)
  BY DEF WriteFile, At, Creating, Freeing, JobInv, JobOK, Done, OpAt
<1>2. x \in Listed /\ nCurrentMemoryUsed + k <= MaxMemory /\ k \in Nat
  BY <1>0, <1>1, FrameFacts DEF PointersOK, CountsOK, Frames
<1>3. /\ heap[x] \in FileMemory /\ Listed \subseteq FileIds
      /\ \A f \in Listed : heap[f] \in FileMemory /\ ~Freed(f)
  BY <1>1, <1>2, StoreFacts
<1>4. PICK u \in Nat : u = heap[x].usedMemory
  BY <1>3 DEF FileMemory
<1>5. h \in FileMemory /\ h.filename = heap[x].filename /\ h.usedMemory = u + k
  BY <1>0, <1>2, <1>3, <1>4 DEF FileMemory
<1>6. heap' = [heap EXCEPT ![x] = h] /\ nCurrentMemoryUsed' = nCurrentMemoryUsed + k
  BY <1>0 DEF WriteFile, AppendBytes
<1>7. heap \in [FileIds -> FileMemory \cup {NULL}]
  BY DEF IInv, TypeOK
<1>8. heap'[x] = h /\ \A f \in FileIds \ {x} : heap'[f] = heap[f]
  BY <1>2, <1>3, <1>6, <1>7
<1>9. Listed' = Listed /\ lost' = lost
  BY <1>1 DEF Listed, lists
<1>10. nCurrentMemoryUsed' = Bytes(memory)'
  <2> DEFINE P == PlacesIn(heap, Listed \ {x})
             Q == PlacesIn(heap', Listed \ {x})
  <2>1. P = Q
    <3>1. \A f \in Listed \ {x} : {f} \X (1..heap'[f].usedMemory) = {f} \X (1..heap[f].usedMemory)
      BY <1>3, <1>8
    <3>2. QED
      BY <3>1, Zenon DEF PlacesIn
  <2>2. Cardinality(PlacesIn(heap, Listed)) = Cardinality(P) + heap[x].usedMemory /\ Cardinality(P) \in Nat
    BY <1>2, <1>3, PlacesSplit
  <2>3. \A f \in Listed : heap'[f] \in FileMemory
    BY <1>3, <1>5, <1>8
  <2>4. Cardinality(PlacesIn(heap', Listed)) = Cardinality(Q) + heap'[x].usedMemory
    BY <1>2, <1>3, <2>3, PlacesSplit
  <2>5. PICK c \in Nat : c = Cardinality(P)
    BY <2>2
  <2>6. nCurrentMemoryUsed = c + u
    BY <1>1, <1>4, <2>2, <2>5, BytesAre DEF ListOK
  <2>7. Cardinality(PlacesIn(heap', Listed)) = c + (u + k)
    BY <1>5, <1>8, <2>1, <2>4, <2>5
  <2>8. nCurrentMemoryUsed' = (c + u) + k
    BY <1>6, <2>6
  <2>9. (c + u) + k = c + (u + k)
    BY <1>2, <1>4, <2>5
  <2>10. QED
    BY <1>9, <2>7, <2>8, <2>9, BytesAreNext
<1>11. \A f \in Listed : heap'[f].filename = heap[f].filename
  BY <1>3, <1>5, <1>8
<1>12. ListOK'
  BY <1>1, <1>2, <1>6, <1>9, <1>10, <1>11 DEF ListOK
<1>13. JobOK(Idle)'
  BY IdleJob, PTL
<1>14. Own(frame[w]) = {}
  BY <1>1, OwnsNone
<1>15. \A f \in FileIds : Freed(f) => Freed(f)'
  BY <1>2, <1>3, <1>8 DEF Freed
<1>16. AllHeld(Idle)'
  BY <1>9, <1>14, <1>15 DEF AllHeld, JobInv
<1>17. Idle.pc # "add_first"
  BY IdleOK
<1>18. JobInv(Idle)'
  BY <1>1, <1>9, <1>12, <1>13, <1>16, <1>17 DEF JobInv
<1>19. frame'[w] = Idle
  BY <1>1 DEF Become, IInv, TypeOK
<1>20. QED
  BY <1>18, <1>19 DEF Advances

-----------------------------------------------------------------------------
(* READN_FILE.                                                             *)

\* How many files will be sent: no more than there are.
LEMMA CountFilesOn ==
  ASSUME IInv, NEW w \in Workers, JobInv(frame[w]), CountFiles(w)
  PROVE  Advances(w)
<1> DEFINE fr == frame[w]
           n == IF fr.arg > nCurrentFile \/ fr.arg = 0 THEN nCurrentFile ELSE fr.arg
           g == [fr EXCEPT !.pc = "head", !.left = n]
<1>1. /\ fr \in Frames /\ fr.pc = "count" /\ fr.pc \notin Creating \cup Freeing
      /\ OpAt(fr) /\ PointersOK(fr) /\ CountsOK(fr)
      /\ UNCHANGED storeVars
  BY FrameFacts DEF CountFiles, At, Creating, Freeing, JobInv, JobOK
<1>2. CASE Done(w)
  BY <1>1, <1>2, JobEnds DEF storeVars, lists, counters
<1>3. CASE nCurrentFile # 0 /\ Become(w, g)
  <2>1. g.pc = "head" /\ g.op = fr.op /\ g.filename = fr.filename /\ g.arg = fr.arg /\ g.left = n
    BY <1>1 DEF Frames
  <2>2. n \in 1..nCurrentFile
    BY <1>1, <1>3 DEF Frames, IInv, TypeOK
  <2> HIDE DEF g, fr, n
  <2>3. OpAt(g)
    BY <1>1, <2>1 DEF OpAt, Finding, Creating
  <2>4. PointersOK(g)
    BY <1>1, <2>1 DEF PointersOK, Finding, Creating
  <2>5. CountsOK(g)
    BY <1>1, <2>1, <2>2 DEF CountsOK, Creating
  <2>6. QED
    BY <1>1, <1>3, <2>1, <2>3, <2>4, <2>5, ReadsOn DEF JobOK, fr
<1>4. QED
  BY <1>2, <1>3 DEF CountFiles

\* The first file.
LEMMA GetHeadOn ==
  ASSUME IInv, NEW w \in Workers, JobInv(frame[w]), GetHead(w)
  PROVE  Advances(w)
<1> DEFINE fr == frame[w]
           g == [fr EXCEPT !.pc = "sendn", !.file = Head(memory)]
<1>1. /\ fr \in Frames /\ fr.pc = "head" /\ fr.pc \notin Creating \cup Freeing
      /\ OpAt(fr) /\ PointersOK(fr) /\ CountsOK(fr) /\ lost = {}
      /\ UNCHANGED storeVars
  BY FrameFacts DEF GetHead, At, Creating, Freeing, JobInv, JobOK
<1>2. CASE Done(w)
  BY <1>1, <1>2, JobEnds DEF storeVars, lists, counters
<1>3. CASE memory # <<>> /\ Become(w, g)
  <2>1. /\ g.pc = "sendn" /\ g.op = fr.op /\ g.filename = fr.filename /\ g.arg = fr.arg
        /\ g.left = fr.left /\ g.file = Head(memory)
    BY <1>1 DEF Frames
  <2>2. fr.left \in 1..nCurrentFile
    BY <1>1 DEF CountsOK
  <2>3. /\ nCurrentFile = Len(memory) /\ Len(memory) \in Nat /\ DOMAIN memory = 1..Len(memory)
        /\ memory[1] = Head(memory) /\ \A i \in 1..Len(memory) : memory[i] \in Listed
    BY <1>1, StoreFacts
  <2>4. 1 \in DOMAIN memory /\ fr.left \in 1..(Len(memory) - 1 + 1)
    BY <2>2, <2>3
  <2>5. g.file \in Listed
    BY <2>1, <2>3, <2>4
  <2>6. \E i \in DOMAIN memory : memory[i] = g.file /\ g.left \in 1..(Len(memory) - i + 1)
    BY <2>1, <2>3, <2>4
  <2> HIDE DEF g, fr
  <2>7. OpAt(g)
    BY <1>1, <2>1 DEF OpAt, Finding, Creating
  <2>8. PointersOK(g)
    BY <1>1, <2>1, <2>5 DEF PointersOK, Finding, Creating
  <2>9. CountsOK(g)
    BY <1>1, <2>1, <2>6 DEF CountsOK, Creating
  <2>10. QED
    BY <1>1, <1>3, <2>1, <2>7, <2>8, <2>9, ReadsOn DEF JobOK, fr
<1>4. QED
  BY <1>2, <1>3 DEF GetHead

\* A send starts.
LEMMA SendNOn ==
  ASSUME IInv, NEW w \in Workers, JobInv(frame[w]), SendN(w)
  PROVE  Advances(w)
<1> DEFINE fr == frame[w]
           g == [fr EXCEPT !.pc = "sendn_next"]
<1>1. /\ fr \in Frames /\ fr.pc = "sendn" /\ fr.pc \notin Creating \cup Freeing
      /\ OpAt(fr) /\ PointersOK(fr) /\ CountsOK(fr)
      /\ UNCHANGED storeVars
  BY FrameFacts DEF SendN, At, Creating, Freeing, JobInv, JobOK
<1>2. /\ Become(w, g) /\ g.pc = "sendn_next" /\ g.op = fr.op /\ g.filename = fr.filename
      /\ g.arg = fr.arg /\ g.file = fr.file /\ g.left = fr.left
  BY <1>1, AtLabel DEF SendN, Go
<1> HIDE DEF g, fr
<1>3. OpAt(g)
  BY <1>1, <1>2 DEF OpAt, Finding, Creating
<1>4. PointersOK(g)
  BY <1>1, <1>2 DEF PointersOK, Finding, Creating
<1>5. CountsOK(g)
  BY <1>1, <1>2 DEF CountsOK, Creating
<1>6. QED
  BY <1>1, <1>2, <1>3, <1>4, <1>5, ReadsOn DEF JobOK, fr

\* next leads to the following place of the list.
LEMMA NextPlace ==
  ASSUME IInv, lost = {}, NEW i \in 1..Len(memory), i < Len(memory), NEW f \in NextOf(memory[i])
  PROVE  f = memory[i + 1] /\ f \in Listed /\ i + 1 \in DOMAIN memory
<1>1. /\ Len(memory) \in Nat /\ DOMAIN memory = 1..Len(memory) /\ Listed \subseteq FileIds
      /\ \A j \in 1..Len(memory) : memory[j] \in Listed
      /\ \A j, k \in 1..Len(memory) : memory[j] = memory[k] => j = k
  BY StoreFacts
<1>2. i \in 1..(Len(memory) - 1) /\ i + 1 \in 1..Len(memory) /\ memory[i + 1] \in FileIds
  BY <1>1
<1>3. memory[i + 1] \in Successors(memory[i])
  BY <1>2 DEF Successors
<1>4. \A g \in Successors(memory[i]) : g = memory[i + 1]
  <2> SUFFICES ASSUME NEW g, NEW j \in 1..(Len(memory) - 1), memory[j] = memory[i], memory[j + 1] = g
               PROVE  g = memory[i + 1]
    BY DEF Successors
  <2>1. j \in 1..Len(memory)
    BY <1>1
  <2>2. j = i
    BY <1>1, <2>1
  <2>3. QED
    BY <2>2
<1>5. QED
  BY <1>1, <1>2, <1>3, <1>4 DEF NextOf

\* The next file: there is one as long as files are left to send.
LEMMA SendNNextOn ==
  ASSUME IInv, NEW w \in Workers, JobInv(frame[w]), SendNNext(w)
  PROVE  Advances(w)
<1> DEFINE fr == frame[w]
<1>1. /\ fr \in Frames /\ fr.pc = "sendn_next" /\ fr.pc \notin Creating \cup Freeing
      /\ OpAt(fr) /\ PointersOK(fr) /\ CountsOK(fr) /\ lost = {}
      /\ UNCHANGED storeVars
  BY FrameFacts DEF SendNNext, At, Creating, Freeing, JobInv, JobOK
<1>2. CASE Done(w)
  BY <1>1, <1>2, JobEnds DEF storeVars, lists, counters
<1>3. ASSUME fr.left # 1, NEW f \in NextOf(fr.file),
             Become(w, [fr EXCEPT !.pc = "sendn", !.file = f, !.left = @ - 1])
      PROVE  Advances(w)
  <2> DEFINE g == [fr EXCEPT !.pc = "sendn", !.file = f, !.left = @ - 1]
  <2>1. /\ g.pc = "sendn" /\ g.op = fr.op /\ g.filename = fr.filename /\ g.arg = fr.arg
        /\ g.left = fr.left - 1 /\ g.file = f
    BY <1>1 DEF Frames
  <2>2. PICK i \in DOMAIN memory : memory[i] = fr.file /\ fr.left \in 1..(Len(memory) - i + 1)
    BY <1>1 DEF CountsOK
  <2>3. Len(memory) \in Nat /\ DOMAIN memory = 1..Len(memory)
    BY <1>1, StoreFacts
  <2>4. i \in 1..Len(memory) /\ i < Len(memory)
    BY <1>3, <2>2, <2>3
  <2>5. f = memory[i + 1] /\ f \in Listed /\ i + 1 \in DOMAIN memory
    BY <1>1, <1>3, <2>2, <2>4, NextPlace
  <2>6. fr.left - 1 \in 1..(Len(memory) - (i + 1) + 1)
    BY <1>3, <2>2, <2>3, <2>4
  <2>7. \E j \in DOMAIN memory : memory[j] = g.file /\ g.left \in 1..(Len(memory) - j + 1)
    BY <2>1, <2>5, <2>6
  <2> HIDE DEF g, fr
  <2>8. OpAt(g)
    BY <1>1, <2>1 DEF OpAt, Finding, Creating
  <2>9. PointersOK(g)
    BY <1>1, <2>1, <2>5 DEF PointersOK, Finding, Creating
  <2>10. CountsOK(g)
    BY <1>1, <2>1, <2>7 DEF CountsOK, Creating
  <2>11. Become(w, g) /\ g.pc # "add_first"
    BY <1>3, <2>1 DEF g, fr
  <2>12. QED
    BY <1>1, <2>8, <2>9, <2>10, <2>11, ReadsOn DEF JobOK, fr
<1>4. QED
  BY <1>2, <1>3 DEF SendNNext

-----------------------------------------------------------------------------
(* REMOVE_FILE.                                                            *)

\* remove_generic_file looks its file up again, by its name.
LEMMA RemoveInMemOn ==
  ASSUME IInv, NEW w \in Workers, JobInv(frame[w]), RemoveInMem(w)
  PROVE  Advances(w)
<1> DEFINE fr == frame[w]
           g == [fr EXCEPT !.pc = "find_in", !.op = "POP"]
<1>1. /\ fr \in Frames /\ fr.pc = "remove_in" /\ fr.pc \notin Creating \cup Freeing
      /\ OpAt(fr) /\ PointersOK(fr) /\ CountsOK(fr) /\ fr.op = "REMOVE"
      /\ UNCHANGED storeVars /\ Become(w, g)
  BY FrameFacts DEF RemoveInMem, At, Creating, Freeing, JobInv, JobOK, OpAt
<1>2. g.pc = "find_in" /\ g.op = "POP" /\ g.filename = fr.filename /\ g.arg = fr.arg /\ g.file = fr.file
  BY <1>1 DEF Frames
<1> HIDE DEF g, fr
<1>3. OpAt(g)
  BY <1>1, <1>2 DEF OpAt, Finding, Creating
<1>4. PointersOK(g)
  BY <1>1, <1>2 DEF PointersOK, Finding, Creating
<1>5. CountsOK(g)
  BY <1>1, <1>2 DEF CountsOK, Creating
<1>6. QED
  BY <1>1, <1>2, <1>3, <1>4, <1>5, ReadsOn DEF JobOK, fr

\* pop_from_head: there is a head.
LEMMA RemovePopOn ==
  ASSUME IInv, NEW w \in Workers, JobInv(frame[w]), RemovePop(w)
  PROVE  Advances(w)
<1> DEFINE fr == frame[w]
           x == Head(memory)
<1>1. /\ fr \in Frames /\ fr.pc = "remove_pop" /\ fr.pc \notin Creating \cup Freeing
      /\ lost = {} /\ OpAt(fr) /\ PointersOK(fr) /\ fr.op = "POP"
      /\ UNCHANGED <<heap, policy>>
  BY FrameFacts DEF RemovePop, At, Creating, Freeing, JobInv, JobOK, OpAt
<1>2. memory # <<>>
  BY <1>1 DEF PointersOK
<1>3. PICK g : g = [fr EXCEPT !.pc = "remove_free", !.victim = x]
  OBVIOUS
<1>4. Become(w, g) /\ PopHead /\ lost' = lost
  BY <1>2, <1>3 DEF RemovePop, PopHead
<1>5. memory \in Seq(FileIds) /\ IsInjective(memory)
  BY DEF IInv, TypeOK, OneOwner
<1>6. x \in Listed /\ Listed' = Listed \ {x}
  BY <1>2, <1>4, <1>5, PoppedHeadList DEF PopHead, Listed
<1>7. /\ g.pc = "remove_free" /\ g.op = "POP" /\ g.filename = fr.filename /\ g.arg = fr.arg
      /\ g.victim = x
  BY <1>1, <1>3 DEF Frames
<1>8. x \in FileIds
  BY <1>1, <1>6, StoreFacts
<1>9. x \in Own(g)
  BY <1>7, <1>8 DEF Own, Freeing
<1>10. Uncount(x) /\ Own(fr) = {}
  BY <1>1, <1>4, OwnsNone DEF PopHead
<1> HIDE DEF fr, x
<1>11. OpAt(g)'
  BY <1>1, <1>7 DEF OpAt, Finding, Creating
<1>12. PointersOK(g)'
  BY <1>7 DEF PointersOK, Finding, Creating
<1>13. CountsOK(g)'
  BY <1>7 DEF CountsOK, Creating
<1>14. JobOK(g)'
  BY <1>11, <1>12, <1>13 DEF JobOK
<1>15. QED
  BY <1>1, <1>4, <1>6, <1>7, <1>9, <1>10, <1>14, PopsOn DEF fr

-----------------------------------------------------------------------------
(* Every step of the one worker.                                           *)

\* A section leaves the server running, or it ends it.
LEMMA SectionOrEnd ==
  ASSUME NEW w \in Workers, Step(w)
  PROVE  \/ server' = server
         \/ /\ End("exited")
            /\ OutOfMemory(w) \/ SetOpenOnNull(w) \/ RemoveFails(w) \/ SendFails(w)
         \/ ClosedJobFreed(w) \/ Crash(w)
<1>1. CASE TakeJob(w) \/ OpenInMem(w)
  BY <1>1 DEF TakeJob, OpenInMem, Become, Go, Done
<1>2. CASE FindInMem(w) \/ FindScan(w) \/ FindPolicy(w)
  BY <1>2 DEF FindInMem, FindScan, FindPolicy, FindReturns, Become, Go, Done
<1>3. CASE IsActionLegal(w) \/ PlanFiles(w) \/ PlanMemory(w) \/ MoreFiles(w)
  BY <1>3 DEF IsActionLegal, PlanFiles, PlanMemory, MoreFiles, CacheDone, Become, Go, Done
<1>4. CASE PopFile(w) \/ FreeFile(w) \/ PopMemory(w) \/ SubtractPopped(w) \/ FreeMemory(w)
  BY <1>4 DEF PopFile, FreeFile, PopMemory, SubtractPopped, FreeMemory, CacheDone, Become, Go, Done
<1>5. CASE AddCheck(w) \/ AddCount(w) \/ AddFirst(w) \/ AddHead(w)
  BY <1>5 DEF AddCheck, AddCount, AddFirst, AddHead, Become, Go, Done
<1>6. CASE SetFileOpen(w) \/ SetFileClose(w) \/ ReadCheck(w) \/ ReadLock(w) \/ ReadSend(w)
  BY <1>6 DEF SetFileOpen, SetFileClose, ReadCheck, ReadLock, ReadSend, Become, Go, Done
<1>7. CASE RecvMessage(w) \/ WriteMeta(w) \/ WriteFile(w)
  BY <1>7 DEF RecvMessage, WriteMeta, WriteFile, Become, Go, Done
<1>8. CASE CountFiles(w) \/ GetHead(w) \/ SendN(w) \/ SendNNext(w)
  BY <1>8 DEF CountFiles, GetHead, SendN, SendNNext, Become, Go, Done
<1>9. CASE RemoveInMem(w) \/ RemovePop(w) \/ RemoveFree(w)
  BY <1>9 DEF RemoveInMem, RemovePop, RemoveFree, Become, Go, Done
<1>10. CASE OutOfMemory(w) \/ SetOpenOnNull(w) \/ RemoveFails(w) \/ SendFails(w)
  BY <1>10 DEF OutOfMemory, SetOpenOnNull, RemoveFails, SendFails, Exit
<1>11. QED
  BY <1>1, <1>2, <1>3, <1>4, <1>5, <1>6, <1>7, <1>8, <1>9, <1>10 DEF Step

\* The one worker goes on with its job, or it ends the server for the reasons
\* EndsOnHangUp names.
LEMMA StepOn ==
  ASSUME IInv, NEW w \in Workers, JobInv(frame[w]), Step(w)
  PROVE  \/ Advances(w) /\ server' = server
         \/ /\ End("exited")
            /\ Sending(frame[w]) \/ (frame[w].pc = "add_check" /\ Unused = {})
<1>1. OpAt(frame[w]) /\ PointersOK(frame[w]) /\ lost = {}
  BY DEF JobInv, JobOK
<1>2. ~SetFileClose(w) /\ ~ClosedJobFreed(w)
  BY <1>1 DEF SetFileClose, ClosedJobFreed, At, OpAt
<1>3. ~SetOpenOnNull(w)
  <2> SUFFICES ASSUME SetOpenOnNull(w) PROVE FALSE
    OBVIOUS
  <2>1. NULL \in Listed
    BY <1>1 DEF SetOpenOnNull, At, PointersOK
  <2>2. QED
    BY <1>1, <2>1, StoreFacts, MemoryAssumption
<1>4. ~RemoveFails(w)
  <2> SUFFICES ASSUME RemoveFails(w) PROVE FALSE
    OBVIOUS
  <2>1. frame[w].file \in Listed
    BY <1>1 DEF RemoveFails, At, PointersOK
  <2>2. ~NoSuch(heap[frame[w].file].filename)
    BY <1>1, <2>1, ListedGood
  <2>3. QED
    BY <1>1, <2>2, NamesHere DEF RemoveFails
<1>5. ~Crash(w)
  BY NoFault DEF Crash
<1>6. CASE OutOfMemory(w)
  BY <1>6 DEF OutOfMemory, At, Exit
<1>7. CASE SendFails(w)
  BY <1>7 DEF SendFails, Exit
<1>8. CASE ~OutOfMemory(w) /\ ~SendFails(w)
  <2>1. server' = server
    BY <1>2, <1>3, <1>4, <1>5, <1>8, SectionOrEnd
  <2>2. CASE TakeJob(w) \/ OpenInMem(w) \/ FindInMem(w) \/ FindScan(w) \/ FindPolicy(w)
    BY <2>1, <2>2, TakeJobOn, OpenInMemOn, FindInMemOn, FindScanOn, FindPolicyOn
  <2>3. CASE IsActionLegal(w) \/ PlanFiles(w) \/ PopFile(w) \/ FreeFile(w) \/ PlanMemory(w)
             \/ MoreFiles(w) \/ PopMemory(w) \/ SubtractPopped(w) \/ FreeMemory(w)
    BY <2>1, <2>3, IsActionLegalOn, PlanFilesOn, PopFileOn, FreeFileOn, PlanMemoryOn,
       MoreFilesOn, PopMemoryOn, SubtractPoppedOn, FreeMemoryOn
  <2>4. CASE AddCheck(w) \/ AddCount(w) \/ AddFirst(w) \/ AddHead(w) \/ SetFileOpen(w)
    BY <2>1, <2>4, AddCheckOn, AddCountOn, AddFirstOn, AddHeadOn, SetFileOpenOn
  <2>5. CASE ReadCheck(w) \/ ReadLock(w) \/ ReadSend(w) \/ RecvMessage(w) \/ WriteMeta(w) \/ WriteFile(w)
    BY <2>1, <2>5, ReadCheckOn, ReadLockOn, ReadSendOn, RecvMessageOn, WriteMetaOn, WriteFileOn
  <2>6. CASE CountFiles(w) \/ GetHead(w) \/ SendN(w) \/ SendNNext(w)
    BY <2>1, <2>6, CountFilesOn, GetHeadOn, SendNOn, SendNNextOn
  <2>7. CASE RemoveInMem(w) \/ RemovePop(w) \/ RemoveFree(w)
    BY <2>1, <2>7, RemoveInMemOn, RemovePopOn, RemoveFreeOn
  <2>8. QED
    BY <1>2, <1>3, <1>4, <1>5, <1>8, <2>2, <2>3, <2>4, <2>5, <2>6, <2>7 DEF Step
<1>9. QED
  BY <1>6, <1>7, <1>8

\* A worker only links a file as the first of an empty list, in any mode:
\* nobody else adds a file in between.
LEMMA LinksFirst ==
  ASSUME IInv, lost = {}, NEW w \in Workers, frame[w].pc = "add_first" => memory = <<>>, Step(w)
  PROVE  lost' = {} /\ (frame'[w].pc = "add_first" => memory' = <<>>)
<1> DEFINE fr == frame[w]
           Goal == lost' = {} /\ (frame'[w].pc = "add_first" => memory' = <<>>)
<1>0. /\ fr \in Frames /\ FrameOK(fr) /\ frame \in [Workers -> Frames] /\ w \in Workers
      /\ Idle.pc = "idle"
  BY FrameFacts, IdleOK DEF IInv, TypeOK
<1>1. ASSUME NEW g, Become(w, g), g.pc # "add_first", lost' = lost PROVE Goal
  BY <1>0, <1>1 DEF Become
<1>2. ASSUME NEW l \in Labels \ {"add_first"}, Go(w, l), lost' = lost PROVE Goal
  <2>1. [frame[w] EXCEPT !.pc = l].pc # "add_first"
    BY <1>0 DEF Frames
  <2>2. QED
    BY <1>1, <1>2, <2>1 DEF Go
<1>3. ASSUME Done(w), lost' = lost PROVE Goal
  BY <1>0, <1>1, <1>3 DEF Done
<1>4. ASSUME CacheDone(w), lost' = lost PROVE Goal
  <2>1. AfterCache(fr).pc # "add_first"
    BY <1>0 DEF AfterCache, Frames
  <2>2. QED
    BY <1>1, <1>4, <2>1 DEF CacheDone
<1>5. ASSUME NEW how, End(how) PROVE Goal
  BY <1>0, <1>5 DEF End, storeVars
<1> SUFFICES Goal
  OBVIOUS
<1> HIDE DEF Goal
<1>6. CASE TakeJob(w)
  <2>1. PICK op, n, k : Become(w, NewFrame(FirstLabel(op), op, n, k))
    BY <1>6 DEF TakeJob
  <2>2. NewFrame(FirstLabel(op), op, n, k).pc # "add_first"
    BY DEF NewFrame, FirstLabel
  <2>3. lost' = lost
    BY <1>6 DEF TakeJob, storeVars
  <2>4. QED
    BY <1>1, <2>1, <2>2, <2>3
<1>7. CASE OpenInMem(w)
  BY <1>2, <1>3, <1>7 DEF OpenInMem, storeVars, Labels
<1>8. CASE FindInMem(w) \/ FindScan(w) \/ FindPolicy(w)
  <2>1. lost' = lost /\ fr.pc \in {"find_in", "find_scan", "find_policy"}
    BY <1>8 DEF FindInMem, FindScan, FindPolicy, storeVars, At
  <2>2. ASSUME NEW f, FindReturns(w, f) PROVE Goal
    <3>1. FoundFrame(fr, f).pc # "add_first"
      BY <1>0, <2>1 DEF FoundFrame, AfterFind, FrameOK, Writing, Frames
    <3>2. Become(w, FoundFrame(fr, f)) \/ Done(w)
      BY <2>2, FoundIs
    <3>3. QED
      BY <1>1, <1>3, <2>1, <3>1, <3>2
  <2>3. ASSUME NEW i, Become(w, [fr EXCEPT !.pc = "find_policy", !.cursor = memory[i]]) PROVE Goal
    <3>1. [fr EXCEPT !.pc = "find_policy", !.cursor = memory[i]].pc # "add_first"
      BY <1>0 DEF Frames
    <3>2. QED
      BY <1>1, <2>1, <2>3, <3>1
  <2>4. QED
    BY <1>2, <1>8, <2>1, <2>2, <2>3 DEF FindInMem, FindScan, FindPolicy, Labels
<1>9. CASE IsActionLegal(w) \/ PlanFiles(w) \/ PlanMemory(w) \/ MoreFiles(w)
  <2>1. lost' = lost
    BY <1>9 DEF IsActionLegal, PlanFiles, PlanMemory, MoreFiles, storeVars, lists
  <2>2. ASSUME NEW l \in {"pop_file", "more"}, NEW n, Become(w, [fr EXCEPT !.pc = l, !.left = n])
        PROVE  Goal
    <3>1. [fr EXCEPT !.pc = l, !.left = n].pc # "add_first"
      BY <1>0 DEF Frames
    <3>2. QED
      BY <1>1, <2>1, <2>2, <3>1
  <2>3. QED
    BY <1>2, <1>3, <1>4, <1>9, <2>1, <2>2 DEF IsActionLegal, PlanFiles, PlanMemory, MoreFiles, Labels
<1>10. CASE \/ PopFile(w) \/ FreeFile(w) \/ PopMemory(w) \/ SubtractPopped(w) \/ FreeMemory(w)
            \/ RemovePop(w) \/ RemoveFree(w)
  <2>1. lost' = lost
    BY <1>10 DEF PopFile, FreeFile, PopMemory, SubtractPopped, FreeMemory, RemovePop, RemoveFree, storeVars,
                 lists, PopTail, PopHead
  <2>2. ASSUME NEW l, l # "add_first", NEW x, Become(w, [fr EXCEPT !.pc = l, !.victim = x]) PROVE Goal
    <3>1. [fr EXCEPT !.pc = l, !.victim = x].pc # "add_first"
      BY <1>0, <2>2 DEF Frames
    <3>2. QED
      BY <1>1, <2>1, <2>2, <3>1
  <2>3. CASE PopFile(w) \/ RemovePop(w) \/ RemoveFree(w)
    BY <1>2, <1>3, <2>1, <2>2, <2>3 DEF PopFile, RemovePop, RemoveFree, Labels
  <2>4. CASE FreeFile(w)
    <3> DEFINE l == IF fr.left > 1 THEN "pop_file" ELSE "plan_memory"
               g == [fr EXCEPT !.victim = NULL, !.left = @ - 1, !.pc = l]
    <3>1. g.pc = l /\ l # "add_first"
      BY <1>0 DEF Frames
    <3>2. Become(w, g)
      BY <2>4 DEF FreeFile
    <3> HIDE DEF g
    <3>3. QED
      BY <1>1, <2>1, <3>1, <3>2
  <2>5. CASE PopMemory(w)
    BY <2>2, <2>5 DEF PopMemory
  <2>7. CASE SubtractPopped(w)
    <3> DEFINE g == [fr EXCEPT !.pc = "free_memory", !.left = @ - heap[fr.victim].usedMemory]
    <3>1. g.pc # "add_first"
      BY <1>0 DEF Frames
    <3>2. Become(w, g)
      BY <2>7 DEF SubtractPopped
    <3> HIDE DEF g
    <3>3. QED
      BY <1>1, <2>1, <3>1, <3>2
  <2>6. CASE FreeMemory(w)
    BY <1>4, <2>1, <2>2, <2>6 DEF FreeMemory
  <2>8. QED
    BY <1>10, <2>3, <2>4, <2>5, <2>6, <2>7
<1>11. CASE AddCheck(w)
  <2>1. PICK f, l : l \in {"set_open", "add_count"} /\ Become(w, [fr EXCEPT !.file = f, !.pc = l])
    BY <1>11 DEF AddCheck
  <2>2. [fr EXCEPT !.file = f, !.pc = l].pc # "add_first"
    BY <1>0, <2>1 DEF Frames
  <2>3. lost' = lost
    BY <1>11 DEF AddCheck, lists
  <2>4. QED
    BY <1>1, <2>1, <2>2, <2>3
<1>12. CASE AddCount(w)
  <2>1. lost' = lost /\ memory' = memory
    BY <1>12 DEF AddCount, storeVars
  <2>2. CASE nCurrentFile = 0
    BY <2>1, <2>2, StoreFacts DEF Goal
  <2>3. CASE nCurrentFile # 0
    BY <1>2, <1>12, <2>1, <2>3 DEF AddCount, Labels
  <2>4. QED
    BY <2>2, <2>3
<1>13. CASE AddFirst(w)
  <2>1. lost' = lost /\ Go(w, "set_open")
    BY <1>13 DEF AddFirst, At, SetAsOnly
  <2>2. QED
    BY <1>2, <2>1 DEF Labels
<1>14. CASE AddHead(w) \/ ReadLock(w) \/ ReadSend(w) \/ WriteMeta(w) \/ WriteFile(w) \/ SetFileOpen(w)
  BY <1>2, <1>3, <1>14 DEF AddHead, PushHead, ReadLock, ReadSend, WriteMeta, WriteFile, SetFileOpen, lists, Labels
<1>15. CASE SetFileClose(w) \/ RecvMessage(w) \/ RemoveInMem(w)
  <2>1. lost' = lost
    BY <1>15 DEF SetFileClose, RecvMessage, RemoveInMem, storeVars, lists
  <2>2. ASSUME NEW o, NEW f,
               Become(w, [fr EXCEPT !.pc = "find_in", !.op = o, !.file = f])
               \/ Become(w, [fr EXCEPT !.pc = "find_in", !.op = o])
        PROVE  Goal
    <3>1. /\ [fr EXCEPT !.pc = "find_in", !.op = o, !.file = f].pc # "add_first"
          /\ [fr EXCEPT !.pc = "find_in", !.op = o].pc # "add_first"
      BY <1>0 DEF Frames
    <3>2. QED
      BY <1>1, <2>1, <2>2, <3>1
  <2>3. QED
    BY <1>2, <1>3, <1>15, <2>1, <2>2 DEF SetFileClose, RecvMessage, RemoveInMem, Labels
<1>16. CASE ReadCheck(w) \/ CountFiles(w) \/ GetHead(w) \/ SendN(w) \/ SendNNext(w)
  <2>1. lost' = lost
    BY <1>16 DEF ReadCheck, CountFiles, GetHead, SendN, SendNNext, storeVars
  <2>2. ASSUME NEW l \in {"head", "sendn"}, NEW f, NEW n,
               \/ Become(w, [fr EXCEPT !.pc = l, !.left = n])
               \/ Become(w, [fr EXCEPT !.pc = l, !.file = f])
               \/ Become(w, [fr EXCEPT !.pc = l, !.file = f, !.left = n])
        PROVE  Goal
    <3>1. /\ [fr EXCEPT !.pc = l, !.left = n].pc # "add_first"
          /\ [fr EXCEPT !.pc = l, !.file = f].pc # "add_first"
          /\ [fr EXCEPT !.pc = l, !.file = f, !.left = n].pc # "add_first"
      BY <1>0 DEF Frames
    <3>2. QED
      BY <1>1, <2>1, <2>2, <3>1
  <2>3. CASE ReadCheck(w) \/ SendN(w)
    BY <1>2, <1>3, <2>1, <2>3 DEF ReadCheck, SendN, Labels
  <2>4. CASE CountFiles(w) \/ GetHead(w)
    BY <1>3, <2>1, <2>2, <2>4 DEF CountFiles, GetHead
  <2>5. CASE SendNNext(w)
    BY <1>3, <2>1, <2>2, <2>5 DEF SendNNext
  <2>6. QED
    BY <1>16, <2>3, <2>4, <2>5
<1>17. CASE OutOfMemory(w) \/ SetOpenOnNull(w) \/ ClosedJobFreed(w) \/ RemoveFails(w) \/ SendFails(w) \/ Crash(w)
  BY <1>5, <1>17 DEF OutOfMemory, SetOpenOnNull, ClosedJobFreed, RemoveFails, SendFails, Crash, Exit
<1>18. QED
  BY <1>6, <1>7, <1>8, <1>9, <1>10, <1>11, <1>12, <1>13, <1>14, <1>15, <1>16, <1>17 DEF Step

\* While the server is on, the invariant says of the worker what its steps need.
LEMMA JobInvNow ==
  ASSUME OneInv, mode = "ON", server = "running", NEW w \in Workers
  PROVE  JobInv(frame[w])
<1>1. Workers = {w}
  BY SequentialAssumption
<1>2. main.pc = "select"
  BY DEF OneInv, MainOK
<1>3. AllHeld(frame[w])
  BY <1>1, <1>2 DEF OneInv, StoreOK, Accounted, AllHeld
<1>4. QED
  BY <1>3 DEF OneInv, StoreOK, JobInv

\* A server that ended runs no section.
LEMMA StepRuns == ASSUME NEW w \in Workers, Step(w) PROVE server = "running"
BY DEF Step, TakeJob, OpenInMem, FindInMem, FindScan, FindPolicy, IsActionLegal, PlanFiles, PopFile,
   FreeFile, PlanMemory, MoreFiles, PopMemory, SubtractPopped, FreeMemory, AddCheck, OutOfMemory, AddCount, AddFirst,
   AddHead, SetFileOpen, SetOpenOnNull, SetFileClose, ClosedJobFreed, ReadCheck, ReadLock, ReadSend,
   RecvMessage, WriteMeta, WriteFile, CountFiles, GetHead, SendN, SendNNext, RemoveInMem, RemoveFails,
   RemovePop, RemoveFree, SendFails, Crash, At

\* A step of the worker.
LEMMA WorkerKeepsOne ==
  ASSUME OneInv, NEW w \in Workers, WorkerStep(w)
  PROVE  OneInv'
<1>1. /\ Workers = {w} /\ Step(w) /\ server = "running" /\ mode' = mode /\ main' = main
      /\ SInv /\ IInv /\ MainOK /\ lost = {} /\ CountedCovered
      /\ frame[w].pc = "add_first" => memory = <<>>
  BY SequentialAssumption, StepRuns DEF WorkerStep, OneInv, SInv
<1>2. SInv' /\ IInv'
  BY <1>1, WorkerStepKeeps DEF SInv
<1>3. CountedCovered'
  BY <1>1, <1>2, CountedStep
<1>4. lost' = {} /\ \A v \in Workers : frame'[v].pc = "add_first" => memory' = <<>>
  BY <1>1, LinksFirst
<1>5. main.pc # "returned"
  BY <1>1 DEF MainOK
<1>6. GracefulLeavesNothing'
  BY <1>1, <1>5 DEF GracefulLeavesNothing
<1>7. mode # "GRACEFUL"
  <2> SUFFICES ASSUME mode = "GRACEFUL" PROVE FALSE
    OBVIOUS
  <2>1. frame[w].pc = "idle"
    BY <1>1, IdleOK DEF MainOK
  <2>2. QED
    BY <2>1 DEF WorkerStep
<1>8. MainOK'
  BY <1>1, <1>5, <1>7 DEF MainOK
<1>9. ASSUME mode = "ON"
      PROVE  (\A v \in Workers : JobOK(frame[v]))' /\ StoreOK'
  <2>1. JobInv(frame[w]) /\ StoreOK /\ main.pc # "clean_free"
    BY <1>1, <1>9, JobInvNow DEF OneInv, MainOK
  <2>2. CASE Advances(w) /\ server' = server
    <3>1. PICK g : frame'[w] = g /\ JobInv(g)'
      BY <2>2 DEF Advances
    <3>2. JobOK(g)' /\ ListOK' /\ AllHeld(g)'
      BY <3>1 DEF JobInv
    <3>3. (\A v \in Workers : JobOK(frame[v]))'
      BY <1>1, <3>1, <3>2 DEF JobOK
    <3>4. Accounted'
      BY <1>1, <3>1, <3>2 DEF Accounted, AllHeld
    <3>5. QED
      BY <2>1, <2>2, <3>2, <3>3, <3>4 DEF StoreOK
  <2>3. CASE End("exited")
    <3>1. server' = "exited" /\ frame'[w] = Idle /\ UNCHANGED storeVars
      BY <2>3 DEF End
    <3>2. JobOK(Idle)'
      BY IdleJob, PTL
    <3>3. (\A v \in Workers : JobOK(frame[v]))'
      BY <1>1, <3>1, <3>2
    <3>4. Listed' = Listed /\ UNCHANGED counters
      BY <3>1 DEF storeVars, counters, Listed
    <3>5. ListOK'
      BY <2>1, <3>1, <3>4, ListKept DEF StoreOK, storeVars
    <3>6. QED
      BY <3>1, <3>3, <3>5 DEF StoreOK, Accounted
  <2>4. QED
    BY <1>1, <2>1, <2>2, <2>3, StepOn
<1>10. mode \in {"ON", "OFF"}
  BY <1>1, <1>7 DEF MainOK
<1>11. QED
  BY <1>1, <1>2, <1>3, <1>4, <1>6, <1>8, <1>9, <1>10 DEF OneInv

-----------------------------------------------------------------------------
(* The end of the server.                                                  *)

\* With the store and the frames as they are, only what is said of main is left
\* to see.
LEMMA StoreAsItWas ==
  ASSUME OneInv, UNCHANGED vars, SInv', MainOK', mode' = "ON" => mode = "ON", mode = "OFF" => mode' = "OFF",
         main.pc # "clean_free", main'.pc # "returned"
  PROVE  OneInv'
<1>1. IInv /\ IInv' /\ CountedCovered'
  BY CountedNext DEF OneInv, SInv
<1>2. UNCHANGED <<memory, lost, heap, nCurrentFile, nCurrentMemoryUsed, policy, frame, server>>
  BY DEF vars
<1>3. Listed' = Listed /\ UNCHANGED counters
  BY <1>2 DEF Listed, counters
<1>4. ASSUME mode = "ON" PROVE (\A w \in Workers : JobOK(frame[w]))'
  <2>1. \A w \in Workers : JobOK(frame[w])
    BY <1>4 DEF OneInv
  <2>2. QED
    BY <1>2, <2>1 DEF JobOK, OpAt, PointersOK, CountsOK, PolicyOf, Listed, NoSuch
<1>5. ASSUME mode # "OFF" PROVE StoreOK'
  <2>1. ListOK'
    BY <1>2, <1>3, <1>5, ListKept DEF OneInv, StoreOK
  <2>2. Accounted'
    BY <1>2, <1>3, <1>5 DEF OneInv, StoreOK, Accounted, Freed, Own
  <2>3. QED
    BY <1>2, <1>5, <2>1, <2>2 DEF OneInv, StoreOK
<1>6. GracefulLeavesNothing'
  BY DEF GracefulLeavesNothing
<1>7. lost' = {} /\ (\A w \in Workers : frame[w].pc = "add_first" => memory = <<>>)'
  BY <1>2 DEF OneInv
<1>8. QED
  BY <1>1, <1>4, <1>5, <1>6, <1>7 DEF OneInv

\* The server is told to stop.
LEMMA StopKeepsOne ==
  ASSUME OneInv, StopGracefully \/ StopAtOnce
  PROVE  OneInv'
<1>1. /\ UNCHANGED vars /\ main.pc = "select" /\ main' = MainAt("print_head", NULL, 0)
      /\ mode' \in {"GRACEFUL", "OFF"}
      /\ mode' = "GRACEFUL" => \A w \in Workers : frame[w] = Idle
  BY DEF StopGracefully, StopAtOnce, Stop
<1>2. SInv'
  BY SystemNextInv DEF OneInv, SystemNext
<1>3. main'.pc = "print_head"
  BY <1>1 DEF MainAt
<1>4. MainOK'
  BY <1>1, <1>3 DEF MainOK, MainLabels, vars
<1>5. mode = "ON"
  BY <1>1 DEF OneInv, MainOK
<1>6. QED
  BY <1>1, <1>2, <1>3, <1>4, <1>5, StoreAsItWas

\* What main finds in a graceful end, when it is alone.
LEMMA AloneFacts ==
  ASSUME OneInv, mode = "GRACEFUL"
  PROVE  /\ IInv /\ lost = {} /\ ListOK /\ Accounted
         /\ \A w \in Workers : frame[w] = Idle /\ Own(frame[w]) = {} /\ frame[w].pc = "idle"
BY IdleOK DEF OneInv, SInv, StoreOK, MainOK

\* printFiles walks the list from head to tail.
LEMMA PrintKeepsOne ==
  ASSUME OneInv, PrintHead \/ PrintTest \/ PrintNext \/ CleanTest
  PROVE  OneInv'
<1>1. /\ UNCHANGED vars /\ mode' = mode /\ server = "running"
      /\ main.pc \in {"print_head", "print_test", "print_next", "clean_test"}
      /\ main'.pc \in {"print_test", "print_next", "clean_test", "clean_pop"}
  BY DEF PrintHead, PrintTest, PrintNext, CleanTest, MainIs, Stopping, MainGoes, MainAt, storeVars, vars
<1>2. SInv'
  BY SystemNextInv DEF OneInv, SystemNext, MainStep
<1>3. mode \in {"ON", "GRACEFUL", "OFF"} /\ mode # "ON"
  BY <1>1 DEF OneInv, MainOK
<1>4. memory' = memory /\ frame' = frame
  BY <1>1 DEF vars
<1>5. ASSUME mode = "GRACEFUL"
      PROVE  /\ main'.pc \in {"print_test", "print_next"} =>
                  /\ main'.printed \in Nat
                  /\ main'.printed < Len(memory) => main'.node = memory[main'.printed + 1]
             /\ main'.pc = "print_next" => main'.printed < Len(memory)
             /\ main'.pc = "clean_pop" => memory # <<>>
  <2>1. /\ IInv /\ lost = {}
        /\ nCurrentFile = Len(memory) /\ nCurrentFile \in Nat /\ DOMAIN memory = 1..Len(memory)
        /\ memory = <<>> <=> nCurrentFile = 0
    BY <1>5, AloneFacts, StoreFacts
  <2>2. /\ main.pc \in {"print_test", "print_next"} =>
             /\ main.printed \in Nat
             /\ main.printed < Len(memory) => main.node = memory[main.printed + 1]
        /\ main.pc = "print_next" => main.printed < Len(memory)
    BY <1>5 DEF OneInv, MainOK
  <2>3. CASE PrintHead
    <3>1. PICK h \in IF memory = <<>> THEN {NULL} ELSE {Head(memory)} : main' = MainAt("print_test", h, 0)
      BY <2>3 DEF PrintHead, MainGoes
    <3>2. main'.pc = "print_test" /\ main'.node = h /\ main'.printed = 0
      BY <3>1 DEF MainAt
    <3>3. 0 < Len(memory) => h = memory[0 + 1]
      BY <2>1, <3>1
    <3>4. QED
      BY <3>2, <3>3
  <2>4. CASE PrintTest
    <3>1. /\ main.pc = "print_test"
          /\ IF main.printed < nCurrentFile
             THEN main' = MainAt("print_next", main.node, main.printed)
             ELSE main' = MainAt("clean_test", NULL, 0)
      BY <2>4 DEF PrintTest, MainGoes, MainIs
    <3>2. CASE main.printed < nCurrentFile
      <4>1. main'.pc = "print_next" /\ main'.node = main.node /\ main'.printed = main.printed
        BY <3>1, <3>2 DEF MainAt
      <4>2. QED
        BY <2>1, <2>2, <3>1, <3>2, <4>1
    <3>3. CASE ~(main.printed < nCurrentFile)
      BY <3>1, <3>3 DEF MainAt
    <3>4. QED
      BY <3>2, <3>3
  <2>5. CASE PrintNext
    <3>1. PICK i \in Nat : i = main.printed /\ i < Len(memory) /\ main.node = memory[i + 1]
      BY <2>2, <2>5 DEF PrintNext, MainIs
    <3>2. PICK f \in NextOf(main.node) : main' = MainAt("print_test", f, main.printed + 1)
      BY <2>5 DEF PrintNext, MainGoes
    <3>3. main'.pc = "print_test" /\ main'.node = f /\ main'.printed = i + 1
      BY <3>1, <3>2 DEF MainAt
    <3>4. ASSUME i + 1 < Len(memory) PROVE f = memory[(i + 1) + 1]
      <4>1. i + 1 \in 1..Len(memory)
        BY <2>1, <3>4
      <4>2. f \in NextOf(memory[i + 1])
        BY <3>1, <3>2
      <4>3. QED
        BY <2>1, <3>4, <4>1, <4>2, NextPlace
    <3>5. i + 1 \in Nat
      OBVIOUS
    <3>6. QED
      BY <3>3, <3>4, <3>5
  <2>6. CASE CleanTest
    <3>1. main'.pc = "clean_pop" /\ nCurrentFile # 0
      BY <2>6 DEF CleanTest, MainGoes, MainAt, FilesLeft
    <3>2. QED
      BY <2>1, <3>1
  <2>7. QED
    BY <2>3, <2>4, <2>5, <2>6
<1>6. MainOK'
  BY <1>1, <1>3, <1>4, <1>5 DEF OneInv, MainOK, MainLabels
<1>7. QED
  BY <1>1, <1>2, <1>3, <1>6, StoreAsItWas

\* What is left of the invariant for a step of main after a stop at once.
LEMMA AtOnceKeeps ==
  ASSUME OneInv, mode = "OFF", SInv', CountedCovered', UNCHANGED <<mode, lost>>,
         \A w \in Workers : frame'[w].pc = "add_first" => memory' = <<>>,
         main'.pc \in MainLabels \ {"select"}, main'.pc = "returned" => server' # "running"
  PROVE  OneInv'
<1>1. MainOK'
  BY DEF MainOK
<1>2. GracefulLeavesNothing'
  BY DEF GracefulLeavesNothing
<1>3. QED
  BY <1>1, <1>2 DEF OneInv

\* main does not follow a bad pointer before it has freed a file.
LEMMA PrintBadKeepsOne ==
  ASSUME OneInv, PrintFollowsBadPointer
  PROVE  OneInv' /\ mode = "OFF"
<1>1. /\ main.pc = "print_next" /\ Dangling(main.node) /\ End("undefined") /\ mode' = mode /\ main' = main
  BY DEF PrintFollowsBadPointer, MainIs
<1>2. mode # "GRACEFUL"
  <2> SUFFICES ASSUME mode = "GRACEFUL" PROVE FALSE
    OBVIOUS
  <2>1. PICK i \in Nat : i = main.printed /\ i < Len(memory) /\ main.node = memory[i + 1]
    BY <1>1 DEF OneInv, MainOK
  <2>2. /\ IInv /\ lost = {} /\ nCurrentFile = Len(memory) /\ nCurrentFile \in Nat
        /\ \A j \in 1..Len(memory) : memory[j] \in Listed
    BY AloneFacts, StoreFacts
  <2>3. main.node \in Listed
    BY <2>1, <2>2
  <2>4. QED
    BY <1>1, <2>2, <2>3, ListedGood
<1>3. mode = "OFF"
  BY <1>1, <1>2 DEF OneInv, MainOK
<1>4. SInv' /\ CountedCovered'
  BY SystemNextInv, SystemCounted DEF OneInv, SystemNext, MainStep
<1>5. lost' = lost /\ \A w \in Workers : frame'[w].pc # "add_first"
  BY <1>1, IdleOK DEF End, storeVars
<1>6. QED
  BY <1>1, <1>3, <1>4, <1>5, AtOnceKeeps DEF MainLabels

\* main returns when the count says that no file is left, and after a graceful
\* end none is.
LEMMA ReturnKeepsOne ==
  ASSUME OneInv, Return
  PROVE  OneInv'
<1>1. /\ server = "running" /\ main.pc = "clean_test" /\ nCurrentFile = 0
      /\ main'.pc = "returned" /\ server' = "exited" /\ mode' = mode
      /\ UNCHANGED storeVars /\ \A w \in Workers : frame'[w] = Idle
  BY DEF Return, MainIs, Stopping, FilesLeft, MainAt, End
<1>2. SInv' /\ CountedCovered'
  BY SystemNextInv, SystemCounted DEF OneInv, SystemNext, MainStep
<1>3. lost' = lost /\ \A w \in Workers : frame'[w].pc # "add_first"
  BY <1>1, IdleOK DEF storeVars
<1>4. mode \in {"GRACEFUL", "OFF"}
  BY <1>1 DEF OneInv, MainOK
<1>5. CASE mode = "OFF"
  BY <1>1, <1>2, <1>3, <1>5, AtOnceKeeps DEF MainLabels
<1>6. CASE mode = "GRACEFUL"
  <2>1. /\ IInv /\ lost = {} /\ ListOK /\ Accounted
        /\ \A w \in Workers : Own(frame[w]) = {}
    BY <1>6, AloneFacts
  <2>2. memory = <<>>
    BY <1>1, <2>1, StoreFacts
  <2>3. Listed = {} /\ nCurrentMemoryUsed = 0
    BY <2>1, <2>2, NoBytes DEF ListOK, Listed, Range
  <2>4. \A f \in FileIds : Freed(f)
    BY <1>1, <2>1, <2>3 DEF Accounted
  <2>5. GracefulLeavesNothing'
    BY <1>1, <2>3, <2>4 DEF GracefulLeavesNothing, Freed, storeVars
  <2>6. ListOK'
    BY <1>1, <2>1, ListKept DEF storeVars, counters, Listed
  <2>7. StoreOK'
    BY <1>1, <2>6 DEF StoreOK, Accounted
  <2>8. MainOK'
    BY <1>1, <1>6 DEF MainOK, MainLabels
  <2>9. QED
    BY <1>1, <1>2, <1>3, <1>6, <2>1, <2>5, <2>7, <2>8 DEF OneInv
<1>7. QED
  BY <1>4, <1>5, <1>6

\* clean_cache pops a file, which is main's from then on.
LEMMA CleanPopKeepsOne ==
  ASSUME OneInv, CleanPop
  PROVE  OneInv'
<1>1. /\ server = "running" /\ main.pc = "clean_pop" /\ main'.pc = "clean_free"
      /\ UNCHANGED <<lost, heap, policy, frame, server, mode>>
  BY DEF CleanPop, MainIs, Stopping, MainGoes, MainAt, lists, PopHead
<1>2. SInv' /\ CountedCovered'
  BY SystemNextInv, SystemCounted DEF OneInv, SystemNext, MainStep
<1>3. memory = <<>> => memory' = <<>>
  BY DEF CleanPop, lists
<1>4. \A w \in Workers : frame'[w].pc = "add_first" => memory' = <<>>
  BY <1>1, <1>3 DEF OneInv
<1>5. mode \in {"GRACEFUL", "OFF"}
  BY <1>1 DEF OneInv, MainOK
<1>6. CASE mode = "OFF"
  BY <1>1, <1>2, <1>4, <1>6, AtOnceKeeps DEF MainLabels
<1>7. CASE mode = "GRACEFUL"
  <2>1. /\ IInv /\ lost = {} /\ ListOK /\ Accounted
        /\ \A w \in Workers : frame[w] = Idle /\ Own(frame[w]) = {}
        /\ memory # <<>>
    BY <1>1, <1>7, AloneFacts DEF OneInv, MainOK
  <2>2. PICK x : x = Head(memory)
    OBVIOUS
  <2>3. PopHead /\ main'.node = x
    BY <2>1, <2>2 DEF CleanPop, MainGoes, MainAt
  <2>4. memory \in Seq(FileIds) /\ IsInjective(memory)
    BY <2>1 DEF IInv, TypeOK, OneOwner
  <2>5. x \in Listed /\ Listed' = Listed \ {x} /\ Uncount(x)
    BY <2>1, <2>2, <2>3, <2>4, PoppedHeadList DEF PopHead, Listed
  <2>6. ListOK'
    BY <1>1, <2>1, <2>5, ListShrinks
  <2>7. Accounted'
    BY <1>1, <2>1, <2>3, <2>5 DEF Accounted, Freed
  <2>8. StoreOK'
    BY <1>1, <1>7, <2>6, <2>7 DEF OneInv, StoreOK
  <2>9. MainOK'
    BY <1>1, <1>7, <2>1 DEF MainOK, MainLabels
  <2>10. GracefulLeavesNothing'
    BY <1>1 DEF GracefulLeavesNothing
  <2>11. QED
    BY <1>1, <1>2, <1>4, <1>7, <2>1, <2>8, <2>9, <2>10 DEF OneInv
<1>8. QED
  BY <1>5, <1>6, <1>7

\* clean_cache frees the file it popped.
LEMMA CleanFreeKeepsOne ==
  ASSUME OneInv, CleanFree
  PROVE  OneInv'
<1>1. /\ server = "running" /\ main.pc = "clean_free" /\ main'.pc = "clean_test"
      /\ UNCHANGED <<memory, lost, nCurrentFile, nCurrentMemoryUsed, policy, frame, server, mode>>
  BY DEF CleanFree, MainIs, Stopping, MainGoes, MainAt, lists, counters
<1>2. SInv' /\ CountedCovered'
  BY SystemNextInv, SystemCounted DEF OneInv, SystemNext, MainStep
<1>3. \A w \in Workers : frame'[w].pc = "add_first" => memory' = <<>>
  BY <1>1 DEF OneInv
<1>4. mode \in {"GRACEFUL", "OFF"}
  BY <1>1 DEF OneInv, MainOK
<1>5. CASE mode = "OFF"
  BY <1>1, <1>2, <1>3, <1>5, AtOnceKeeps DEF MainLabels
<1>6. CASE mode = "GRACEFUL"
  <2>1. /\ IInv /\ lost = {} /\ ListOK /\ Accounted
        /\ \A w \in Workers : frame[w] = Idle /\ Own(frame[w]) = {}
    BY <1>6, AloneFacts
  <2>2. PICK x : x = main.node
    OBVIOUS
  <2>3. /\ heap' = heap \/ heap' = [heap EXCEPT ![x] = NULL]
        /\ x \in FileIds => heap' = [heap EXCEPT ![x] = NULL]
    BY <2>2, MemoryAssumption DEF CleanFree, Free
  <2>4. x \notin Listed
    BY <1>1, <2>1, <2>2, StoreFacts, MemoryAssumption DEF OneInv, SInv, FreedOnce, Linked
  <2>5. heap \in [FileIds -> FileMemory \cup {NULL}] /\ Listed \subseteq FileIds
    BY <2>1, StoreFacts DEF IInv, TypeOK
  <2>6. Listed' = Listed /\ UNCHANGED counters
    BY <1>1 DEF Listed, counters
  <2>7. \A f \in Listed : heap'[f] = heap[f]
    BY <2>3, <2>4, <2>5
  <2>8. ListOK'
    BY <2>1, <2>6, <2>7, ListKept
  <2>9. \A f \in FileIds : Freed(f) \/ f = x => Freed(f)'
    BY <2>3, <2>5 DEF Freed
  <2>10. Accounted'
    BY <1>1, <2>1, <2>2, <2>6, <2>9 DEF Accounted
  <2>11. StoreOK'
    BY <1>1, <1>6, <2>8, <2>10 DEF OneInv, StoreOK
  <2>12. MainOK'
    BY <1>1, <1>6, <2>1 DEF MainOK, MainLabels
  <2>13. GracefulLeavesNothing'
    BY <1>1 DEF GracefulLeavesNothing
  <2>14. QED
    BY <1>1, <1>2, <1>3, <1>6, <2>1, <2>11, <2>12, <2>13 DEF OneInv
<1>7. QED
  BY <1>4, <1>5, <1>6

-----------------------------------------------------------------------------
(* The invariant.                                                          *)

\* The empty store.
LEMMA OneAtFirst == SystemInit => OneInv
<1> SUFFICES ASSUME SystemInit PROVE OneInv
  OBVIOUS
<1>1. /\ Init /\ mode = "ON" /\ main.pc = "select"
      /\ memory = <<>> /\ lost = {} /\ nCurrentFile = 0 /\ nCurrentMemoryUsed = 0 /\ server = "running"
      /\ heap = [f \in FileIds |-> NULL] /\ \A w \in Workers : frame[w] = Idle
  BY DEF SystemInit, Init, MemoryInit, MainAt
<1>2. SInv /\ CountedCovered
  BY <1>1, SystemInitInv, CountedAtFirst
<1>3. MainOK
  BY <1>1 DEF MainOK, MainLabels
<1>4. Listed = {} /\ Bytes(memory) = 0
  BY <1>1, NoBytes DEF Listed, Range
<1>5. ListOK
  BY <1>1, <1>4, MemoryAssumption DEF ListOK
<1>6. StoreOK
  BY <1>1, <1>5 DEF StoreOK, Accounted, Freed
<1>7. GracefulLeavesNothing
  BY <1>1 DEF GracefulLeavesNothing
<1>8. QED
  BY <1>1, <1>2, <1>3, <1>6, <1>7, IdleOK, IdleJob DEF OneInv

\* Nothing changes.
LEMMA OneStutters == ASSUME OneInv, UNCHANGED system PROVE OneInv'
<1>1. SInv' /\ CountedCovered'
  BY SystemNextInv, SystemCounted DEF OneInv
<1>2. /\ UNCHANGED <<memory, lost, heap, nCurrentFile, nCurrentMemoryUsed, policy, frame, server>>
      /\ mode' = mode /\ main' = main
  BY DEF system, vars
<1>3. Listed' = Listed /\ UNCHANGED counters
  BY <1>2 DEF Listed, counters
<1>4. MainOK'
  BY <1>2 DEF OneInv, MainOK
<1>5. ASSUME mode = "ON" PROVE (\A w \in Workers : JobOK(frame[w]))'
  <2>1. \A w \in Workers : JobOK(frame[w])
    BY <1>5 DEF OneInv
  <2>2. QED
    BY <1>2, <2>1 DEF JobOK, OpAt, PointersOK, CountsOK, PolicyOf, Listed, NoSuch
<1>6. ASSUME mode # "OFF" PROVE StoreOK'
  <2>1. ListOK'
    BY <1>2, <1>3, <1>6, ListKept DEF OneInv, StoreOK
  <2>2. Accounted'
    BY <1>2, <1>3, <1>6 DEF OneInv, StoreOK, Accounted, Freed, Own
  <2>3. QED
    BY <1>2, <1>6, <2>1, <2>2 DEF OneInv, StoreOK
<1>7. GracefulLeavesNothing'
  BY <1>2 DEF OneInv, GracefulLeavesNothing, Freed
<1>8. QED
  BY <1>1, <1>2, <1>4, <1>5, <1>6, <1>7 DEF OneInv

\* Every step.
LEMMA OneNext == ASSUME OneInv, [SystemNext]_system PROVE OneInv'
<1>1. CASE UNCHANGED system
  BY <1>1, OneStutters
<1>2. CASE MainStep
  BY <1>2, PrintKeepsOne, PrintBadKeepsOne, ReturnKeepsOne, CleanPopKeepsOne, CleanFreeKeepsOne DEF MainStep
<1>3. CASE SystemEnded
  BY <1>3, OneStutters DEF SystemEnded
<1>4. QED
  BY <1>1, <1>2, <1>3, WorkerKeepsOne, StopKeepsOne DEF SystemNext

\* With one worker the invariant holds from start to end.
THEOREM OneInvariant == SystemSpec => []OneInv
<1>1. OneInv /\ [SystemNext]_system => OneInv'
  BY OneNext
<1>2. QED
  BY <1>1, OneAtFirst, PTL DEF SystemSpec

-----------------------------------------------------------------------------
(* What the invariant says to a reader.                                    *)

\* With one worker no file is out of reach, nCurrentFile is the length of the
\* list and nCurrentMemoryUsed its bytes; after a stop at once, when main and
\* the worker interleave, the bytes still cover the list.
THEOREM ExactAlways == SystemSpec => []ExactAccounts
<1>1. OneInv => ExactAccounts
  <2> SUFFICES ASSUME OneInv PROVE ExactAccounts
    OBVIOUS
  <2>1. IInv /\ CountedCovered /\ lost = {}
    BY DEF OneInv, SInv
  <2>2. nCurrentFile = Len(memory)
    BY <2>1, StoreFacts
  <2>3. nCurrentMemoryUsed >= Bytes(memory)
    BY <2>1, CoversList DEF BytesCovered
  <2>4. mode # "OFF" => nCurrentMemoryUsed = Bytes(memory)
    BY DEF OneInv, StoreOK, ListOK
  <2>5. QED
    BY <2>1, <2>2, <2>3, <2>4 DEF ExactAccounts
<1>2. QED
  BY <1>1, OneInvariant, PTL

\* With one worker a graceful end frees every file and leaves both counters at
\* zero: clean_cache goes by the count alone, and the count is right.
THEOREM GracefulAlways == SystemSpec => []GracefulLeavesNothing
<1>1. OneInv => GracefulLeavesNothing
  BY DEF OneInv
<1>2. QED
  BY <1>1, OneInvariant, PTL

\* With one worker no job of the six operations that SequentialAssumption leaves,
\* so none but APPEND_FILE and CLOSE_FILE, follows a bad pointer or fails at
\* set_file_open or at its removal: without a stop it ends the server only at a
\* send to a client that hung up, or for want of memory.
THEOREM SixOperationsEndOnHangUp == SystemSpec => EndsOnHangUp
<1> DEFINE A == mode # "OFF" =>
      /\ server' # "undefined"
      /\ server' = "exited" => \/ server = "exited"
                               \/ main'.pc = "returned"
                               \/ \E w \in Workers :
                                    \/ Sending(frame[w])
                                    \/ frame[w].pc = "add_check" /\ Unused = {}
<1>1. OneInv /\ OneInv' /\ [SystemNext]_system => A
  <2> SUFFICES ASSUME OneInv, OneInv', [SystemNext]_system, mode # "OFF" PROVE A
    OBVIOUS
  <2>1. server # "undefined" /\ (mode' # "OFF" => server' # "undefined")
    BY DEF OneInv, StoreOK
  <2>2. CASE server' = server
    BY <2>1, <2>2
  <2>3. ASSUME NEW w \in Workers, WorkerStep(w) PROVE A
    <3>1. Step(w) /\ server = "running" /\ mode' = mode
      BY <2>3, StepRuns DEF WorkerStep
    <3>2. CASE mode = "ON"
      <4>1. JobInv(frame[w]) /\ IInv
        BY <3>1, <3>2, JobInvNow DEF OneInv, SInv
      <4>2. \/ server' = server
            \/ Sending(frame[w])
            \/ frame[w].pc = "add_check" /\ Unused = {}
        BY <3>1, <4>1, StepOn
      <4>3. QED
        BY <2>1, <3>1, <4>2
    <3>3. CASE mode = "GRACEFUL"
      <4>1. frame[w].pc = "idle"
        BY <3>3, AloneFacts
      <4>2. QED
        BY <2>3, <3>3, <4>1 DEF WorkerStep
    <3>4. QED
      BY <3>2, <3>3 DEF OneInv, MainOK
  <2>4. CASE StopGracefully \/ StopAtOnce
    <3>1. server' = server
      BY <2>4 DEF StopGracefully, StopAtOnce, Stop, vars
    <3>2. QED
      BY <2>2, <3>1
  <2>5. CASE MainStep
    <3>1. CASE Return
      BY <2>1, <3>1 DEF Return, MainAt, End
    <3>2. CASE PrintFollowsBadPointer
      <4>1. server' = "undefined" /\ mode' = mode
        BY <3>2 DEF PrintFollowsBadPointer, End
      <4>2. QED
        BY <2>1, <4>1
    <3>3. CASE PrintHead \/ PrintTest \/ PrintNext \/ CleanTest \/ CleanPop \/ CleanFree
      <4>1. server' = server
        BY <3>3 DEF PrintHead, PrintTest, PrintNext, CleanTest, CleanPop, CleanFree, MainGoes
      <4>2. QED
        BY <2>2, <4>1
    <3>4. QED
      BY <2>5, <3>1, <3>2, <3>3 DEF MainStep
  <2>6. CASE SystemEnded \/ UNCHANGED system
    BY <2>2, <2>6 DEF SystemEnded, system, vars
  <2>7. QED
    BY <2>3, <2>4, <2>5, <2>6 DEF SystemNext
<1>2. [SystemNext]_system /\ OneInv /\ OneInv' => [A]_system
  BY <1>1
<1>3. QED
  BY <1>2, OneInvariant, PTL DEF SystemSpec, EndsOnHangUp

-----------------------------------------------------------------------------
(* The list as the files of the cache.                                     *)

\* The files of a list, as the cache has them.
FileIn(h, f) == [name |-> h[f].filename, bytes |-> h[f].usedMemory, open |-> h[f].isOpen]
FilesIn(h, s) == [i \in 1..Len(s) |-> FileIn(h, s[i])]

\* They are a sequence as long as the list.
LEMMA FilesSeq ==
  ASSUME NEW h, NEW S, NEW s \in Seq(S)
  PROVE  /\ FilesIn(h, s) \in Seq({FileIn(h, f) : f \in S})
         /\ Len(FilesIn(h, s)) = Len(s) /\ Len(s) \in Nat
         /\ DOMAIN FilesIn(h, s) = 1..Len(s) /\ DOMAIN s = 1..Len(s)
         /\ \A i \in 1..Len(s) : FilesIn(h, s)[i] = FileIn(h, s[i])
<1> DEFINE R == {FileIn(h, f) : f \in S}
           t == FilesIn(h, s)
<1>1. Len(s) \in Nat /\ DOMAIN s = 1..Len(s) /\ \A i \in 1..Len(s) : s[i] \in S
  BY LenProperties, ElementOfSeq
<1>2. t \in [1..Len(s) -> R]
  BY <1>1 DEF FilesIn
<1>3. t \in Seq(R)
  BY <1>1, <1>2, SeqDef
<1>4. DOMAIN t = 1..Len(s) /\ \A i \in 1..Len(s) : t[i] = FileIn(h, s[i])
  BY <1>1 DEF FilesIn
<1> HIDE DEF t, R
<1>5. Len(t) = Len(s)
  <2>1. Len(t) \in Nat /\ DOMAIN t = 1..Len(t)
    BY <1>3, LenProperties
  <2>2. QED
    BY <1>1, <1>4, <2>1
<1>6. QED
  BY <1>1, <1>3, <1>4, <1>5 DEF t, R

\* Two sequences that agree at each place are the same.
LEMMA SamePlaces ==
  ASSUME NEW S, NEW s \in Seq(S), NEW T, NEW t \in Seq(T), Len(s) = Len(t),
         \A i \in 1..Len(s) : s[i] = t[i]
  PROVE  s = t
<1>1. s \in [1..Len(s) -> S] /\ t \in [1..Len(s) -> T]
  BY LenProperties
<1>2. QED
  BY <1>1

\* A sequence without one of its elements, place by place.
LEMMA WithoutPlaces ==
  ASSUME NEW S, NEW s \in Seq(S), NEW i \in 1..Len(s)
  PROVE  /\ C!Without(s, i) \in Seq(S)
         /\ Len(C!Without(s, i)) = Len(s) - 1
         /\ \A k \in 1..(Len(s) - 1) : C!Without(s, i)[k] = IF k < i THEN s[k] ELSE s[k + 1]
<1> DEFINE a == SubSeq(s, 1, i - 1)
           b == SubSeq(s, i + 1, Len(s))
<1>1. Len(s) \in Nat /\ i \in Int /\ 1 <= i /\ i <= Len(s) /\ \A k \in 1..Len(s) : s[k] \in S
  BY LenProperties, ElementOfSeq
<1>2. /\ a \in Seq(S) /\ Len(a) = i - 1
      /\ \A k \in 1..(i - 1) : a[k] = s[k]
  <2>1. \A k \in 1..(i - 1) : s[k] \in S
    BY <1>1
  <2>2. /\ a \in Seq(S) /\ Len(a) = IF 1 <= i - 1 THEN (i - 1) - 1 + 1 ELSE 0
        /\ \A k \in 1..((i - 1) - 1 + 1) : a[k] = s[1 + k - 1]
    BY <1>1, <2>1, SubSeqProperties
  <2> HIDE DEF a
  <2>3. QED
    BY <1>1, <2>2
<1>3. /\ b \in Seq(S) /\ Len(b) = Len(s) - i
      /\ \A k \in 1..(Len(s) - i) : b[k] = s[i + k]
  <2>1. \A k \in (i + 1)..Len(s) : s[k] \in S
    BY <1>1
  <2>2. /\ b \in Seq(S) /\ Len(b) = IF i + 1 <= Len(s) THEN Len(s) - (i + 1) + 1 ELSE 0
        /\ \A k \in 1..(Len(s) - (i + 1) + 1) : b[k] = s[(i + 1) + k - 1]
    BY <1>1, <2>1, SubSeqProperties
  <2> HIDE DEF b
  <2>3. Len(b) = Len(s) - i
    BY <1>1, <2>2
  <2>4. ASSUME NEW k \in 1..(Len(s) - i) PROVE b[k] = s[i + k]
    <3>1. k \in 1..(Len(s) - (i + 1) + 1) /\ (i + 1) + k - 1 = i + k
      BY <1>1
    <3>2. QED
      BY <2>2, <3>1
  <2>5. QED
    BY <2>2, <2>3, <2>4
<1>4. C!Without(s, i) = a \o b
  BY DEF C!Without
<1> HIDE DEF a, b
<1>5. /\ a \o b \in Seq(S) /\ Len(a \o b) = Len(s) - 1
      /\ \A k \in 1..(Len(s) - 1) : (a \o b)[k] = IF k <= i - 1 THEN a[k] ELSE b[k - (i - 1)]
  <2>1. /\ a \o b \in Seq(S) /\ Len(a \o b) = Len(a) + Len(b)
        /\ \A k \in 1..(Len(a) + Len(b)) : (a \o b)[k] = IF k <= Len(a) THEN a[k] ELSE b[k - Len(a)]
    BY <1>2, <1>3, ConcatProperties
  <2>2. Len(a) + Len(b) = Len(s) - 1
    BY <1>1, <1>2, <1>3
  <2>3. QED
    BY <1>2, <2>1, <2>2
<1>6. ASSUME NEW k \in 1..(Len(s) - 1) PROVE (a \o b)[k] = IF k < i THEN s[k] ELSE s[k + 1]
  <2>1. CASE k < i
    BY <1>1, <1>2, <1>5, <2>1
  <2>2. CASE ~(k < i)
    <3>1. k - (i - 1) \in 1..(Len(s) - i) /\ i + (k - (i - 1)) = k + 1
      BY <1>1, <2>2
    <3>2. b[k - (i - 1)] = s[k + 1]
      BY <1>3, <3>1
    <3>3. QED
      BY <1>1, <1>5, <2>2, <3>2
  <2>3. QED
    BY <2>1, <2>2
<1>7. QED
  BY <1>4, <1>5, <1>6

\* To take a file out of the list is to take it out of the cache.
LEMMA FilesWithout ==
  ASSUME NEW h, NEW S, NEW s \in Seq(S), NEW i \in 1..Len(s)
  PROVE  FilesIn(h, C!Without(s, i)) = C!Without(FilesIn(h, s), i)
<1> PICK t, u, v : t = C!Without(s, i) /\ u = FilesIn(h, s) /\ v = C!Without(u, i)
  OBVIOUS
<1>1. /\ t \in Seq(S) /\ Len(t) = Len(s) - 1
      /\ \A k \in 1..(Len(s) - 1) : t[k] = IF k < i THEN s[k] ELSE s[k + 1]
  BY WithoutPlaces
<1> DEFINE R == {FileIn(h, f) : f \in S}
<1>2. /\ u \in Seq(R) /\ Len(u) = Len(s) /\ Len(s) \in Nat
      /\ \A k \in 1..Len(s) : u[k] = FileIn(h, s[k])
  BY FilesSeq
<1>3. /\ FilesIn(h, t) \in Seq(R) /\ Len(FilesIn(h, t)) = Len(t)
      /\ \A k \in 1..Len(t) : FilesIn(h, t)[k] = FileIn(h, t[k])
  BY <1>1, FilesSeq
<1> HIDE DEF R
<1>4. /\ v \in Seq(R) /\ Len(v) = Len(s) - 1
      /\ \A k \in 1..(Len(s) - 1) : v[k] = IF k < i THEN u[k] ELSE u[k + 1]
  BY <1>2, WithoutPlaces
<1>5. ASSUME NEW k \in 1..(Len(s) - 1) PROVE FilesIn(h, t)[k] = v[k]
  <2>1. k \in 1..Len(s) /\ k + 1 \in 1..Len(s)
    BY <1>2
  <2>2. QED
    BY <1>1, <1>2, <1>3, <1>4, <2>1
<1>6. FilesIn(h, t) = v
  BY <1>1, <1>3, <1>4, <1>5, SamePlaces
<1>7. QED
  BY <1>6

\* What is left of a list behind its head.
LEMMA TailPlaces ==
  ASSUME NEW S, NEW s \in Seq(S), s # <<>>
  PROVE  Len(s) \in Nat \ {0} /\ Tail(s) = C!Without(s, 1)
<1>1. /\ Tail(s) \in Seq(S) /\ Len(Tail(s)) = Len(s) - 1
      /\ \A k \in 1..Len(Tail(s)) : Tail(s)[k] = s[k + 1]
  BY HeadTailProperties
<1>2. Len(s) \in Nat \ {0}
  BY LenProperties, EmptySeq
<1>3. 1 \in 1..Len(s)
  BY <1>2
<1> PICK t : t = C!Without(s, 1)
  OBVIOUS
<1>4. /\ t \in Seq(S) /\ Len(t) = Len(s) - 1
      /\ \A k \in 1..(Len(s) - 1) : t[k] = IF k < 1 THEN s[k] ELSE s[k + 1]
  BY <1>3, WithoutPlaces
<1>5. \A k \in 1..Len(t) : t[k] = Tail(s)[k]
  BY <1>1, <1>2, <1>4
<1>6. t = Tail(s)
  BY <1>1, <1>4, <1>5, SamePlaces
<1>7. QED
  BY <1>2, <1>6

\* What pop_from_tail leaves.
LEMMA FrontPlaces ==
  ASSUME NEW S, NEW s \in Seq(S), s # <<>>
  PROVE  SubSeq(s, 1, Len(s) - 1) = C!Without(s, Len(s))
<1>1. Len(s) \in Nat \ {0} /\ \A k \in 1..Len(s) : s[k] \in S
  BY LenProperties, EmptySeq, ElementOfSeq
<1> PICK n : n = Len(s)
  OBVIOUS
<1>2. n \in 1..Len(s) /\ n \in Nat \ {0}
  BY <1>1
<1> PICK t, u : t = C!Without(s, n) /\ u = SubSeq(s, 1, n - 1)
  OBVIOUS
<1>3. /\ t \in Seq(S) /\ Len(t) = n - 1
      /\ \A k \in 1..(n - 1) : t[k] = IF k < n THEN s[k] ELSE s[k + 1]
  BY <1>2, WithoutPlaces
<1>4. /\ u \in Seq(S) /\ Len(u) = n - 1
      /\ \A k \in 1..(n - 1) : u[k] = s[k]
  <2>1. \A k \in 1..(n - 1) : s[k] \in S
    BY <1>1, <1>2
  <2>2. /\ u \in Seq(S) /\ Len(u) = IF 1 <= n - 1 THEN (n - 1) - 1 + 1 ELSE 0
        /\ \A k \in 1..((n - 1) - 1 + 1) : u[k] = s[1 + k - 1]
    BY <1>2, <2>1, SubSeqProperties
  <2>3. QED
    BY <1>2, <2>2
<1>5. \A k \in 1..Len(t) : t[k] = u[k]
  BY <1>2, <1>3, <1>4
<1>6. t = u
  BY <1>3, <1>4, <1>5, SamePlaces
<1>7. QED
  BY <1>6

\* policy_routine takes a file out and puts it in front.
LEMMA MovedPlaces ==
  ASSUME NEW S, NEW s \in Seq(S), NEW i \in 1..Len(s)
  PROVE  MovedToFront(s, i) = <<s[i]>> \o C!Without(s, i)
<1> PICK m, t, p : m = MovedToFront(s, i) /\ t = C!Without(s, i) /\ p = <<s[i]>> \o t
  OBVIOUS
<1>1. Len(s) \in Nat /\ \A k \in 1..Len(s) : s[k] \in S
  BY LenProperties, ElementOfSeq
<1>2. /\ t \in Seq(S) /\ Len(t) = Len(s) - 1
      /\ \A k \in 1..(Len(s) - 1) : t[k] = IF k < i THEN s[k] ELSE s[k + 1]
  BY WithoutPlaces
<1>3. /\ <<s[i]>> \in Seq(S) /\ Len(<<s[i]>>) = 1 /\ <<s[i]>>[1] = s[i]
  BY <1>1
<1>4. /\ p \in Seq(S) /\ Len(p) = Len(s)
      /\ \A k \in 1..Len(s) : p[k] = IF k = 1 THEN s[i] ELSE t[k - 1]
  <2>1. /\ p \in Seq(S) /\ Len(p) = 1 + Len(t)
        /\ \A k \in 1..(1 + Len(t)) : p[k] = IF k <= 1 THEN <<s[i]>>[k] ELSE t[k - 1]
    BY <1>2, <1>3, ConcatProperties
  <2>2. 1 + Len(t) = Len(s)
    BY <1>1, <1>2
  <2>3. QED
    BY <1>3, <2>1, <2>2
<1>5. m \in [1..Len(s) -> S]
      /\ \A k \in 1..Len(s) : m[k] = IF k = 1 THEN s[i] ELSE IF k <= i THEN s[k - 1] ELSE s[k]
  BY <1>1 DEF MovedToFront
<1>6. ASSUME NEW k \in 1..Len(s) PROVE m[k] = p[k]
  <2>1. CASE k = 1
    BY <1>4, <1>5, <2>1
  <2>2. CASE k # 1
    <3>1. k - 1 \in 1..(Len(s) - 1) /\ (k <= i <=> k - 1 < i) /\ (k - 1) + 1 = k
      BY <1>1, <2>2
    <3>2. t[k - 1] = IF k - 1 < i THEN s[k - 1] ELSE s[k]
      BY <1>2, <3>1
    <3>3. QED
      BY <1>4, <1>5, <2>2, <3>1, <3>2
  <2>3. QED
    BY <2>1, <2>2
<1>7. p \in [1..Len(s) -> S]
  BY <1>4, LenProperties
<1>8. m = p
  BY <1>5, <1>6, <1>7
<1>9. QED
  BY <1>8

\* A file put in front.
LEMMA FilesPushed ==
  ASSUME NEW h, NEW S, NEW s \in Seq(S), NEW f \in S
  PROVE  FilesIn(h, <<f>> \o s) = <<FileIn(h, f)>> \o FilesIn(h, s)
<1> DEFINE R == {FileIn(h, x) : x \in S}
<1> PICK t, u, v : t = <<f>> \o s /\ u = FilesIn(h, s) /\ v = <<FileIn(h, f)>> \o u
  OBVIOUS
<1>1. /\ <<f>> \in Seq(S) /\ Len(<<f>>) = 1 /\ <<f>>[1] = f
      /\ FileIn(h, f) \in R
      /\ Len(s) \in Nat
  BY LenProperties
<1>2. /\ t \in Seq(S) /\ Len(t) = 1 + Len(s)
      /\ \A k \in 1..(1 + Len(s)) : t[k] = IF k <= 1 THEN <<f>>[k] ELSE s[k - 1]
  BY <1>1, ConcatProperties
<1>3. /\ u \in Seq(R) /\ Len(u) = Len(s)
      /\ \A k \in 1..Len(s) : u[k] = FileIn(h, s[k])
  BY FilesSeq
<1>4. /\ FilesIn(h, t) \in Seq(R) /\ Len(FilesIn(h, t)) = Len(t)
      /\ \A k \in 1..Len(t) : FilesIn(h, t)[k] = FileIn(h, t[k])
  BY <1>2, FilesSeq
<1> HIDE DEF R
<1> PICK r : r = FileIn(h, f)
  OBVIOUS
<1>5. <<r>> \in Seq(R) /\ Len(<<r>>) = 1 /\ <<r>>[1] = r
  BY <1>1
<1>6. /\ v \in Seq(R) /\ Len(v) = 1 + Len(u)
      /\ \A k \in 1..(1 + Len(u)) : v[k] = IF k <= 1 THEN <<r>>[k] ELSE u[k - 1]
  BY <1>3, <1>5, ConcatProperties
<1>7. ASSUME NEW k \in 1..Len(t) PROVE FilesIn(h, t)[k] = v[k]
  <2>1. CASE k = 1
    <3>1. t[1] = f
      BY <1>1, <1>2
    <3>2. v[1] = r
      BY <1>1, <1>3, <1>5, <1>6
    <3>3. FilesIn(h, t)[1] = FileIn(h, t[1])
      BY <1>1, <1>2, <1>4
    <3>4. QED
      BY <2>1, <3>1, <3>2, <3>3
  <2>2. CASE k # 1
    <3>1. k - 1 \in 1..Len(s) /\ ~(k <= 1)
      BY <1>1, <1>2, <2>2
    <3>2. t[k] = s[k - 1] /\ v[k] = u[k - 1]
      BY <1>2, <1>3, <1>6, <3>1
    <3>3. QED
      BY <1>3, <1>4, <3>1, <3>2
  <2>3. QED
    BY <2>1, <2>2
<1>8. FilesIn(h, t) = v
  <2>1. Len(FilesIn(h, t)) = Len(v)
    BY <1>2, <1>3, <1>4, <1>6
  <2>2. \A k \in 1..Len(FilesIn(h, t)) : FilesIn(h, t)[k] = v[k]
    BY <1>4, <1>7
  <2> PICK x : x = FilesIn(h, t)
    OBVIOUS
  <2>3. x \in Seq(R) /\ v \in Seq(R) /\ Len(x) = Len(v) /\ \A k \in 1..Len(x) : x[k] = v[k]
    BY <1>4, <1>6, <2>1, <2>2
  <2>4. x = v
    BY <2>3, SamePlaces
  <2>5. QED
    BY <2>4
<1>9. v = <<FileIn(h, f)>> \o FilesIn(h, s)
  OBVIOUS
<1>10. FilesIn(h, t) = FilesIn(h, <<f>> \o s)
  OBVIOUS
<1>11. QED
  BY <1>8, <1>9, <1>10, Zenon

\* A file brought to the head of the list is brought to the head of the cache.
LEMMA FilesMoved ==
  ASSUME NEW h, NEW S, NEW s \in Seq(S), NEW i \in 1..Len(s)
  PROVE  FilesIn(h, MovedToFront(s, i)) = <<FilesIn(h, s)[i]>> \o C!Without(FilesIn(h, s), i)
<1> PICK t : t = C!Without(s, i)
  OBVIOUS
<1>1. t \in Seq(S) /\ s[i] \in S
  BY WithoutPlaces, ElementOfSeq
<1>2. FilesIn(h, MovedToFront(s, i)) = FilesIn(h, <<s[i]>> \o t)
  BY MovedPlaces
<1>3. FilesIn(h, <<s[i]>> \o t) = <<FileIn(h, s[i])>> \o FilesIn(h, t)
  BY <1>1, FilesPushed
<1>4. FilesIn(h, s)[i] = FileIn(h, s[i])
  BY FilesSeq
<1>5. FilesIn(h, t) = C!Without(FilesIn(h, s), i)
  BY FilesWithout
<1>6. QED
  BY <1>2, <1>3, <1>4, <1>5

\* Two heaps that have the same files in the list.
LEMMA FilesAlike ==
  ASSUME NEW h, NEW g, NEW s, \A i \in 1..Len(s) : FileIn(g, s[i]) = FileIn(h, s[i])
  PROVE  FilesIn(g, s) = FilesIn(h, s)
BY DEF FilesIn

\* Two heaps that differ in one file of the list.
LEMMA FilesDiffer ==
  ASSUME NEW h, NEW g, NEW S, NEW s \in Seq(S), NEW i \in 1..Len(s),
         \A k \in 1..Len(s) : k # i => FileIn(g, s[k]) = FileIn(h, s[k])
  PROVE  FilesIn(g, s) = [FilesIn(h, s) EXCEPT ![i] = FileIn(g, s[i])]
<1>1. FilesIn(h, s) = [k \in 1..Len(s) |-> FileIn(h, s[k])]
  BY DEF FilesIn
<1>2. FilesIn(g, s) = [k \in 1..Len(s) |-> FileIn(g, s[k])]
  BY DEF FilesIn
<1>3. QED
  BY <1>1, <1>2

\* Cardinality has the same definition on both sides.
LEMMA SameCardinality == ASSUME NEW S PROVE C!Cardinality(S) = Cardinality(S)
BY DEF C!Cardinality, Cardinality

\* The cache counts the bytes by places, the store by files: as many.
LEMMA UsedIsBytes ==
  ASSUME NEW h, NEW s \in Seq(FileIds), IsInjective(s), \A f \in Range(s) : h[f] \in FileMemory
  PROVE  C!Used(FilesIn(h, s)) = Cardinality(PlacesIn(h, Range(s)))
<1> DEFINE u == FilesIn(h, s)
           P == PlacesIn(h, Range(s))
           U == UNION {{i} \X (1..u[i].bytes) : i \in DOMAIN u}
           b == [p \in U |-> <<s[p[1]], p[2]>>]
<1>1. DOMAIN s = 1..Len(s) /\ DOMAIN u = 1..Len(s) /\ Len(s) \in Nat
      /\ \A i \in 1..Len(s) : u[i].bytes = h[s[i]].usedMemory /\ s[i] \in Range(s) /\ s[i] \in FileIds
  <2>1. DOMAIN s = 1..Len(s) /\ DOMAIN u = 1..Len(s) /\ Len(s) \in Nat
        /\ \A i \in 1..Len(s) : u[i] = FileIn(h, s[i])
    BY FilesSeq
  <2>2. \A i \in 1..Len(s) : s[i] \in FileIds
    BY ElementOfSeq
  <2> HIDE DEF u
  <2>3. QED
    BY <2>1, <2>2 DEF FileIn, Range
<1>2. IsFiniteSet(P)
  <2>1. Range(s) \subseteq FileIds
    BY <1>1 DEF Range
  <2>2. QED
    BY <2>1, CountedFinite
<1> HIDE DEF u
<1>3. \A i, k : <<i, k>> \in U <=> i \in 1..Len(s) /\ k \in 1..h[s[i]].usedMemory
  BY <1>1
<1>4. \A p \in U : p = <<p[1], p[2]>>
  OBVIOUS
<1>5. \A f, k : <<f, k>> \in P <=> f \in Range(s) /\ k \in 1..h[f].usedMemory
  BY DEF PlacesIn
<1>6. \A p \in P : p = <<p[1], p[2]>>
  BY DEF PlacesIn
<1>7. \A f \in Range(s) : \E i \in 1..Len(s) : s[i] = f
  BY <1>1 DEF Range
<1>8. \A i, j \in 1..Len(s) : s[i] = s[j] => i = j
  BY <1>1 DEF IsInjective
<1> HIDE DEF U, P
<1>9. ASSUME NEW p \in U PROVE b[p] \in P /\ b[p] = <<s[p[1]], p[2]>> /\ p[1] \in 1..Len(s)
  <2>1. p[1] \in 1..Len(s) /\ p[2] \in 1..h[s[p[1]]].usedMemory
    BY <1>3, <1>4
  <2>2. QED
    BY <1>1, <1>5, <2>1
<1>10. ASSUME NEW p \in P PROVE \E q \in U : b[q] = p
  <2>1. p[1] \in Range(s) /\ p[2] \in 1..h[p[1]].usedMemory
    BY <1>5, <1>6
  <2>2. PICK i \in 1..Len(s) : s[i] = p[1]
    BY <1>7, <2>1
  <2>3. <<i, p[2]>> \in U
    BY <1>3, <2>1, <2>2
  <2>4. b[<<i, p[2]>>] = <<s[i], p[2]>>
    BY <2>3
  <2>5. QED
    BY <1>6, <2>2, <2>3, <2>4
<1>11. ASSUME NEW p \in U, NEW q \in U, b[p] = b[q] PROVE p = q
  <2>1. s[p[1]] = s[q[1]] /\ p[2] = q[2]
    BY <1>9, <1>11
  <2>2. p[1] = q[1]
    BY <1>8, <1>9, <2>1
  <2>3. QED
    BY <1>4, <2>1, <2>2
<1>12. b \in [U -> P]
  BY <1>9
<1>13. b \in Bijection(U, P)
  BY <1>10, <1>11, <1>12 DEF Bijection, Injection, Surjection, IsInjective
<1>14. ExistsBijection(P, U)
  BY <1>13, Fun_ExistsBijSymmetric DEF ExistsBijection
<1>15. Cardinality(U) = Cardinality(P)
  BY <1>2, <1>14, FS_Bijection
<1>16. QED
  BY <1>15, SameCardinality DEF C!Used, U, P, u

-----------------------------------------------------------------------------
(* What the cache looks like from each label.                              *)

\* The files of the cache that the store implements.
Files == [i \in DOMAIN Visible |-> AsFile(Visible[i])]

\* Nothing is asked for and nothing is as good as gone.
Plain(fr) == fr.pc # "remove_pop" /\ ~(fr.op = "POP" /\ fr.pc \in Finding)

\* The files of a list are those of the cache when all of it is visible.
LEMMA FilesOfList ==
  \A s : s \in Seq(FileIds) /\ Visible = s => Files = FilesIn(heap, s)
<1> SUFFICES ASSUME NEW s \in Seq(FileIds), Visible = s PROVE Files = FilesIn(heap, s)
  OBVIOUS
<1>1. DOMAIN s = 1..Len(s)
  BY LenProperties
<1>2. QED
  BY <1>1 DEF Files, FilesIn, AsFile, FileIn

\* Between two jobs, and in most sections of one.
LEMMA PlainView ==
  (\A w \in Workers : Plain(frame[w])) /\ memory \in Seq(FileIds) =>
     Asked = NULL /\ Files = FilesIn(heap, memory)
<1> SUFFICES ASSUME \A w \in Workers : Plain(frame[w]), memory \in Seq(FileIds)
             PROVE  Asked = NULL /\ Files = FilesIn(heap, memory)
  OBVIOUS
<1>1. ~Removing
  BY DEF Removing, Plain
<1>2. Files = FilesIn(heap, memory)
  BY <1>1, FilesOfList DEF Visible
<1>3. {w \in Workers : frame[w].op = "POP" /\ frame[w].pc \in {"find_in", "find_scan", "find_policy"}} = {}
  BY DEF Plain, Finding
<1>4. Asked = NULL
  BY <1>3 DEF Asked
<1>5. QED
  BY <1>2, <1>4

\* remove_generic_file has begun.
LEMMA AskedView ==
  \A w \in Workers :
     Workers = {w} /\ frame[w].op = "POP" /\ frame[w].pc \in Finding /\ memory \in Seq(FileIds) =>
       Asked = frame[w].filename /\ Files = FilesIn(heap, memory)
<1> SUFFICES ASSUME NEW w \in Workers, Workers = {w}, frame[w].op = "POP", frame[w].pc \in Finding,
                    memory \in Seq(FileIds)
             PROVE  Asked = frame[w].filename /\ Files = FilesIn(heap, memory)
  OBVIOUS
<1>1. ~Removing
  BY DEF Removing, Finding
<1>2. Files = FilesIn(heap, memory)
  BY <1>1, FilesOfList DEF Visible
<1> DEFINE begun == {v \in Workers : frame[v].op = "POP" /\ frame[v].pc \in {"find_in", "find_scan", "find_policy"}}
<1>3. begun = {w} /\ begun # {}
  BY DEF Finding
<1>4. (CHOOSE v \in begun : TRUE) = w
  BY <1>3
<1>5. Asked = frame[CHOOSE v \in begun : TRUE].filename
  BY <1>3, Zenon DEF Asked
<1>6. QED
  BY <1>2, <1>4, <1>5

\* Its file is at the head: as good as gone.
LEMMA GoneView ==
  \A w \in Workers :
     Workers = {w} /\ frame[w].pc = "remove_pop" /\ memory \in Seq(FileIds) /\ memory # <<>> =>
       Asked = NULL /\ Files = FilesIn(heap, Tail(memory))
<1> SUFFICES ASSUME NEW w \in Workers, Workers = {w}, frame[w].pc = "remove_pop",
                    memory \in Seq(FileIds), memory # <<>>
             PROVE  Asked = NULL /\ Files = FilesIn(heap, Tail(memory))
  OBVIOUS
<1>1. Removing
  BY DEF Removing
<1>2. Tail(memory) \in Seq(FileIds)
  BY HeadTailProperties
<1>3. Files = FilesIn(heap, Tail(memory))
  BY <1>1, <1>2, FilesOfList DEF Visible
<1>4. {v \in Workers : frame[v].op = "POP" /\ frame[v].pc \in {"find_in", "find_scan", "find_policy"}} = {}
  OBVIOUS
<1>5. Asked = NULL
  BY <1>4 DEF Asked
<1>6. QED
  BY <1>3, <1>5

\* The same of the state after a step.
LEMMA ViewNext ==
  /\ (\A w \in Workers : Plain(frame'[w])) /\ memory' \in Seq(FileIds) =>
       Asked' = NULL /\ Files' = FilesIn(heap', memory')
  /\ \A w \in Workers :
       /\ Workers = {w} /\ frame'[w].op = "POP" /\ frame'[w].pc \in Finding /\ memory' \in Seq(FileIds) =>
            Asked' = frame'[w].filename /\ Files' = FilesIn(heap', memory')
       /\ Workers = {w} /\ frame'[w].pc = "remove_pop" /\ memory' \in Seq(FileIds) /\ memory' # <<>> =>
            Asked' = NULL /\ Files' = FilesIn(heap', Tail(memory'))
<1>1. ((\A w \in Workers : Plain(frame[w])) /\ memory \in Seq(FileIds) =>
         Asked = NULL /\ Files = FilesIn(heap, memory))'
  BY PlainView, PTL
<1>2. (\A w \in Workers :
         Workers = {w} /\ frame[w].op = "POP" /\ frame[w].pc \in Finding /\ memory \in Seq(FileIds) =>
           Asked = frame[w].filename /\ Files = FilesIn(heap, memory))'
  BY AskedView, PTL
<1>3. (\A w \in Workers :
         Workers = {w} /\ frame[w].pc = "remove_pop" /\ memory \in Seq(FileIds) /\ memory # <<>> =>
           Asked = NULL /\ Files = FilesIn(heap, Tail(memory)))'
  BY GoneView, PTL
<1>4. QED
  BY <1>1, <1>2, <1>3 DEF Plain, FilesIn, FileIn

-----------------------------------------------------------------------------
(* The actions of the cache.                                               *)

Cached == [C!Next]_(C!vars)

\* Nothing that the cache shows.
LEMMA CacheStutters ==
  ASSUME Files' = Files, Asked' = Asked, policy' = policy, mode' = mode PROVE Cached
BY DEF Cached, C!vars, Files

\* A new file.
LEMMA CacheCreates ==
  ASSUME mode = "ON", mode' = mode, policy' = policy, Asked' = Asked, NEW n \in Names,
         \A i \in DOMAIN Files : Files[i].name # n,
         Files' = <<[name |-> n, bytes |-> 0, open |-> FALSE]>> \o Files, C!Fits(Files')
  PROVE  Cached
<1>1. C!Create(n)
  BY DEF C!Create, Files
<1>2. C!Update
  BY <1>1 DEF C!Update
<1>3. QED
  BY <1>2 DEF Cached, C!Next, C!Serve

\* A file is opened.
LEMMA CacheOpens ==
  ASSUME mode = "ON", mode' = mode, policy' = policy, Asked' = Asked,
         NEW i \in DOMAIN Files, Files' = [Files EXCEPT ![i].open = TRUE]
  PROVE  Cached
<1>1. C!Open(i)
  BY DEF C!Open, Files
<1>2. C!Update
  BY <1>1 DEF C!Update, Files
<1>3. QED
  BY <1>2 DEF Cached, C!Next, C!Serve

\* Bytes are written to a file.
LEMMA CacheWrites ==
  ASSUME mode = "ON", mode' = mode, policy' = policy, Asked' = Asked, NEW bytes \in Sizes,
         NEW i \in DOMAIN Files, Files' = [Files EXCEPT ![i].bytes = @ + bytes], C!Fits(Files')
  PROVE  Cached
<1>1. C!Write(i, bytes)
  BY DEF C!Write, Files
<1>2. C!Update
  BY <1>1 DEF C!Update, Files
<1>3. QED
  BY <1>2 DEF Cached, C!Next, C!Serve

\* A lookup under LRU.
LEMMA CacheTouches ==
  ASSUME mode = "ON", mode' = mode, policy' = policy, Asked' = Asked, policy = "LRU",
         NEW i \in DOMAIN Files, Files' = <<Files[i]>> \o C!Without(Files, i)
  PROVE  Cached
<1>1. C!Touch(i)
  BY DEF C!Touch, Files
<1>2. C!Update
  BY <1>1 DEF C!Update, Files
<1>3. QED
  BY <1>2 DEF Cached, C!Next, C!Serve

\* An eviction.
LEMMA CacheEvicts ==
  ASSUME mode = "ON", mode' = mode, policy' = policy, Asked' = Asked, Files # <<>>,
         Files' = C!Without(Files, Len(Files)),
         Len(Files) >= MaxFiles \/ \E bytes \in Sizes : C!Used(Files) + bytes > MaxMemory
  PROVE  Cached
<1>1. C!Full
  BY DEF C!Full, Files
<1>2. C!Evict
  BY <1>1 DEF C!Evict, Files
<1>3. C!Update
  BY <1>2 DEF C!Update
<1>4. QED
  BY <1>3 DEF Cached, C!Next, C!Serve

\* A removal is asked for.
LEMMA CacheAsks ==
  ASSUME mode = "ON", mode' = mode, policy' = policy, Asked = NULL, Files' = Files,
         NEW i \in DOMAIN Files, Asked' = Files[i].name
  PROVE  Cached
<1>1. C!AskRemove(i)
  BY DEF C!AskRemove, Files
<1>2. C!Removal
  BY <1>1 DEF C!Removal, Files
<1>3. QED
  BY <1>2 DEF Cached, C!Next, C!Serve

\* The file that was asked for is gone.
LEMMA CacheRemoves ==
  ASSUME mode = "ON", mode' = mode, policy' = policy, Asked' = NULL,
         NEW i \in DOMAIN Files, Asked = Files[i].name, Files' = C!Without(Files, i)
  PROVE  Cached
<1>1. C!Remove(i)
  BY DEF C!Remove, Files
<1>2. C!Removal
  BY <1>1 DEF C!Removal, Files
<1>3. QED
  BY <1>2 DEF Cached, C!Next, C!Serve

\* The server is told to stop.
LEMMA CacheStops ==
  ASSUME mode = "ON", mode' \in {"GRACEFUL", "OFF"}, policy' = policy, Files' = Files, Asked' = Asked
  PROVE  Cached
BY DEF Cached, C!Next, C!Stop, Files

\* A graceful end drops the head.
LEMMA CacheDrops ==
  ASSUME mode = "GRACEFUL", mode' = mode, policy' = policy, Asked' = Asked,
         Files # <<>>, Files' = Tail(Files)
  PROVE  Cached
BY DEF Cached, C!Next, C!Drop, Files

\* After a stop at once nothing is said.
LEMMA CacheIsOff == ASSUME mode = "OFF", mode' = mode, policy' = policy PROVE Cached
BY DEF Cached, C!Next, C!Anything

-----------------------------------------------------------------------------
(* The sections that the cache does not show.                              *)

\* The policy is read once at start-up.
LEMMA PolicyStays == ASSUME NEW w \in Workers, Step(w) PROVE policy' = policy
<1>1. CASE TakeJob(w) \/ OpenInMem(w) \/ FindInMem(w) \/ FindScan(w) \/ FindPolicy(w)
  BY <1>1 DEF TakeJob, OpenInMem, FindInMem, FindScan, FindPolicy, storeVars
<1>2. CASE IsActionLegal(w) \/ PlanFiles(w) \/ PlanMemory(w) \/ MoreFiles(w)
  BY <1>2 DEF IsActionLegal, PlanFiles, PlanMemory, MoreFiles, storeVars
<1>3. CASE PopFile(w) \/ FreeFile(w) \/ PopMemory(w) \/ SubtractPopped(w) \/ FreeMemory(w)
  BY <1>3 DEF PopFile, FreeFile, PopMemory, SubtractPopped, FreeMemory, storeVars
<1>4. CASE AddCheck(w) \/ AddCount(w) \/ AddFirst(w) \/ AddHead(w)
  BY <1>4 DEF AddCheck, AddCount, AddFirst, AddHead, storeVars
<1>5. CASE SetFileOpen(w) \/ SetFileClose(w) \/ ReadCheck(w) \/ ReadLock(w) \/ ReadSend(w)
  BY <1>5 DEF SetFileOpen, SetFileClose, ReadCheck, ReadLock, ReadSend, storeVars
<1>6. CASE RecvMessage(w) \/ WriteMeta(w) \/ WriteFile(w)
  BY <1>6 DEF RecvMessage, WriteMeta, WriteFile, storeVars
<1>7. CASE CountFiles(w) \/ GetHead(w) \/ SendN(w) \/ SendNNext(w)
  BY <1>7 DEF CountFiles, GetHead, SendN, SendNNext, storeVars
<1>8. CASE RemoveInMem(w) \/ RemovePop(w) \/ RemoveFree(w)
  BY <1>8 DEF RemoveInMem, RemovePop, RemoveFree, storeVars
<1>9. CASE OutOfMemory(w) \/ SetOpenOnNull(w) \/ ClosedJobFreed(w) \/ RemoveFails(w) \/ SendFails(w) \/ Crash(w)
  BY <1>9 DEF OutOfMemory, SetOpenOnNull, ClosedJobFreed, RemoveFails, SendFails, Crash, Exit, End, storeVars
<1>10. QED
  BY <1>1, <1>2, <1>3, <1>4, <1>5, <1>6, <1>7, <1>8, <1>9 DEF Step

\* A section of the one worker, from one good state to the next.
InSection(w) == OneInv /\ OneInv' /\ mode = "ON" /\ WorkerStep(w)

\* What is known of it.
LEMMA SectionFacts ==
  ASSUME NEW w \in Workers, InSection(w)
  PROVE  /\ Workers = {w} /\ Step(w) /\ mode = "ON" /\ mode' = mode /\ policy' = policy
         /\ IInv /\ IInv' /\ lost = {} /\ JobInv(frame[w])
         /\ memory \in Seq(FileIds) /\ memory' \in Seq(FileIds)
         /\ DOMAIN memory = 1..Len(memory) /\ Len(memory) \in Nat /\ IsInjective(memory)
         /\ frame \in [Workers -> Frames] /\ frame[w] \in Frames
<1>1. Workers = {w}
  BY SequentialAssumption
<1>2. Step(w) /\ mode = "ON" /\ mode' = mode /\ IInv /\ IInv' /\ lost = {}
  BY DEF InSection, WorkerStep, OneInv, SInv
<1>3. policy' = policy /\ server = "running"
  BY <1>2, PolicyStays, StepRuns
<1>4. JobInv(frame[w])
  BY <1>2, <1>3, JobInvNow DEF InSection
<1>5. /\ memory \in Seq(FileIds) /\ memory' \in Seq(FileIds) /\ IsInjective(memory)
      /\ frame \in [Workers -> Frames]
  BY <1>2 DEF IInv, TypeOK, OneOwner
<1>6. DOMAIN memory = 1..Len(memory) /\ Len(memory) \in Nat
  BY <1>5, LenProperties
<1>7. QED
  BY <1>1, <1>2, <1>3, <1>4, <1>5, <1>6

\* The list and what the cache shows of its files stay.
LEMMA Quiet ==
  ASSUME NEW w \in Workers, InSection(w), Plain(frame[w]), Plain(frame'[w]),
         memory' = memory, \A f \in Listed : FileIn(heap', f) = FileIn(heap, f)
  PROVE  Cached
<1>1. Asked = NULL /\ Files = FilesIn(heap, memory)
  BY SectionFacts, PlainView
<1>2. Asked' = NULL /\ Files' = FilesIn(heap', memory)
  BY SectionFacts, ViewNext
<1>3. \A i \in 1..Len(memory) : memory[i] \in Listed
  BY SectionFacts, StoreFacts
<1>4. FilesIn(heap', memory) = FilesIn(heap, memory)
  BY <1>3, FilesAlike
<1>5. QED
  BY <1>1, <1>2, <1>4, SectionFacts, CacheStutters

\* Where most sections lead to.
LEMMA PlainNext ==
  ASSUME IInv, NEW w \in Workers, JobInv(frame[w]), Step(w), frame[w].pc \notin Finding, ~RemoveInMem(w)
  PROVE  Plain(frame'[w])
<1> DEFINE fr == frame[w]
           Goal == Plain(frame'[w])
<1>0. /\ fr \in Frames /\ OpAt(fr) /\ frame \in [Workers -> Frames] /\ w \in Workers
      /\ Idle.pc = "idle" /\ fr.pc \notin Finding
  BY FrameFacts, IdleOK DEF IInv, TypeOK, JobInv, JobOK
<1>1. ASSUME NEW g, Become(w, g), Plain(g) PROVE Goal
  BY <1>0, <1>1 DEF Become
<1>2. ASSUME NEW g, Become(w, g), g.pc \notin {"remove_pop", "find_in", "find_scan", "find_policy"} PROVE Goal
  BY <1>1, <1>2 DEF Plain, Finding
<1>3. ASSUME NEW l \in Labels \ {"remove_pop", "find_in", "find_scan", "find_policy"}, Go(w, l) PROVE Goal
  <2>1. [frame[w] EXCEPT !.pc = l].pc = l
    BY <1>0 DEF Frames
  <2>2. QED
    BY <1>2, <1>3, <2>1 DEF Go
<1>4. ASSUME Done(w) PROVE Goal
  BY <1>0, <1>2, <1>4 DEF Done
<1>5. ASSUME CacheDone(w) PROVE Goal
  <2>1. AfterCache(fr).pc \in {"add_check", "recv"}
    BY <1>0 DEF AfterCache, Frames
  <2>2. QED
    BY <1>2, <1>5, <2>1 DEF CacheDone
<1>6. ASSUME NEW how, End(how) PROVE Goal
  BY <1>0, <1>6 DEF End, Plain, Finding
<1> SUFFICES Goal
  OBVIOUS
<1> HIDE DEF Goal
<1>7. CASE TakeJob(w)
  <2>1. PICK op, n, k : Become(w, NewFrame(FirstLabel(op), op, n, k)) /\ op \in Ops
    BY <1>7 DEF TakeJob
  <2>2. Plain(NewFrame(FirstLabel(op), op, n, k))
    BY <2>1, WorkersAssumption DEF NewFrame, FirstLabel, Plain, AllOps
  <2>3. QED
    BY <1>1, <2>1, <2>2
<1>8. CASE OpenInMem(w)
  <2>1. ASSUME fr.op = "OPEN", Go(w, "find_in") PROVE Goal
    <3>1. Plain([fr EXCEPT !.pc = "find_in"])
      BY <1>0, <2>1 DEF Plain, Frames
    <3>2. QED
      BY <1>1, <2>1, <3>1 DEF Go
  <2>2. QED
    BY <1>3, <1>4, <1>8, <2>1 DEF OpenInMem, Labels
<1>9. CASE FindInMem(w) \/ FindScan(w) \/ FindPolicy(w)
  BY <1>0, <1>9 DEF FindInMem, FindScan, FindPolicy, At, Finding
<1>10. CASE IsActionLegal(w) \/ PlanFiles(w) \/ PlanMemory(w) \/ MoreFiles(w)
  <2>1. ASSUME NEW l \in {"pop_file", "more"}, NEW n, Become(w, [fr EXCEPT !.pc = l, !.left = n])
        PROVE  Goal
    <3>1. [fr EXCEPT !.pc = l, !.left = n].pc = l
      BY <1>0 DEF Frames
    <3>2. QED
      BY <1>2, <2>1, <3>1
  <2>2. QED
    BY <1>3, <1>4, <1>5, <1>10, <2>1 DEF IsActionLegal, PlanFiles, PlanMemory, MoreFiles, Labels
<1>11. CASE \/ PopFile(w) \/ FreeFile(w) \/ PopMemory(w) \/ SubtractPopped(w) \/ FreeMemory(w)
            \/ RemovePop(w) \/ RemoveFree(w)
  <2>1. ASSUME NEW l \in {"free_file", "remove_free", "subtract", "more"}, NEW x, Become(w, [fr EXCEPT !.pc = l, !.victim = x])
        PROVE  Goal
    <3>1. [fr EXCEPT !.pc = l, !.victim = x].pc = l
      BY <1>0 DEF Frames
    <3>2. QED
      BY <1>2, <2>1, <3>1
  <2>2. CASE PopFile(w) \/ RemovePop(w) \/ RemoveFree(w)
    BY <1>3, <1>4, <2>1, <2>2 DEF PopFile, RemovePop, RemoveFree, Labels
  <2>3. CASE FreeFile(w)
    <3> DEFINE l == IF fr.left > 1 THEN "pop_file" ELSE "plan_memory"
               g == [fr EXCEPT !.victim = NULL, !.left = @ - 1, !.pc = l]
    <3>1. g.pc = l /\ l \in {"pop_file", "plan_memory"}
      BY <1>0 DEF Frames
    <3>2. Become(w, g)
      BY <2>3 DEF FreeFile
    <3> HIDE DEF g
    <3>3. QED
      BY <1>2, <3>1, <3>2
  <2>4. CASE PopMemory(w)
    BY <2>1, <2>4 DEF PopMemory
  <2>6. CASE SubtractPopped(w)
    <3> DEFINE g == [fr EXCEPT !.pc = "free_memory", !.left = @ - heap[fr.victim].usedMemory]
    <3>1. g.pc = "free_memory"
      BY <1>0 DEF Frames
    <3>2. Become(w, g)
      BY <2>6 DEF SubtractPopped
    <3> HIDE DEF g
    <3>3. QED
      BY <1>2, <3>1, <3>2
  <2>5. CASE FreeMemory(w)
    BY <1>5, <2>1, <2>5 DEF FreeMemory
  <2>7. QED
    BY <1>11, <2>2, <2>3, <2>4, <2>5, <2>6
<1>12. CASE AddCheck(w)
  <2>1. PICK f, l : l \in {"set_open", "add_count"} /\ Become(w, [fr EXCEPT !.file = f, !.pc = l])
    BY <1>12 DEF AddCheck
  <2>2. [fr EXCEPT !.file = f, !.pc = l].pc = l
    BY <1>0, <2>1 DEF Frames
  <2>3. QED
    BY <1>2, <2>1, <2>2
<1>13. CASE AddCount(w) \/ AddFirst(w) \/ AddHead(w) \/ ReadLock(w) \/ ReadSend(w) \/ WriteMeta(w) \/ WriteFile(w)
  BY <1>3, <1>4, <1>13 DEF AddCount, AddFirst, AddHead, ReadLock, ReadSend, WriteMeta, WriteFile, Labels
<1>14. CASE SetFileOpen(w)
  BY <1>4, <1>14 DEF SetFileOpen
<1>15. CASE SetFileClose(w)
  BY <1>0, <1>15 DEF SetFileClose, At, OpAt
<1>16. CASE RecvMessage(w)
  <2>1. ASSUME Become(w, [fr EXCEPT !.pc = "find_in", !.op = "REWRITE", !.file = NULL]) PROVE Goal
    <3>1. Plain([fr EXCEPT !.pc = "find_in", !.op = "REWRITE", !.file = NULL])
      BY <1>0 DEF Plain, Frames
    <3>2. QED
      BY <1>1, <2>1, <3>1
  <2>2. QED
    BY <1>3, <1>4, <1>16, <2>1 DEF RecvMessage, Labels
<1>17. CASE ReadCheck(w) \/ CountFiles(w) \/ GetHead(w) \/ SendN(w) \/ SendNNext(w)
  <2>1. ASSUME NEW l \in {"head", "sendn"}, NEW f, NEW n,
               \/ Become(w, [fr EXCEPT !.pc = l, !.left = n])
               \/ Become(w, [fr EXCEPT !.pc = l, !.file = f])
               \/ Become(w, [fr EXCEPT !.pc = l, !.file = f, !.left = n])
        PROVE  Goal
    <3>1. /\ [fr EXCEPT !.pc = l, !.left = n].pc = l
          /\ [fr EXCEPT !.pc = l, !.file = f].pc = l
          /\ [fr EXCEPT !.pc = l, !.file = f, !.left = n].pc = l
      BY <1>0 DEF Frames
    <3>2. QED
      BY <1>2, <2>1, <3>1
  <2>2. CASE ReadCheck(w) \/ SendN(w)
    BY <1>3, <1>4, <2>2 DEF ReadCheck, SendN, Labels
  <2>3. CASE CountFiles(w) \/ GetHead(w)
    BY <1>4, <2>1, <2>3 DEF CountFiles, GetHead
  <2>4. CASE SendNNext(w)
    BY <1>4, <2>1, <2>4 DEF SendNNext
  <2>5. QED
    BY <1>17, <2>2, <2>3, <2>4
<1>18. CASE OutOfMemory(w) \/ SetOpenOnNull(w) \/ ClosedJobFreed(w) \/ RemoveFails(w) \/ SendFails(w) \/ Crash(w)
  BY <1>6, <1>18 DEF OutOfMemory, SetOpenOnNull, ClosedJobFreed, RemoveFails, SendFails, Crash, Exit
<1>19. QED
  BY <1>7, <1>8, <1>9, <1>10, <1>11, <1>12, <1>13, <1>14, <1>15, <1>16, <1>17, <1>18 DEF Step

\* Sections that only read, or that change what the cache has no notion of.
LEMMA ReadsCached ==
  ASSUME NEW w \in Workers, InSection(w),
         \/ TakeJob(w) \/ OpenInMem(w) \/ IsActionLegal(w) \/ PlanFiles(w) \/ PlanMemory(w)
         \/ MoreFiles(w) \/ SubtractPopped(w) \/ AddCount(w) \/ ReadCheck(w) \/ RecvMessage(w)
         \/ WriteMeta(w) \/ CountFiles(w) \/ GetHead(w) \/ SendN(w) \/ SendNNext(w)
  PROVE  Cached
<1>1. memory' = memory /\ heap' = heap
  BY DEF TakeJob, OpenInMem, IsActionLegal, PlanFiles, PlanMemory, MoreFiles, SubtractPopped, AddCount, ReadCheck,
         RecvMessage, WriteMeta, CountFiles, GetHead, SendN, SendNNext, storeVars, lists
<1>2. frame[w].pc \in {"idle", "in_mem", "legal", "plan", "plan_memory", "more", "subtract", "add_count", "read_check",
                       "recv", "write_meta", "count", "head", "sendn", "sendn_next"}
  BY DEF TakeJob, OpenInMem, IsActionLegal, PlanFiles, PlanMemory, MoreFiles, SubtractPopped, AddCount, ReadCheck,
         RecvMessage, WriteMeta, CountFiles, GetHead, SendN, SendNNext, At
<1>3. Plain(frame[w]) /\ frame[w].pc \notin Finding /\ ~RemoveInMem(w)
  BY <1>2 DEF Plain, Finding, RemoveInMem, At
<1>4. Plain(frame'[w])
  BY <1>3, SectionFacts, PlainNext
<1>5. \A f \in Listed : FileIn(heap', f) = FileIn(heap, f)
  BY <1>1 DEF FileIn
<1>6. QED
  BY <1>1, <1>3, <1>4, <1>5, Quiet

\* A victim that is freed has left the list before.
LEMMA FreesCached ==
  ASSUME NEW w \in Workers, InSection(w), FreeFile(w) \/ FreeMemory(w) \/ RemoveFree(w)
  PROVE  Cached
<1> DEFINE v == frame[w].victim
<1>1. /\ memory' = memory /\ FreeVictim(w)
      /\ frame[w].pc \in {"free_file", "free_memory", "remove_free"}
  BY DEF FreeFile, FreeMemory, RemoveFree, At, lists
<1>2. Plain(frame[w]) /\ frame[w].pc \notin Finding /\ ~RemoveInMem(w) /\ frame[w].pc \in Freeing
  BY <1>1 DEF Plain, Finding, RemoveInMem, At, Freeing
<1>3. Plain(frame'[w])
  BY <1>2, SectionFacts, PlainNext
<1>4. v \notin Listed
  <2>1. v \in FileIds \cup {NULL}
    BY SectionFacts DEF Frames, Pointers
  <2>2. CASE v = NULL
    BY <2>2, SectionFacts, StoreFacts, MemoryAssumption
  <2>3. CASE v \in FileIds
    <3>1. v \in Own(frame[w])
      BY <1>2, <2>3 DEF Own
    <3>2. QED
      BY <3>1, SectionFacts DEF IInv, OneOwner, Linked
  <2>4. QED
    BY <2>1, <2>2, <2>3
<1>5. heap \in [FileIds -> FileMemory \cup {NULL}]
  BY SectionFacts DEF IInv, TypeOK
<1>6. \A f \in Listed : heap'[f] = heap[f]
  <2>1. CASE v = NULL
    BY <1>1, <2>1 DEF FreeVictim
  <2>2. CASE v # NULL
    <3>1. heap' = [heap EXCEPT ![v] = NULL]
      BY <1>1, <2>2 DEF FreeVictim, Free
    <3>2. QED
      BY <1>4, <1>5, <3>1, SectionFacts, StoreFacts
  <2>3. QED
    BY <2>1, <2>2
<1>7. \A f \in Listed : FileIn(heap', f) = FileIn(heap, f)
  BY <1>6 DEF FileIn
<1>8. QED
  BY <1>1, <1>2, <1>3, <1>7, Quiet

\* A file that is not linked yet, and the mutex of one that is.
LEMMA HeapCached ==
  ASSUME NEW w \in Workers, InSection(w), AddCheck(w) \/ ReadLock(w) \/ ReadSend(w)
  PROVE  Cached
<1>1. memory' = memory /\ frame[w].pc \in {"add_check", "read_lock", "read_send"}
  BY DEF AddCheck, ReadLock, ReadSend, At, lists
<1>2. Plain(frame[w]) /\ frame[w].pc \notin Finding /\ ~RemoveInMem(w)
  BY <1>1 DEF Plain, Finding, RemoveInMem, At
<1>3. Plain(frame'[w])
  BY <1>2, SectionFacts, PlainNext
<1>4. /\ heap \in [FileIds -> FileMemory \cup {NULL}]
      /\ \A f \in Listed : f \in FileIds /\ ~Freed(f) /\ heap[f] \in FileMemory
  BY SectionFacts, StoreFacts DEF IInv, TypeOK
<1>5. CASE AddCheck(w)
  <2>1. PICK g \in Unused : heap' = [heap EXCEPT ![g] = NewFile(frame[w].filename)]
    BY <1>5 DEF AddCheck, Allocate
  <2>2. g \notin Listed
    BY <1>4 DEF Unused
  <2>3. \A f \in Listed : heap'[f] = heap[f]
    BY <1>4, <2>1, <2>2
  <2>4. \A f \in Listed : FileIn(heap', f) = FileIn(heap, f)
    BY <2>3 DEF FileIn
  <2>5. QED
    BY <1>1, <1>2, <1>3, <2>4, Quiet
<1>6. CASE ReadLock(w) \/ ReadSend(w)
  <2>1. PICK g, o : heap' = [heap EXCEPT ![g].lockFile = o]
    BY <1>6 DEF ReadLock, ReadSend
  <2>2. ASSUME NEW f \in Listed PROVE FileIn(heap', f) = FileIn(heap, f)
    <3>1. CASE f = g
      <4>1. heap'[f] = [heap[f] EXCEPT !.lockFile = o]
        BY <1>4, <2>1, <3>1
      <4>2. QED
        BY <1>4, <4>1 DEF FileIn, FileMemory
    <3>2. CASE f # g
      BY <1>4, <2>1, <3>2 DEF FileIn
    <3>3. QED
      BY <3>1, <3>2
  <2>3. QED
    BY <1>1, <1>2, <1>3, <2>2, Quiet
<1>7. QED
  BY <1>5, <1>6

\* pop_from_head takes the file that was as good as gone.
LEMMA RemovePopCached ==
  ASSUME NEW w \in Workers, InSection(w), RemovePop(w)
  PROVE  Cached
<1>1. frame[w].pc = "remove_pop" /\ memory # <<>>
  BY SectionFacts DEF RemovePop, At, JobInv, JobOK, PointersOK
<1>2. memory' = Tail(memory) /\ heap' = heap
  BY <1>1 DEF RemovePop, PopHead
<1>3. frame[w].pc \notin Finding /\ ~RemoveInMem(w)
  BY <1>1 DEF Finding, RemoveInMem, At
<1>4. Plain(frame'[w])
  BY <1>3, SectionFacts, PlainNext
<1>5. Asked = NULL /\ Files = FilesIn(heap, Tail(memory))
  BY <1>1, SectionFacts, GoneView
<1>6. Asked' = NULL /\ Files' = FilesIn(heap', memory')
  BY <1>4, SectionFacts, ViewNext
<1>7. QED
  BY <1>2, <1>5, <1>6, SectionFacts, CacheStutters

\* The server ends at a send or for want of memory.
LEMMA EndCached ==
  ASSUME NEW w \in Workers, InSection(w), End("exited"),
         Sending(frame[w]) \/ frame[w].pc = "add_check"
  PROVE  Cached
<1>1. Plain(frame[w])
  BY DEF Sending, Plain, Finding, Writing
<1>2. Idle.pc = "idle"
  BY IdleOK
<1>3. Plain(frame'[w])
  BY <1>2 DEF End, Plain, Finding
<1>4. memory' = memory /\ heap' = heap
  BY DEF End, storeVars
<1>5. \A f \in Listed : FileIn(heap', f) = FileIn(heap, f)
  BY <1>4 DEF FileIn
<1>6. QED
  BY <1>1, <1>3, <1>4, <1>5, Quiet

-----------------------------------------------------------------------------
(* The sections that the cache shows.                                      *)

\* What find_file returns to an operation that is no removal.
LEMMA FoundPlain ==
  ASSUME NEW fr \in Frames, OpAt(fr), fr.pc \in Finding, fr.op # "POP", NEW f
  PROVE  Plain(FoundFrame(fr, f))
<1>1. fr.op \in {"OPEN", "READ", "WRITE", "REWRITE", "REMOVE"}
  BY DEF OpAt
<1> DEFINE g == FoundFrame(fr, f)
<1>2. g = Idle \/ (g.pc = AfterFind(fr.op) /\ g.op = fr.op)
  BY DEF FoundFrame, Frames
<1>3. AfterFind(fr.op) # "remove_pop"
  BY <1>1 DEF AfterFind, Writing
<1>4. Idle.pc = "idle"
  BY IdleOK
<1> HIDE DEF g
<1>5. QED
  BY <1>2, <1>3, <1>4 DEF Plain, Finding, g

\* The lookups that leave the list as it is.
LEMMA LooksCached ==
  ASSUME NEW w \in Workers, InSection(w), FindInMem(w) \/ FindScan(w)
  PROVE  Cached
<1> DEFINE fr == frame[w]
<1>1. /\ fr \in Frames /\ fr.pc \in {"find_in", "find_scan"} /\ fr.pc \in Finding
      /\ memory' = memory /\ heap' = heap /\ OpAt(fr) /\ PointersOK(fr) /\ JobOK(fr)
      /\ frame \in [Workers -> Frames]
  BY SectionFacts DEF FindInMem, FindScan, At, Finding, storeVars, JobInv, JobOK
<1>2. WantedName(fr) = fr.filename
  BY <1>1, WantedIsNamed
<1>3. \A f \in Listed : FileIn(heap', f) = FileIn(heap, f)
  BY <1>1 DEF FileIn
<1>4. CASE fr.op = "POP"
  <2>1. fr.file \in Listed /\ heap[fr.file].filename = fr.filename
    BY <1>1, <1>4 DEF PointersOK
  <2>2. ~NoSuch(fr.filename)
    BY <2>1 DEF NoSuch
  <2>3. InMem(fr.filename) /\ Matches(fr.filename) # {}
    BY <2>2, SectionFacts, NamesHere
  <2>4. PolicyOf(fr.op) = "LRU"
    BY <1>4 DEF PolicyOf
  <2>5. \/ Go(w, "find_scan")
        \/ \E i : Become(w, [fr EXCEPT !.pc = "find_policy", !.cursor = memory[i]])
    BY <1>2, <2>3, <2>4 DEF FindInMem, FindScan
  <2>6. frame'[w].op = "POP" /\ frame'[w].pc \in Finding /\ frame'[w].filename = fr.filename
    <3>1. CASE Go(w, "find_scan")
      BY <1>1, <1>4, <3>1 DEF Go, Become, Frames, Finding
    <3>2. ASSUME NEW i, Become(w, [fr EXCEPT !.pc = "find_policy", !.cursor = memory[i]])
          PROVE  frame'[w].op = "POP" /\ frame'[w].pc \in Finding /\ frame'[w].filename = fr.filename
      BY <1>1, <1>4, <3>2 DEF Become, Frames, Finding
    <3>3. QED
      BY <2>5, <3>1, <3>2
  <2>7. Asked = fr.filename /\ Files = FilesIn(heap, memory)
    BY <1>1, <1>4, SectionFacts, AskedView
  <2>8. Asked' = fr.filename /\ Files' = FilesIn(heap', memory')
    BY <2>6, SectionFacts, ViewNext
  <2>9. QED
    BY <1>1, <2>7, <2>8, SectionFacts, CacheStutters
<1>5. CASE fr.op # "POP"
  <2>1. Plain(fr)
    BY <1>1, <1>5 DEF Plain
  <2>2. ASSUME NEW g, Become(w, g), Plain(g) PROVE Plain(frame'[w])
    BY <1>1, <2>2 DEF Become
  <2>3. ASSUME Done(w) PROVE Plain(frame'[w])
    <3>1. Plain(Idle)
      BY IdleOK DEF Plain, Finding
    <3>2. QED
      BY <2>2, <2>3, <3>1 DEF Done
  <2>4. ASSUME NEW f, FindReturns(w, f) PROVE Plain(frame'[w])
    <3>1. Become(w, FoundFrame(fr, f)) \/ Done(w)
      BY <2>4 DEF FindReturns, FoundFrame, Done
    <3>2. Plain(FoundFrame(fr, f))
      BY <1>1, <1>5, FoundPlain
    <3>3. QED
      BY <2>2, <2>3, <3>1, <3>2
  <2>5. ASSUME Go(w, "find_scan") PROVE Plain(frame'[w])
    <3>1. Plain([fr EXCEPT !.pc = "find_scan"])
      BY <1>1, <1>5 DEF Plain, Frames
    <3>2. QED
      BY <2>2, <2>5, <3>1 DEF Go
  <2>6. ASSUME NEW i, Become(w, [fr EXCEPT !.pc = "find_policy", !.cursor = memory[i]])
        PROVE  Plain(frame'[w])
    <3>1. Plain([fr EXCEPT !.pc = "find_policy", !.cursor = memory[i]])
      BY <1>1, <1>5 DEF Plain, Frames
    <3>2. QED
      BY <2>2, <2>6, <3>1
  <2>7. Plain(frame'[w])
    <3>1. CASE FindInMem(w)
      BY <2>4, <2>5, <3>1 DEF FindInMem
    <3>2. CASE FindScan(w)
      BY <2>4, <2>6, <3>2 DEF FindScan
    <3>3. QED
      BY <3>1, <3>2
  <2>8. QED
    BY <1>1, <1>3, <2>1, <2>7, Quiet
<1>6. QED
  BY <1>4, <1>5

\* Behind the head of a list whose i-th file was moved there are the others.
LEMMA TailOfMoved ==
  ASSUME NEW S, NEW s \in Seq(S), NEW i \in 1..Len(s)
  PROVE  Tail(MovedToFront(s, i)) = C!Without(s, i)
<1> PICK t, p : t = C!Without(s, i) /\ p = <<s[i]>> \o t
  OBVIOUS
<1>1. t \in Seq(S) /\ s[i] \in S /\ MovedToFront(s, i) = p
  BY WithoutPlaces, ElementOfSeq, MovedPlaces
<1>2. <<s[i]>> \in Seq(S) /\ Len(<<s[i]>>) = 1
  BY <1>1
<1>3. /\ p \in Seq(S) /\ Len(p) = 1 + Len(t) /\ Len(t) \in Nat
      /\ \A k \in 1..(1 + Len(t)) : p[k] = IF k <= 1 THEN <<s[i]>>[k] ELSE t[k - 1]
  BY <1>1, <1>2, ConcatProperties, LenProperties
<1>4. p # <<>>
  BY <1>3, EmptySeq
<1>5. /\ Tail(p) \in Seq(S) /\ Len(Tail(p)) = Len(p) - 1
      /\ \A k \in 1..Len(Tail(p)) : Tail(p)[k] = p[k + 1]
  BY <1>3, <1>4, HeadTailProperties
<1>6. Len(Tail(p)) = Len(t)
  BY <1>3, <1>5
<1>7. ASSUME NEW k \in 1..Len(t) PROVE Tail(p)[k] = t[k]
  <2>1. k + 1 \in 1..(1 + Len(t)) /\ ~(k + 1 <= 1) /\ (k + 1) - 1 = k
    BY <1>3
  <2>2. QED
    BY <1>3, <1>5, <1>6, <2>1
<1>8. Tail(p) = t
  BY <1>1, <1>5, <1>6, <1>7, SamePlaces
<1>9. QED
  BY <1>1, <1>8

\* policy_routine: a lookup under LRU, or the removal that was asked for.
LEMMA FindPolicyCached ==
  ASSUME NEW w \in Workers, InSection(w), FindPolicy(w)
  PROVE  Cached
<1> DEFINE fr == frame[w]
<1>1. /\ fr \in Frames /\ fr.pc = "find_policy" /\ fr.pc \in Finding
      /\ heap' = heap /\ OpAt(fr) /\ PointersOK(fr)
      /\ FindReturns(w, fr.cursor) /\ frame \in [Workers -> Frames]
      /\ memory \in Seq(FileIds) /\ memory' \in Seq(FileIds)
  BY SectionFacts DEF FindPolicy, At, Finding, JobInv, JobOK
<1>2. heap[fr.cursor].filename = fr.filename /\ PolicyOf(fr.op) = "LRU"
  BY <1>1 DEF PointersOK
<1>3. PICK i \in Matches(fr.filename) : memory' = MovedToFront(memory, i)
  BY <1>2 DEF FindPolicy, FirstMatch
<1>4. i \in 1..Len(memory) /\ heap[memory[i]].filename = fr.filename
  BY SectionFacts DEF Matches
<1>5. /\ DOMAIN FilesIn(heap, memory) = 1..Len(memory)
      /\ FilesIn(heap, memory)[i] = FileIn(heap, memory[i])
  BY <1>1, <1>4, FilesSeq
<1>6. CASE fr.op = "POP"
  <2>1. frame'[w] = [fr EXCEPT !.cursor = NULL, !.pc = "remove_pop"]
    BY <1>1, <1>6 DEF FindReturns, AfterFind, Become, Writing, Frames
  <2>2. frame'[w].pc = "remove_pop"
    BY <1>1, <2>1 DEF Frames
  <2>3. memory' # <<>>
    <3>1. Len(MovedToFront(memory, i)) = Len(memory)
      BY <1>1, <1>4, SectionFacts, MovedList
    <3>2. QED
      BY <1>1, <1>3, <1>4, <3>1, EmptySeq
  <2>4. Asked = fr.filename /\ Files = FilesIn(heap, memory)
    BY <1>1, <1>6, SectionFacts, AskedView
  <2>5. Asked' = NULL /\ Files' = FilesIn(heap', Tail(memory'))
    BY <2>2, <2>3, SectionFacts, ViewNext
  <2>6. Tail(memory') = C!Without(memory, i)
    BY <1>1, <1>3, <1>4, TailOfMoved
  <2>7. Files' = FilesIn(heap, C!Without(memory, i))
    BY <1>1, <2>5, <2>6
  <2>8. Files' = C!Without(Files, i)
    BY <1>1, <1>4, <2>4, <2>7, FilesWithout
  <2>9. i \in DOMAIN Files /\ Asked = Files[i].name
    BY <1>4, <1>5, <2>4 DEF FileIn
  <2>10. QED
    BY <2>5, <2>8, <2>9, SectionFacts, CacheRemoves
<1>7. CASE fr.op # "POP"
  <2>1. Plain(fr)
    BY <1>1, <1>7 DEF Plain
  <2>2. Plain(frame'[w])
    <3>1. Become(w, FoundFrame(fr, fr.cursor)) \/ Done(w)
      BY <1>1 DEF FindReturns, FoundFrame, Done
    <3>2. Plain(FoundFrame(fr, fr.cursor))
      BY <1>1, <1>7, FoundPlain
    <3>3. Plain(Idle)
      BY IdleOK DEF Plain, Finding
    <3>4. QED
      BY <1>1, <3>1, <3>2, <3>3 DEF Done, Become
  <2>3. Asked = NULL /\ Files = FilesIn(heap, memory)
    BY <2>1, SectionFacts, PlainView
  <2>4. Asked' = NULL /\ Files' = FilesIn(heap', memory')
    BY <2>2, SectionFacts, ViewNext
  <2>5. Files' = FilesIn(heap, MovedToFront(memory, i))
    BY <1>1, <1>3, <2>4
  <2>6. Files' = <<Files[i]>> \o C!Without(Files, i)
    BY <1>1, <1>4, <2>3, <2>5, FilesMoved
  <2>7. policy = "LRU"
    BY <1>2, <1>7 DEF PolicyOf
  <2>8. i \in DOMAIN Files
    BY <1>4, <1>5, <2>3
  <2>9. QED
    BY <2>3, <2>4, <2>6, <2>7, <2>8, SectionFacts, CacheTouches
<1>8. QED
  BY <1>6, <1>7

\* The limits of the store are those of the cache.
FilesFit ==
  IInv /\ lost = {} /\ ListOK /\ (\A v \in Workers : Plain(frame[v])) => C!Fits(Files)

\* They hold for what the cache shows.
LEMMA FitsNow == FilesFit
<1> SUFFICES ASSUME IInv, lost = {}, ListOK, \A v \in Workers : Plain(frame[v])
             PROVE  C!Fits(Files)
  BY DEF FilesFit
<1>1. memory \in Seq(FileIds) /\ IsInjective(memory)
  BY DEF IInv, TypeOK, OneOwner
<1>2. Files = FilesIn(heap, memory)
  BY <1>1, PlainView
<1>3. Len(Files) = Len(memory)
  BY <1>1, <1>2, FilesSeq
<1>4. C!Used(Files) = Cardinality(PlacesIn(heap, Range(memory)))
  BY <1>1, <1>2, StoreFacts, UsedIsBytes DEF Listed
<1>5. C!Used(Files) = Bytes(memory)
  BY <1>4, BytesAre DEF Listed
<1>6. nCurrentFile = Len(memory) /\ nCurrentFile <= MaxFiles /\ nCurrentMemoryUsed = Bytes(memory)
      /\ nCurrentMemoryUsed <= MaxMemory
  BY StoreFacts DEF ListOK
<1>7. QED
  BY <1>3, <1>5, <1>6 DEF C!Fits

\* And after a section.
LEMMA FitsNext ==
  ASSUME NEW w \in Workers, InSection(w), Plain(frame'[w])
  PROVE  C!Fits(Files')
<1>1. FilesFit'
  BY FitsNow, PTL
<1>2. mode' = "ON" /\ IInv' /\ Workers = {w}
  BY SectionFacts
<1>3. lost' = {} /\ ListOK'
  BY <1>2 DEF InSection, OneInv, StoreOK
<1>4. \A v \in Workers : Plain(frame'[v])
  BY <1>2
<1>5. QED
  BY <1>1, <1>2, <1>3, <1>4 DEF FilesFit, Plain

\* The bytes the store has counted are those of the cache.
LEMMA UsedNow ==
  ASSUME NEW w \in Workers, InSection(w), Plain(frame[w])
  PROVE  /\ Asked = NULL /\ Files = FilesIn(heap, memory)
         /\ Len(Files) = Len(memory) /\ Len(Files) = nCurrentFile
         /\ C!Used(Files) = nCurrentMemoryUsed
<1>1. memory \in Seq(FileIds) /\ IsInjective(memory) /\ IInv /\ lost = {} /\ ListOK
  BY SectionFacts DEF JobInv
<1>2. Asked = NULL /\ Files = FilesIn(heap, memory)
  BY SectionFacts, PlainView
<1>3. Len(Files) = Len(memory) /\ nCurrentFile = Len(memory)
  BY <1>1, <1>2, FilesSeq, StoreFacts
<1>4. C!Used(Files) = Cardinality(PlacesIn(heap, Range(memory)))
  BY <1>1, <1>2, StoreFacts, UsedIsBytes DEF Listed
<1>5. C!Used(Files) = Bytes(memory)
  BY <1>4, BytesAre DEF Listed
<1>6. QED
  BY <1>1, <1>2, <1>3, <1>5 DEF ListOK

\* pop_from_tail evicts the oldest file, and only for want of room.
LEMMA EvictsCached ==
  ASSUME NEW w \in Workers, InSection(w), PopFile(w) \/ PopMemory(w)
  PROVE  Cached
<1> DEFINE fr == frame[w]
<1>1. /\ fr.pc \in {"pop_file", "pop_memory"}
      /\ heap' = heap /\ OpAt(fr) /\ PointersOK(fr) /\ CountsOK(fr)
      /\ memory \in Seq(FileIds) /\ memory' \in Seq(FileIds)
  BY SectionFacts DEF PopFile, PopMemory, At, JobInv, JobOK
<1>2. Plain(fr) /\ fr.pc \notin Finding /\ ~RemoveInMem(w)
  BY <1>1 DEF Plain, Finding, RemoveInMem, At
<1>3. Plain(frame'[w])
  BY <1>2, SectionFacts, PlainNext
<1>4. /\ Asked = NULL /\ Files = FilesIn(heap, memory)
      /\ Len(Files) = Len(memory) /\ Len(Files) = nCurrentFile
      /\ C!Used(Files) = nCurrentMemoryUsed
  BY <1>2, UsedNow
<1>5. Asked' = NULL /\ Files' = FilesIn(heap', memory')
  BY <1>3, SectionFacts, ViewNext
<1>6. fr.pc = "pop_file" => nCurrentFile = MaxFiles
  BY <1>1 DEF CountsOK
<1>7. memory # <<>>
  BY <1>1, <1>6, SectionFacts, StoreFacts, SequentialAssumption DEF PointersOK
<1>8. memory' = SubSeq(memory, 1, Len(memory) - 1)
  BY <1>7 DEF PopFile, PopMemory, PopTail
<1>9. Len(memory) \in 1..Len(memory) /\ memory' = C!Without(memory, Len(memory))
  BY <1>1, <1>7, <1>8, SectionFacts, FrontPlaces, EmptySeq
<1>10. Files' = C!Without(Files, Len(Files))
  <2>1. Files' = FilesIn(heap, C!Without(memory, Len(memory)))
    BY <1>1, <1>5, <1>9
  <2>2. Files' = C!Without(FilesIn(heap, memory), Len(memory))
    BY <1>1, <1>9, <2>1, FilesWithout
  <2>3. QED
    BY <1>4, <2>2
<1>11. Files # <<>>
  BY <1>1, <1>4, <1>7, EmptySeq
<1>12. CASE fr.pc = "pop_file"
  <2>1. Len(Files) >= MaxFiles
    BY <1>4, <1>6, <1>12, MemoryAssumption
  <2>2. QED
    BY <1>4, <1>5, <1>10, <1>11, <2>1, SectionFacts, CacheEvicts
<1>13. CASE fr.pc = "pop_memory"
  <2>1. fr.arg \in Sizes /\ fr.left > 0 /\ fr.left = nCurrentMemoryUsed + fr.arg - MaxMemory
    BY <1>1, <1>13 DEF OpAt, CountsOK
  <2>2. fr.arg \in Nat /\ nCurrentMemoryUsed \in Int
    BY <2>1, WorkersAssumption, SectionFacts, StoreFacts
  <2>3. nCurrentMemoryUsed + fr.arg > MaxMemory
    BY <2>1, <2>2, MemoryAssumption
  <2>4. \E bytes \in Sizes : C!Used(Files) + bytes > MaxMemory
    BY <1>4, <2>1, <2>3
  <2>5. QED
    BY <1>4, <1>5, <1>10, <1>11, <2>4, SectionFacts, CacheEvicts
<1>14. QED
  BY <1>1, <1>12, <1>13

\* add_file_to_memory puts a new name in front.
LEMMA CreatesCached ==
  ASSUME NEW w \in Workers, InSection(w), AddFirst(w) \/ AddHead(w)
  PROVE  Cached
<1> DEFINE fr == frame[w]
           n == fr.filename
<1>1. /\ fr.pc \in {"add_first", "add_head"} /\ fr.pc \in Creating
      /\ heap' = heap /\ OpAt(fr) /\ PointersOK(fr)
      /\ memory \in Seq(FileIds) /\ memory' \in Seq(FileIds)
      /\ FrameOK(fr)
  BY SectionFacts, FrameFacts DEF AddFirst, AddHead, At, JobInv, JobOK, Creating
<1>2. Plain(fr) /\ fr.pc \notin Finding /\ ~RemoveInMem(w)
  BY <1>1 DEF Plain, Finding, RemoveInMem, At
<1>3. Plain(frame'[w])
  BY <1>2, SectionFacts, PlainNext
<1>4. Asked = NULL /\ Files = FilesIn(heap, memory)
  BY <1>2, SectionFacts, PlainView
<1>5. Asked' = NULL /\ Files' = FilesIn(heap', memory')
  BY <1>3, SectionFacts, ViewNext
<1>6. fr.op = "CREATE" /\ n \in Names /\ fr.file \in FileIds
  BY <1>1 DEF OpAt, FrameOK
<1>7. heap[fr.file] = NewFile(n) /\ NoSuch(n)
  BY <1>1, <1>6 DEF PointersOK
<1>8. memory' = <<fr.file>> \o memory
  <2>1. CASE AddHead(w)
    BY <2>1 DEF AddHead, PushHead
  <2>2. CASE AddFirst(w)
    <3>1. memory = <<>> /\ memory' = <<fr.file>>
      BY <2>2, SectionFacts DEF AddFirst, SetAsOnly, At, JobInv
    <3>2. <<fr.file>> \o <<>> = <<fr.file>>
      BY <1>6, ConcatEmptySeq
    <3>3. QED
      BY <3>1, <3>2
  <2>3. QED
    BY <2>1, <2>2
<1>9. FileIn(heap, fr.file) = [name |-> n, bytes |-> 0, open |-> FALSE]
  BY <1>7 DEF FileIn, NewFile
<1>10. Files' = <<[name |-> n, bytes |-> 0, open |-> FALSE]>> \o Files
  <2>1. Files' = FilesIn(heap, <<fr.file>> \o memory)
    BY <1>1, <1>5, <1>8
  <2>2. Files' = <<FileIn(heap, fr.file)>> \o FilesIn(heap, memory)
    BY <1>1, <1>6, <2>1, FilesPushed
  <2>3. QED
    BY <1>4, <1>9, <2>2
<1>11. \A i \in DOMAIN Files : Files[i].name # n
  <2>1. /\ DOMAIN Files = 1..Len(memory)
        /\ \A i \in 1..Len(memory) : Files[i] = FileIn(heap, memory[i])
    BY <1>1, <1>4, FilesSeq
  <2>2. \A i \in 1..Len(memory) : heap[memory[i]].filename # n
    BY <1>7, SectionFacts, StoreFacts DEF NoSuch
  <2>3. QED
    BY <2>1, <2>2 DEF FileIn
<1>12. C!Fits(Files')
  BY <1>3, FitsNext
<1>13. QED
  BY <1>4, <1>5, <1>6, <1>10, <1>11, <1>12, SectionFacts, CacheCreates

\* To open a file changes nothing else of it.
LEMMA OpenField ==
  ASSUME NEW n, NEW k, NEW o, NEW b
  PROVE  [[name |-> n, bytes |-> k, open |-> o] EXCEPT !.open = b] = [name |-> n, bytes |-> k, open |-> b]
OBVIOUS

\* set_file_open opens the file that was looked up or created.
LEMMA OpensCached ==
  ASSUME NEW w \in Workers, InSection(w), SetFileOpen(w)
  PROVE  Cached
<1> DEFINE fr == frame[w]
<1>1. /\ fr.pc = "set_open" /\ PointersOK(fr) /\ memory' = memory
      /\ heap' = [heap EXCEPT ![fr.file].isOpen = TRUE]
      /\ memory \in Seq(FileIds)
  BY SectionFacts DEF SetFileOpen, At, JobInv, JobOK, lists
<1>2. Plain(fr) /\ fr.pc \notin Finding /\ ~RemoveInMem(w)
  BY <1>1 DEF Plain, Finding, RemoveInMem, At
<1>3. Plain(frame'[w])
  BY <1>2, SectionFacts, PlainNext
<1>4. Asked = NULL /\ Files = FilesIn(heap, memory)
  BY <1>2, SectionFacts, PlainView
<1>5. Asked' = NULL /\ Files' = FilesIn(heap', memory)
  BY <1>1, <1>3, SectionFacts, ViewNext
<1>6. fr.file \in Listed
  BY <1>1 DEF PointersOK
<1>7. PICK i \in 1..Len(memory) : memory[i] = fr.file
  BY <1>6, SectionFacts, StoreFacts
<1>8. \A k \in 1..Len(memory) : k # i => memory[k] # fr.file
  BY <1>7, SectionFacts, StoreFacts
<1>9. heap \in [FileIds -> FileMemory \cup {NULL}] /\ fr.file \in FileIds /\ heap[fr.file] \in FileMemory
  BY <1>6, SectionFacts, StoreFacts DEF IInv, TypeOK
<1>10. \A k \in 1..Len(memory) : k # i => FileIn(heap', memory[k]) = FileIn(heap, memory[k])
  <2>1. \A k \in 1..Len(memory) : memory[k] \in FileIds
    BY SectionFacts, ElementOfSeq
  <2>2. \A k \in 1..Len(memory) : k # i => heap'[memory[k]] = heap[memory[k]]
    BY <1>1, <1>8, <1>9, <2>1
  <2>3. QED
    BY <2>2 DEF FileIn
<1>11. FilesIn(heap', memory) = [FilesIn(heap, memory) EXCEPT ![i] = FileIn(heap', memory[i])]
  <2> PICK h, g, s : h = heap /\ g = heap' /\ s = memory
    OBVIOUS
  <2>1. s \in Seq(FileIds) /\ i \in 1..Len(s)
        /\ \A k \in 1..Len(s) : k # i => FileIn(g, s[k]) = FileIn(h, s[k])
    BY <1>1, <1>10
  <2>2. FilesIn(g, s) = [FilesIn(h, s) EXCEPT ![i] = FileIn(g, s[i])]
    BY <2>1, FilesDiffer
  <2>3. QED
    BY <2>2
<1>12. FileIn(heap', memory[i]) = [FileIn(heap, memory[i]) EXCEPT !.open = TRUE]
  <2> PICK r, q : r = heap[fr.file] /\ q = heap'[fr.file]
    OBVIOUS
  <2>1. r \in FileMemory /\ q = [r EXCEPT !.isOpen = TRUE]
    BY <1>1, <1>9
  <2>2. FileIn(heap', memory[i]) = [name |-> q.filename, bytes |-> q.usedMemory, open |-> q.isOpen]
    BY <1>7 DEF FileIn
  <2>3. FileIn(heap, memory[i]) = [name |-> r.filename, bytes |-> r.usedMemory, open |-> r.isOpen]
    BY <1>7 DEF FileIn
  <2>4. q.filename = r.filename /\ q.usedMemory = r.usedMemory /\ q.isOpen = TRUE
    BY <2>1 DEF FileMemory
  <2>5. PICK b : b = TRUE
    OBVIOUS
  <2>6. PICK x, y : x = FileIn(heap, memory[i]) /\ y = FileIn(heap', memory[i])
    OBVIOUS
  <2>7. x = [name |-> r.filename, bytes |-> r.usedMemory, open |-> r.isOpen]
    BY <2>3, <2>6
  <2>8. [x EXCEPT !.open = b] = [name |-> r.filename, bytes |-> r.usedMemory, open |-> b]
    BY <2>7, OpenField
  <2>9. y = [name |-> r.filename, bytes |-> r.usedMemory, open |-> b]
    BY <2>2, <2>4, <2>5, <2>6
  <2>10. y = [x EXCEPT !.open = b]
    BY <2>8, <2>9
  <2>11. QED
    BY <2>5, <2>6, <2>10, Zenon
<1>13. DOMAIN Files = 1..Len(memory) /\ Files[i] = FileIn(heap, memory[i])
  BY <1>1, <1>4, FilesSeq
<1>14. Files' = [Files EXCEPT ![i] = [Files[i] EXCEPT !.open = TRUE]]
  BY <1>4, <1>5, <1>11, <1>12, <1>13
<1>15. QED
  BY <1>4, <1>5, <1>13, <1>14, SectionFacts, CacheOpens

\* write_to_file writes to the file that was looked up.
LEMMA WritesCached ==
  ASSUME NEW w \in Workers, InSection(w), WriteFile(w)
  PROVE  Cached
<1> DEFINE fr == frame[w]
<1>1. /\ fr.pc = "write_file" /\ PointersOK(fr) /\ OpAt(fr) /\ memory' = memory
      /\ heap' = [heap EXCEPT ![fr.file].usedMemory = @ + fr.arg]
      /\ memory \in Seq(FileIds)
  BY SectionFacts DEF WriteFile, AppendBytes, At, JobInv, JobOK, lists
<1>2. Plain(fr) /\ fr.pc \notin Finding /\ ~RemoveInMem(w)
  BY <1>1 DEF Plain, Finding, RemoveInMem, At
<1>3. Plain(frame'[w])
  BY <1>2, SectionFacts, PlainNext
<1>4. Asked = NULL /\ Files = FilesIn(heap, memory)
  BY <1>2, SectionFacts, PlainView
<1>5. Asked' = NULL /\ Files' = FilesIn(heap', memory)
  BY <1>1, <1>3, SectionFacts, ViewNext
<1>6. fr.file \in Listed /\ fr.arg \in Sizes
  BY <1>1 DEF PointersOK, OpAt
<1>7. PICK i \in 1..Len(memory) : memory[i] = fr.file
  BY <1>6, SectionFacts, StoreFacts
<1>8. \A k \in 1..Len(memory) : k # i => memory[k] # fr.file
  BY <1>7, SectionFacts, StoreFacts
<1>9. heap \in [FileIds -> FileMemory \cup {NULL}] /\ fr.file \in FileIds /\ heap[fr.file] \in FileMemory
  BY <1>6, SectionFacts, StoreFacts DEF IInv, TypeOK
<1>10. \A k \in 1..Len(memory) : k # i => FileIn(heap', memory[k]) = FileIn(heap, memory[k])
  <2>1. \A k \in 1..Len(memory) : memory[k] \in FileIds
    BY SectionFacts, ElementOfSeq
  <2>2. \A k \in 1..Len(memory) : k # i => heap'[memory[k]] = heap[memory[k]]
    BY <1>1, <1>8, <1>9, <2>1
  <2>3. QED
    BY <2>2 DEF FileIn
<1>11. FilesIn(heap', memory) = [FilesIn(heap, memory) EXCEPT ![i] = FileIn(heap', memory[i])]
  <2> PICK h, g, s : h = heap /\ g = heap' /\ s = memory
    OBVIOUS
  <2>1. s \in Seq(FileIds) /\ i \in 1..Len(s)
        /\ \A k \in 1..Len(s) : k # i => FileIn(g, s[k]) = FileIn(h, s[k])
    BY <1>1, <1>10
  <2>2. FilesIn(g, s) = [FilesIn(h, s) EXCEPT ![i] = FileIn(g, s[i])]
    BY <2>1, FilesDiffer
  <2>3. QED
    BY <2>2
<1>12. FileIn(heap', memory[i]) = [FileIn(heap, memory[i]) EXCEPT !.bytes = @ + fr.arg]
  <2>1. heap'[fr.file] = [heap[fr.file] EXCEPT !.usedMemory = @ + fr.arg]
    BY <1>1, <1>9
  <2>2. QED
    BY <1>7, <1>9, <2>1 DEF FileIn, FileMemory
<1>13. DOMAIN Files = 1..Len(memory) /\ Files[i] = FileIn(heap, memory[i])
  BY <1>1, <1>4, FilesSeq
<1>14. Files' = [Files EXCEPT ![i] = [Files[i] EXCEPT !.bytes = @ + fr.arg]]
  BY <1>4, <1>5, <1>11, <1>12, <1>13
<1>15. C!Fits(Files')
  BY <1>3, FitsNext
<1>16. QED
  BY <1>4, <1>5, <1>6, <1>13, <1>14, <1>15, SectionFacts, CacheWrites

\* remove_generic_file begins.
LEMMA AsksCached ==
  ASSUME NEW w \in Workers, InSection(w), RemoveInMem(w)
  PROVE  Cached
<1> DEFINE fr == frame[w]
<1>1. /\ fr.pc = "remove_in" /\ PointersOK(fr) /\ memory' = memory /\ heap' = heap
      /\ frame'[w] = [fr EXCEPT !.pc = "find_in", !.op = "POP"]
      /\ memory \in Seq(FileIds) /\ fr \in Frames
  BY SectionFacts DEF RemoveInMem, At, JobInv, JobOK, storeVars, Become
<1>2. Plain(fr)
  BY <1>1 DEF Plain, Finding
<1>3. Asked = NULL /\ Files = FilesIn(heap, memory)
  BY <1>2, SectionFacts, PlainView
<1>4. frame'[w].pc = "find_in" /\ frame'[w].op = "POP" /\ frame'[w].filename = fr.filename
  BY <1>1 DEF Frames
<1>5. Asked' = fr.filename /\ Files' = FilesIn(heap', memory')
  BY <1>4, SectionFacts, ViewNext DEF Finding
<1>6. fr.file \in Listed /\ heap[fr.file].filename = fr.filename
  BY <1>1 DEF PointersOK
<1>7. PICK i \in 1..Len(memory) : memory[i] = fr.file
  BY <1>6, SectionFacts, StoreFacts
<1>8. DOMAIN Files = 1..Len(memory) /\ Files[i] = FileIn(heap, memory[i])
  <2>1. /\ DOMAIN FilesIn(heap, memory) = 1..Len(memory)
        /\ \A k \in 1..Len(memory) : FilesIn(heap, memory)[k] = FileIn(heap, memory[k])
    <3> PICK h, s : h = heap /\ s = memory
      OBVIOUS
    <3>1. s \in Seq(FileIds)
      BY <1>1
    <3>2. DOMAIN FilesIn(h, s) = 1..Len(s) /\ \A k \in 1..Len(s) : FilesIn(h, s)[k] = FileIn(h, s[k])
      BY <3>1, FilesSeq
    <3>3. QED
      BY <3>2
  <2>2. QED
    BY <1>3, <2>1
<1>9. Asked' = Files[i].name
  <2>1. FileIn(heap, memory[i]).name = heap[fr.file].filename
    BY <1>7 DEF FileIn
  <2>2. QED
    BY <1>5, <1>6, <1>8, <2>1
<1>10. QED
  BY <1>1, <1>3, <1>5, <1>8, <1>9, SectionFacts, CacheAsks

-----------------------------------------------------------------------------
(* Every step of the store is one of the cache, or none.                   *)

\* Every section of the one worker.
LEMMA SectionCached == ASSUME NEW w \in Workers, InSection(w) PROVE Cached
<1>1. Step(w) /\ IInv /\ JobInv(frame[w]) /\ server = "running"
  BY SectionFacts, StepRuns
<1>2. \/ server' = server
      \/ End("exited") /\ (Sending(frame[w]) \/ frame[w].pc = "add_check")
  BY <1>1, StepOn
<1>3. CASE End("exited") /\ (Sending(frame[w]) \/ frame[w].pc = "add_check")
  BY <1>3, EndCached
<1>4. CASE server' = server
  <2>1. ~SetFileClose(w) /\ ~ClosedJobFreed(w)
    BY <1>1 DEF SetFileClose, ClosedJobFreed, At, JobInv, JobOK, OpAt
  <2>2. ~OutOfMemory(w) /\ ~SetOpenOnNull(w) /\ ~RemoveFails(w) /\ ~SendFails(w) /\ ~Crash(w)
    BY <1>1, <1>4 DEF OutOfMemory, SetOpenOnNull, RemoveFails, SendFails, Crash, Exit, End
  <2>3. CASE \/ TakeJob(w) \/ OpenInMem(w) \/ IsActionLegal(w) \/ PlanFiles(w) \/ PlanMemory(w)
             \/ MoreFiles(w) \/ SubtractPopped(w) \/ AddCount(w) \/ ReadCheck(w) \/ RecvMessage(w)
             \/ WriteMeta(w) \/ CountFiles(w) \/ GetHead(w) \/ SendN(w) \/ SendNNext(w)
    BY <2>3, ReadsCached
  <2>4. CASE FindInMem(w) \/ FindScan(w) \/ FindPolicy(w)
    BY <2>4, LooksCached, FindPolicyCached
  <2>5. CASE PopFile(w) \/ FreeFile(w) \/ PopMemory(w) \/ FreeMemory(w)
    BY <2>5, EvictsCached, FreesCached
  <2>6. CASE AddCheck(w) \/ AddFirst(w) \/ AddHead(w) \/ SetFileOpen(w)
    BY <2>6, HeapCached, CreatesCached, OpensCached
  <2>7. CASE ReadLock(w) \/ ReadSend(w) \/ WriteFile(w)
    BY <2>7, HeapCached, WritesCached
  <2>8. CASE RemoveInMem(w) \/ RemovePop(w) \/ RemoveFree(w)
    BY <2>8, AsksCached, RemovePopCached, FreesCached
  <2>9. QED
    BY <1>1, <2>1, <2>2, <2>3, <2>4, <2>5, <2>6, <2>7, <2>8 DEF Step
<1>5. QED
  BY <1>2, <1>3, <1>4

\* A step that leaves the list, the files and the worker as they are.
LEMMA SameView ==
  ASSUME UNCHANGED <<memory, heap, frame>>
  PROVE  Files' = Files /\ Asked' = Asked
<1>1. Removing' = Removing
  BY DEF Removing
<1>2. Visible' = Visible
  BY <1>1 DEF Visible
<1>3. QED
  BY <1>2 DEF Files, AsFile, Asked

\* The server is told to stop.
LEMMA StopCached == ASSUME OneInv, StopGracefully \/ StopAtOnce PROVE Cached
<1>1. UNCHANGED <<memory, heap, frame, policy>> /\ mode' \in {"GRACEFUL", "OFF"} /\ main.pc = "select"
  BY DEF StopGracefully, StopAtOnce, Stop, vars
<1>2. mode = "ON"
  BY <1>1 DEF OneInv, MainOK
<1>3. QED
  BY <1>1, <1>2, SameView, CacheStops

\* What the cache shows while main is alone, and when it has taken a step.
LEMMA AloneView ==
  ASSUME OneInv, mode = "GRACEFUL", frame' = frame, memory' \in Seq(FileIds)
  PROVE  /\ memory \in Seq(FileIds) /\ Asked = NULL /\ Files = FilesIn(heap, memory)
         /\ Asked' = NULL /\ Files' = FilesIn(heap', memory')
<1>1. memory \in Seq(FileIds)
  BY AloneFacts DEF IInv, TypeOK
<1>2. \A w \in Workers : Plain(frame[w]) /\ Plain(frame'[w])
  BY AloneFacts DEF Plain, Finding
<1>3. QED
  BY <1>1, <1>2, PlainView, ViewNext

\* clean_cache frees a file that is in the list no more.
LEMMA CleanFreeCached == ASSUME OneInv, mode = "GRACEFUL", CleanFree PROVE Cached
<1>1. main.pc = "clean_free" /\ UNCHANGED <<memory, policy, frame, mode>>
  BY DEF CleanFree, MainIs, MainGoes, lists
<1>2. IInv /\ lost = {} /\ FreedOnce /\ memory \in Seq(FileIds)
  BY AloneFacts DEF OneInv, SInv, IInv, TypeOK
<1>3. PICK x : x = main.node
  OBVIOUS
<1>4. heap' = heap \/ (x # NULL /\ heap' = [heap EXCEPT ![x] = NULL])
  BY <1>3 DEF CleanFree, Free
<1>5. x \notin Listed \/ x = NULL
  BY <1>1, <1>2, <1>3 DEF FreedOnce, Linked
<1>6. \A i \in 1..Len(memory) : memory[i] \in Listed /\ memory[i] \in FileIds
  BY <1>2, StoreFacts, ElementOfSeq
<1>7. heap \in [FileIds -> FileMemory \cup {NULL}]
  BY <1>2 DEF IInv, TypeOK
<1>8. ASSUME NEW i \in 1..Len(memory) PROVE FileIn(heap', memory[i]) = FileIn(heap, memory[i])
  <2>1. heap'[memory[i]] = heap[memory[i]]
    BY <1>4, <1>5, <1>6, <1>7
  <2>2. QED
    BY <2>1 DEF FileIn
<1>9. FilesIn(heap', memory) = FilesIn(heap, memory)
  BY <1>8, FilesAlike
<1>10. QED
  BY <1>1, <1>2, <1>9, AloneView, CacheStutters

\* clean_cache drops the head.
LEMMA CleanPopCached == ASSUME OneInv, mode = "GRACEFUL", CleanPop PROVE Cached
<1>1. main.pc = "clean_pop" /\ UNCHANGED <<heap, policy, frame, mode>>
  BY DEF CleanPop, MainIs, MainGoes
<1>2. memory # <<>>
  BY <1>1 DEF OneInv, MainOK
<1>3. memory' = Tail(memory)
  BY <1>2 DEF CleanPop, PopHead
<1>4. memory \in Seq(FileIds) /\ memory' \in Seq(FileIds)
  BY <1>2, <1>3, AloneFacts, HeadTailProperties DEF IInv, TypeOK
<1> PICK h, s : h = heap /\ s = memory
  OBVIOUS
<1>5. s \in Seq(FileIds) /\ s # <<>>
  BY <1>2, <1>4
<1> PICK u : u = FilesIn(h, s)
  OBVIOUS
<1>6. Len(s) \in Nat \ {0} /\ Tail(s) = C!Without(s, 1)
  BY <1>5, TailPlaces
<1>7. 1 \in 1..Len(s)
  BY <1>6
<1>8. FilesIn(h, Tail(s)) = C!Without(u, 1)
  BY <1>5, <1>6, <1>7, FilesWithout
<1> DEFINE R == {FileIn(h, f) : f \in FileIds}
<1>9. u \in Seq(R) /\ Len(u) = Len(s)
  BY <1>5, FilesSeq
<1> HIDE DEF R
<1>10. u # <<>>
  BY <1>6, <1>9, EmptySeq
<1>11. Tail(u) = C!Without(u, 1)
  BY <1>9, <1>10, TailPlaces
<1>12. Files = u /\ Files' = Tail(u) /\ Asked' = Asked
  BY <1>1, <1>3, <1>4, <1>8, <1>11, AloneView
<1>13. QED
  BY <1>1, <1>10, <1>12, CacheDrops

\* The other steps of main in a graceful end.
LEMMA GracefulCached ==
  ASSUME OneInv, mode = "GRACEFUL", PrintHead \/ PrintTest \/ PrintNext \/ CleanTest \/ Return
  PROVE  Cached
<1>1. UNCHANGED <<memory, heap, policy, mode>>
  BY DEF PrintHead, PrintTest, PrintNext, CleanTest, Return, MainGoes, End, storeVars
<1>2. frame' = frame
  <2>1. CASE Return
    <3>1. frame' = [w \in Workers |-> Idle]
      BY <2>1 DEF Return, End
    <3>2. frame \in [Workers -> Frames] /\ \A w \in Workers : frame[w] = Idle
      BY AloneFacts DEF IInv, TypeOK
    <3>3. frame = [w \in Workers |-> Idle]
      BY <3>2
    <3>4. QED
      BY <3>1, <3>3
  <2>2. CASE PrintHead \/ PrintTest \/ PrintNext \/ CleanTest
    BY <2>2 DEF PrintHead, PrintTest, PrintNext, CleanTest, MainGoes
  <2>3. QED
    BY <2>1, <2>2
<1>3. QED
  BY <1>1, <1>2, SameView, CacheStutters

\* After a stop at once the cache promises nothing.
LEMMA OffCached == ASSUME mode = "OFF", (\E w \in Workers : WorkerStep(w)) \/ MainStep PROVE Cached
<1>1. mode' = mode
  BY DEF WorkerStep, MainStep, PrintHead, PrintTest, PrintNext, PrintFollowsBadPointer, CleanTest, Return,
         CleanPop, CleanFree, MainGoes
<1>2. CASE \E w \in Workers : WorkerStep(w)
  BY <1>1, <1>2, PolicyStays, CacheIsOff DEF WorkerStep
<1>3. CASE MainStep
  <2>1. policy' = policy
    BY <1>3 DEF MainStep, PrintHead, PrintTest, PrintNext, PrintFollowsBadPointer, CleanTest, Return,
                CleanPop, CleanFree, End, storeVars
  <2>2. QED
    BY <1>1, <2>1, CacheIsOff
<1>4. QED
  BY <1>2, <1>3

\* Every step.
LEMMA NextCached == ASSUME OneInv, OneInv', [SystemNext]_system PROVE Cached
<1>1. mode \in {"ON", "GRACEFUL", "OFF"}
  BY DEF OneInv, MainOK
<1>2. CASE UNCHANGED system \/ SystemEnded
  <2>1. UNCHANGED <<memory, heap, frame, policy, mode>>
    BY <1>2 DEF SystemEnded, system, vars
  <2>2. QED
    BY <2>1, SameView, CacheStutters
<1>3. CASE StopGracefully \/ StopAtOnce
  BY <1>3, StopCached
<1>4. CASE mode = "OFF" /\ ((\E w \in Workers : WorkerStep(w)) \/ MainStep)
  BY <1>4, OffCached
<1>5. ASSUME NEW w \in Workers, WorkerStep(w), mode = "ON" PROVE Cached
  BY <1>5, SectionCached DEF InSection
<1>6. ASSUME NEW w \in Workers, WorkerStep(w) PROVE mode # "GRACEFUL"
  BY <1>6, AloneFacts DEF WorkerStep
<1>7. MainStep => mode # "ON"
  BY DEF MainStep, PrintHead, PrintTest, PrintNext, PrintFollowsBadPointer, CleanTest, Return,
         CleanPop, CleanFree, MainIs, Stopping, OneInv, MainOK
<1>8. CASE mode = "GRACEFUL" /\ MainStep
  BY <1>8, PrintBadKeepsOne, GracefulCached, CleanPopCached, CleanFreeCached DEF MainStep
<1>9. QED
  BY <1>1, <1>2, <1>3, <1>4, <1>5, <1>6, <1>7, <1>8 DEF SystemNext

\* No list, no files.
LEMMA FilesOfNone == ASSUME NEW h PROVE FilesIn(h, <<>>) = <<>>
<1> PICK s : s = <<>>
  OBVIOUS
<1>1. s \in Seq(FileIds) /\ Len(s) = 0
  BY EmptySeq
<1>2. FilesIn(h, s) \in Seq({FileIn(h, f) : f \in FileIds}) /\ Len(FilesIn(h, s)) = 0
  BY <1>1, FilesSeq
<1> PICK t, R : t = FilesIn(h, s) /\ R = {FileIn(h, f) : f \in FileIds}
  OBVIOUS
<1>3. t = <<>>
  BY <1>2, EmptySeq
<1>4. QED
  BY <1>3

\* The empty store is the empty cache.
LEMMA CacheAtFirst == SystemInit => C!Init
<1> SUFFICES ASSUME SystemInit PROVE C!Init
  OBVIOUS
<1>1. memory = <<>> /\ policy \in Policies /\ mode = "ON" /\ \A w \in Workers : frame[w] = Idle
  BY DEF SystemInit, Init, MemoryInit
<1>2. memory \in Seq(FileIds) /\ \A w \in Workers : Plain(frame[w])
  BY <1>1, IdleOK, EmptySeq DEF Plain, Finding
<1>3. Asked = NULL /\ Files = FilesIn(heap, <<>>)
  BY <1>1, <1>2, PlainView
<1>4. FilesIn(heap, <<>>) = <<>>
  BY FilesOfNone
<1>5. QED
  BY <1>1, <1>3, <1>4 DEF C!Init, Files

\* With one worker the store is the cache: names are distinct, both limits
\* hold, only the oldest file is evicted and only for want of room, a removal
\* takes the file it was asked to, and under FIFO no lookup changes the order.
THEOREM StoreIsCache == SystemSpec => ImplementsCache
<1>1. OneInv /\ OneInv' /\ [SystemNext]_system => [C!Next]_(C!vars)
  BY NextCached DEF Cached
<1>2. QED
  BY <1>1, CacheAtFirst, OneInvariant, PTL DEF SystemSpec, ImplementsCache, C!Spec

=============================================================================
