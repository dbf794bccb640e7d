---------------------------- MODULE ServerProofs -----------------------------
(***************************************************************************)
(* Proofs about Server.tla, for any workers, connections, signals and      *)
(* requests.  The invariants compare cardinalities: those of sets of       *)
(* workers of which one moves at a time, and of sets of positions in lists *)
(* that grow at one end and shrink at the other.                           *)
(***************************************************************************)
EXTENDS Server, SequenceTheorems, FiniteSetTheorems, TLAPS

-----------------------------------------------------------------------------
(* Counting.                                                               *)

\* Two sets that differ in one element at most.
LEMMA OneElement ==
  ASSUME NEW A, NEW B, NEW w, IsFiniteSet(A), A \ {w} = B \ {w}
  PROVE  /\ IsFiniteSet(B)
         /\ Cardinality(A) \in Nat /\ Cardinality(B) \in Nat
         /\ w \in A /\ w \in B => Cardinality(B) = Cardinality(A)
         /\ w \in A /\ w \notin B => Cardinality(B) = Cardinality(A) - 1
         /\ w \notin A /\ w \in B => Cardinality(B) = Cardinality(A) + 1
         /\ w \notin A /\ w \notin B => Cardinality(B) = Cardinality(A)
<1> DEFINE C == A \ {w}
<1>1. IsFiniteSet(C) /\ Cardinality(C) = IF w \in A THEN Cardinality(A) - 1 ELSE Cardinality(A)
  BY FS_RemoveElement
<1>2. Cardinality(A) \in Nat /\ Cardinality(C) \in Nat
  BY <1>1, FS_CardinalityType
<1>3. CASE w \in B
  <2>1. B = C \cup {w} /\ w \notin C
    BY <1>3
  <2>2. IsFiniteSet(B) /\ Cardinality(B) = Cardinality(C) + 1
    BY <1>1, <2>1, FS_AddElement
  <2>3. QED
    BY <1>1, <1>2, <1>3, <2>2
<1>4. CASE w \notin B
  <2>1. B = C
    BY <1>4
  <2>2. QED
    BY <1>1, <1>2, <1>4, <2>1
<1>5. QED
  BY <1>3, <1>4

\* The elements of a list that are in K, and how many they are.
Positions(s, K) == {i \in DOMAIN s : s[i] \in K}
Count(s, K) == Cardinality(Positions(s, K))

\* The positions of a list that are in K are finitely many.
LEMMA CountType ==
  ASSUME NEW S, NEW s \in Seq(S), NEW K
  PROVE  IsFiniteSet(Positions(s, K)) /\ Count(s, K) \in Nat
<1>1. IsFiniteSet(1..Len(s)) /\ Len(s) \in Nat /\ DOMAIN s = 1..Len(s)
  BY FS_Interval, LenProperties
<1>2. IsFiniteSet(Positions(s, K))
  BY <1>1, FS_Subset, Positions(s, K) \in SUBSET (1..Len(s)) DEF Positions
<1>3. QED
  BY <1>2, FS_CardinalityType DEF Count

\* What push_q does to a count.
LEMMA CountAppend ==
  ASSUME NEW S, NEW s \in Seq(S), NEW e \in S, NEW K
  PROVE  Count(Append(s, e), K) = Count(s, K) + IF e \in K THEN 1 ELSE 0
<1> DEFINE n == Len(s) + 1
           t == Append(s, e)
<1>1. /\ Len(s) \in Nat /\ DOMAIN s = 1..Len(s)
      /\ DOMAIN t = 1..n /\ t[n] = e
      /\ \A i \in 1..Len(s) : t[i] = s[i]
  BY AppendProperties, LenProperties
<1> HIDE DEF t
<1>2. n \notin Positions(s, K) /\ (n \in Positions(t, K) <=> e \in K)
  BY <1>1 DEF Positions
<1>3. Positions(s, K) \ {n} = Positions(t, K) \ {n}
  BY <1>1 DEF Positions
<1>4. QED
  BY <1>2, <1>3, CountType, OneElement DEF Count, t

\* What pop_q does to a count: the positions of the rest are those of the list
\* but the first, one less each.
LEMMA CountTail ==
  ASSUME NEW S, NEW s \in Seq(S), s # <<>>, NEW K
  PROVE  /\ Count(s, K) = Count(Tail(s), K) + IF Head(s) \in K THEN 1 ELSE 0
         /\ Head(s) \notin K => Count(s, K) = Count(Tail(s), K)
<1> DEFINE t == Tail(s)
           P == Positions(s, K) \ {1}
           f == [i \in P |-> i - 1]
<1>1. /\ Len(s) \in Nat \ {0} /\ DOMAIN s = 1..Len(s) /\ Head(s) = s[1]
      /\ t \in Seq(S) /\ DOMAIN t = 1..(Len(s) - 1)
      /\ \A i \in 1..(Len(s) - 1) : t[i] = s[i + 1]
  BY HeadTailProperties, LenProperties, EmptySeq
<1> HIDE DEF t
<1>2. \A i \in P : i - 1 \in Positions(t, K)
  BY <1>1 DEF Positions
<1>3. \A j \in Positions(t, K) : j + 1 \in P /\ (j + 1) - 1 = j
  BY <1>1 DEF Positions
<1>4. \A i, j \in P : i - 1 = j - 1 => i = j
  BY <1>1 DEF Positions
<1>5. f \in Bijection(P, Positions(t, K))
  BY <1>2, <1>3, <1>4 DEF Bijection, Injection, Surjection, IsInjective
<1>6. IsFiniteSet(P)
  BY CountType, FS_RemoveElement
<1>7. Cardinality(P) = Count(t, K)
  BY <1>5, <1>6, FS_Bijection DEF ExistsBijection, Count
<1>8. Count(s, K) = Cardinality(P) + IF 1 \in Positions(s, K) THEN 1 ELSE 0
  <2>1. IsFiniteSet(Positions(s, K)) /\ Count(s, K) \in Nat
    BY CountType
  <2>2. Cardinality(P) = IF 1 \in Positions(s, K) THEN Count(s, K) - 1 ELSE Count(s, K)
    BY <2>1, FS_RemoveElement DEF Count
  <2>3. QED
    BY <2>1, <2>2
<1>9. 1 \in Positions(s, K) <=> Head(s) \in K
  BY <1>1 DEF Positions
<1>10. Count(t, K) \in Nat
  BY <1>1, CountType
<1>11. QED
  BY <1>7, <1>8, <1>9, <1>10 DEF t

-----------------------------------------------------------------------------
(* Types.                                                                  *)

\* What a client waits for, and the job that is none of a client's.
LEMMA JobFacts ==
  /\ "END_WORKER" \notin Asked /\ Again \notin Asked
  /\ NoClient \notin Clients
  /\ NoJob \in Jobs /\ NoJob.op = "END_WORKER" /\ NoJob.client = NoClient
  /\ \A j \in Jobs : /\ j # NoJob => j.op \in Asked /\ j.client \in Clients
                     /\ j.client \in Clients => j # NoJob /\ j.op \in Asked
                     /\ j.op = "END_WORKER" => j = NoJob
BY ServerAssumption DEF Requests, Jobs, NoJob, Job, NoClient, Again

\* The pool has a size.
LEMMA FiniteWorkers == IsFiniteSet(Workers) /\ Cardinality(Workers) \in Nat
BY ServerAssumption, FS_CardinalityType

\* The types hold before main creates a worker.
LEMMA InitType == Init => TypeOK
BY JobFacts, FiniteWorkers DEF Init, TypeOK

\* Every action keeps the types.  A job that a worker carries out is one of a
\* client, so that there is a list for its answer.
LEMMA TypeStep ==
  ASSUME TypeOK, ServesAJob, [Next]_vars
  PROVE  TypeOK'
<1> USE JobFacts, FiniteWorkers DEF TypeOK, mainVars, poolVars, clientVars
<1>1. CASE UNCHANGED vars
  BY <1>1 DEF vars
<1>2. CASE MainStep
  <2>1. CASE Spawned \/ Flooded \/ WaitOnWorkers \/ Clean
    BY <2>1 DEF Spawned, Flooded, WaitOnWorkers, Clean
  <2>2. CASE Deliver
    BY <2>2 DEF Deliver
  <2>3. CASE Flood
    BY <2>3 DEF Flood
  <2>4. QED
    BY <1>2, <2>1, <2>2, <2>3 DEF MainStep
<1>3. ASSUME NEW w \in Workers, WorkerStep(w) \/ InJob(w)
      PROVE  TypeOK'
  <2>1. CASE Spawn(w) \/ WorkerAdd(w) \/ Loop(w) \/ UseFreedJob(w) \/ JobFails(w)
    <3>1. CASE Spawn(w) \/ UseFreedJob(w) \/ JobFails(w)
      BY <3>1 DEF Spawn, UseFreedJob, JobFails
    <3>2. CASE WorkerAdd(w)
      BY <3>2 DEF WorkerAdd
    <3>3. CASE Loop(w)
      BY <3>3 DEF Loop
    <3>4. QED
      BY <2>1, <3>1, <3>2, <3>3
  <2>2. CASE Pop(w)
    <3>1. Head(workList) \in Jobs /\ Tail(workList) \in Seq(Jobs)
      BY <2>2 DEF Pop
    <3>2. QED
      BY <2>2, <3>1 DEF Pop
  <2>3. CASE Dispatch(w)
    <3>1. CASE Leave(w)
      BY <2>3, <3>1 DEF Dispatch, Leave
    <3>2. CASE worker' = [worker EXCEPT ![w] = "busy"] /\ UNCHANGED <<serving, workerCounter>>
      BY <2>3, <3>2 DEF Dispatch
    <3>3. QED
      BY <2>3, <3>1, <3>2 DEF Dispatch
  <2>4. CASE Serve(w) \/ ServeAgain(w)
    <3>1. serving[w].client \in Clients /\ serving[w].op \in Asked
      BY <2>4 DEF Serve, ServeAgain, ServesAJob
    <3>2. \A a \in {serving[w].op, Again} :
            Append(answers[serving[w].client], a) \in Seq(Asked \cup {Again})
      BY <3>1, AppendProperties
    <3>3. PICK a \in {serving[w].op, Again} :
            answers' = [answers EXCEPT ![serving[w].client] = Append(@, a)]
      BY <2>4 DEF Serve, ServeAgain
    <3>4. answers' \in [Clients -> Seq(Asked \cup {Again})]
      BY <3>1, <3>2, <3>3
    <3>5. /\ serving' = serving \/ serving' = [serving EXCEPT ![w] = NoJob]
          /\ \E pc \in {"loop", "again"} : worker' = [worker EXCEPT ![w] = pc]
      BY <2>4 DEF Serve, ServeAgain
    <3>6. QED
      BY <2>4, <3>4, <3>5 DEF Serve, ServeAgain
  <2>5. QED
    BY <1>3, <2>1, <2>2, <2>3, <2>4 DEF WorkerStep, InJob
<1>4. ASSUME NEW c \in Clients, ThreadStep(c) \/ ClientStep(c)
      PROVE  TypeOK'
  <2>1. CASE StartThread(c) \/ ReadNext(c) \/ AnswerFreed(c) \/ NameTooLong(c) \/ Accept(c) \/ ReadFails(c)
    BY <2>1 DEF StartThread, ReadNext, AnswerFreed, NameTooLong, Accept, ReadFails
  <2>2. CASE Answer(c)
    <3>1. Tail(answers[c]) \in Seq(Asked \cup {Again})
      BY <2>2 DEF Answer
    <3>2. QED
      BY <2>2, <3>1 DEF Answer
  <2>3. CASE Request(c)
    <3>1. PICK op \in Asked : workList' = Append(workList, Job(op, c))
      BY <2>3 DEF Request
    <3>2. Job(op, c) \in Jobs
      BY DEF Job, Jobs
    <3>3. QED
      BY <2>3, <3>1, <3>2 DEF Request
  <2>4. QED
    BY <1>4, <2>1, <2>2, <2>3 DEF ThreadStep, ClientStep
<1>5. ASSUME NEW s \in Signals, Arrive(s)
      PROVE  TypeOK'
  BY <1>5 DEF Arrive
<1>6. QED
  BY <1>1, <1>2, <1>3, <1>4, <1>5 DEF Next, ClientStep

-----------------------------------------------------------------------------
(* Where main is, and what workers have.                                   *)

\* Every action keeps the mode and the number to flood in step with main.
LEMMA ModeStep ==
  ASSUME TypeOK, ModeOfMain, [Next]_vars
  PROVE  ModeOfMain'
<1> USE FiniteWorkers DEF TypeOK, ModeOfMain, mainVars, poolVars, clientVars
<1>1. CASE UNCHANGED vars
  BY <1>1 DEF vars
<1>2. CASE MainStep
  BY <1>2 DEF MainStep, Spawned, Deliver, Flood, Flooded, WaitOnWorkers, Clean
<1>3. ASSUME NEW w \in Workers, WorkerStep(w) \/ InJob(w)
      PROVE  ModeOfMain'
  BY <1>3 DEF WorkerStep, InJob, Spawn, WorkerAdd, Loop, Pop, Dispatch, Serve, ServeAgain, UseFreedJob, JobFails
<1>4. ASSUME NEW c \in Clients, ThreadStep(c) \/ ClientStep(c)
      PROVE  ModeOfMain'
  BY <1>4 DEF ThreadStep, ClientStep, StartThread, ReadNext, Answer, AnswerFreed, NameTooLong, Accept, Request, ReadFails
<1>5. ASSUME NEW s \in Signals, Arrive(s)
      PROVE  ModeOfMain'
  BY <1>5 DEF Arrive
<1>6. QED
  BY <1>1, <1>2, <1>3, <1>4, <1>5 DEF Next, ClientStep

\* The steps of main, of clients and of signals leave the pool alone.
LEMMA PoolStays ==
  ASSUME TypeOK, ModeOfMain,
         \/ UNCHANGED vars
         \/ MainStep
         \/ \E s \in Signals : Arrive(s)
         \/ \E c \in Clients : \/ StartThread(c) \/ ReadNext(c) \/ AnswerFreed(c) \/ NameTooLong(c)
                               \/ Accept(c) \/ Request(c) \/ ReadFails(c)
  PROVE  /\ UNCHANGED <<worker, serving, workerCounter>>
         /\ serverMode = "OFF" => serverMode' = "OFF"
<1> USE DEF TypeOK, ModeOfMain, mainVars, poolVars, clientVars
<1>1. CASE UNCHANGED vars
  BY <1>1 DEF vars
<1>2. CASE MainStep
  BY <1>2 DEF MainStep, Spawned, Deliver, Flood, Flooded, WaitOnWorkers, Clean
<1>3. CASE \E s \in Signals : Arrive(s)
  BY <1>3 DEF Arrive
<1>4. CASE \E c \in Clients : \/ StartThread(c) \/ ReadNext(c) \/ AnswerFreed(c) \/ NameTooLong(c)
                             \/ Accept(c) \/ Request(c) \/ ReadFails(c)
  BY <1>4 DEF StartThread, ReadNext, AnswerFreed, NameTooLong, Accept, Request, ReadFails
<1>5. QED
  BY <1>1, <1>2, <1>3, <1>4

\* The other steps, one by one.
LEMMA PoolMoves ==
  ASSUME [Next]_vars
  PROVE  \/ UNCHANGED vars
         \/ MainStep
         \/ \E s \in Signals : Arrive(s)
         \/ \E c \in Clients : \/ StartThread(c) \/ ReadNext(c) \/ AnswerFreed(c) \/ NameTooLong(c)
                               \/ Accept(c) \/ Request(c) \/ ReadFails(c)
         \/ \E w \in Workers : WorkerStep(w) \/ InJob(w)
         \/ \E c \in Clients : Answer(c)
BY DEF Next, ClientStep, ThreadStep

\* A worker gets a job at Pop and has none left when it loops or ends.
LEMMA JobStep ==
  ASSUME TypeOK, ModeOfMain, ServesAJob, [Next]_vars
  PROVE  ServesAJob'
<1> USE JobFacts DEF TypeOK, ServesAJob, mainVars, poolVars, clientVars
<1>1. ASSUME UNCHANGED <<worker, serving, workerCounter>>
      PROVE  ServesAJob'
  BY <1>1
<1>2. ASSUME NEW w \in Workers, WorkerStep(w) \/ InJob(w)
      PROVE  ServesAJob'
  <2>1. CASE Spawn(w) \/ WorkerAdd(w) \/ Loop(w) \/ UseFreedJob(w) \/ JobFails(w)
    BY <2>1 DEF Spawn, WorkerAdd, Loop, UseFreedJob, JobFails
  <2>2. CASE Pop(w)
    BY <2>2 DEF Pop
  <2>3. CASE Dispatch(w)
    BY <2>3 DEF Dispatch, Leave
  <2>4. CASE Serve(w) \/ ServeAgain(w)
    BY <2>4 DEF Serve, ServeAgain
  <2>5. QED
    BY <1>2, <2>1, <2>2, <2>3, <2>4 DEF WorkerStep, InJob
<1>3. ASSUME NEW c \in Clients, Answer(c)
      PROVE  ServesAJob'
  BY <1>3 DEF Answer
<1>4. QED
  BY <1>1, <1>2, <1>3, PoolStays, PoolMoves

-----------------------------------------------------------------------------
(* workerCounter.                                                          *)

RegisteredWorkers == {w \in Workers : Registered(w)}

\* worker_add and worker_sub change the counter with the set it counts.
LEMMA CountsStep ==
  ASSUME TypeOK, ModeOfMain, ServesAJob, CountsWorkers, [Next]_vars
  PROVE  CountsWorkers'
<1> USE DEF TypeOK, CountsWorkers, RegisteredWorkers, mainVars, poolVars, clientVars
<1>1. IsFiniteSet(RegisteredWorkers)
  BY FiniteWorkers, FS_Subset, RegisteredWorkers \in SUBSET Workers
<1>2. ASSUME RegisteredWorkers' = RegisteredWorkers, workerCounter' = workerCounter,
             serverMode = "OFF" => serverMode' = "OFF"
      PROVE  CountsWorkers'
  BY <1>2
<1>3. ASSUME UNCHANGED <<worker, serving, workerCounter>>
      PROVE  RegisteredWorkers' = RegisteredWorkers
  BY <1>3 DEF Registered
<1>4. ASSUME NEW w \in Workers, WorkerStep(w) \/ InJob(w)
      PROVE  CountsWorkers'
  <2>1. CASE Spawn(w) \/ Pop(w) \/ Serve(w) \/ ServeAgain(w) \/ UseFreedJob(w) \/ JobFails(w)
    <3>1. RegisteredWorkers' = RegisteredWorkers
      BY <2>1 DEF Spawn, Pop, Serve, ServeAgain, UseFreedJob, JobFails, Registered
    <3>2. UNCHANGED <<workerCounter, serverMode>>
      BY <2>1 DEF Spawn, Pop, Serve, ServeAgain, UseFreedJob, JobFails
    <3>3. QED
      BY <1>2, <3>1, <3>2
  <2>2. CASE Loop(w)
    <3>1. UNCHANGED <<workerCounter, serverMode>>
      BY <2>2 DEF Loop
    <3>2. CASE serverMode = "OFF"
      BY <3>1, <3>2
    <3>3. CASE serverMode # "OFF"
      BY <1>2, <2>2, <3>1, <3>3 DEF Loop, Registered
    <3>4. QED
      BY <3>2, <3>3
  <2>3. CASE WorkerAdd(w)
    <3>1. /\ w \notin RegisteredWorkers /\ w \in RegisteredWorkers'
          /\ RegisteredWorkers \ {w} = RegisteredWorkers' \ {w}
      BY <2>3 DEF WorkerAdd, Registered
    <3>2. Cardinality(RegisteredWorkers') = Cardinality(RegisteredWorkers) + 1
      BY <1>1, <3>1, OneElement
    <3>3. QED
      BY <2>3, <3>2 DEF WorkerAdd
  <2>4. CASE Dispatch(w)
    <3>1. CASE Leave(w)
      <4>1. /\ w \in RegisteredWorkers /\ w \notin RegisteredWorkers'
            /\ RegisteredWorkers \ {w} = RegisteredWorkers' \ {w}
        BY <2>4, <3>1 DEF Dispatch, Leave, Registered
      <4>2. /\ Cardinality(RegisteredWorkers') = Cardinality(RegisteredWorkers) - 1
            /\ Cardinality(RegisteredWorkers') \in Nat
        BY <1>1, <4>1, OneElement
      <4>3. QED
        BY <2>4, <3>1, <4>2 DEF Dispatch, Leave
    <3>2. CASE ~Leave(w)
      BY <1>2, <2>4, <3>2 DEF Dispatch, Registered
    <3>3. QED
      BY <3>1, <3>2
  <2>5. QED
    BY <1>4, <2>1, <2>2, <2>3, <2>4 DEF WorkerStep, InJob
<1>5. ASSUME NEW c \in Clients, Answer(c)
      PROVE  CountsWorkers'
  BY <1>2, <1>5 DEF Answer, Registered
<1>6. QED
  BY <1>2, <1>3, <1>4, <1>5, PoolStays, PoolMoves

-----------------------------------------------------------------------------
(* END_WORKER jobs.  The sets that EndsToCome counts, of any pool pc with  *)
(* the jobs sv, and any list.                                              *)

NotEnded(pc) == {w \in Workers : pc[w] # "ended"}
AboutToEnd(pc, sv) == {w \in Workers : pc[w] = "popped" /\ sv[w].op = "END_WORKER"}
Ends(list) == Count(list, {NoJob})

\* The three sets are finite, and the third counts positions of the list.
LEMMA EndSets ==
  ASSUME NEW pc, NEW sv, NEW list \in Seq(Jobs)
  PROVE  /\ IsFiniteSet(NotEnded(pc)) /\ Cardinality(NotEnded(pc)) \in Nat
         /\ IsFiniteSet(AboutToEnd(pc, sv)) /\ Cardinality(AboutToEnd(pc, sv)) \in Nat
         /\ Cardinality({i \in DOMAIN list : list[i].op = "END_WORKER"}) = Ends(list)
         /\ Ends(list) \in Nat
<1>1. NotEnded(pc) \in SUBSET Workers /\ AboutToEnd(pc, sv) \in SUBSET Workers
  BY DEF NotEnded, AboutToEnd
<1>2. \A i \in DOMAIN list : list[i] \in Jobs
  BY ElementOfSeq, LenProperties
<1>3. {i \in DOMAIN list : list[i].op = "END_WORKER"} = Positions(list, {NoJob})
  BY <1>2, JobFacts DEF Positions
<1>4. IsFiniteSet(NotEnded(pc)) /\ IsFiniteSet(AboutToEnd(pc, sv))
  BY <1>1, FiniteWorkers, FS_Subset
<1>5. QED
  BY <1>3, <1>4, FS_CardinalityType, CountType DEF Count, Ends

\* The arithmetic of a worker that leaves.
LEMMA OneLess ==
  ASSUME NEW n \in Nat, NEW e \in Nat, NEW a \in Nat, NEW b \in Nat, NEW f \in Nat,
         n <= e + a + f, a <= b + 1
  PROVE  n - 1 <= e + b + f
OBVIOUS

\* Every action keeps the balance of workers left and END_WORKERs to come.
LEMMA EndsStep ==
  ASSUME TypeOK, TypeOK', ModeOfMain, ServesAJob, EndsToCome, [Next]_vars
  PROVE  EndsToCome'
<1> DEFINE N == Cardinality(NotEnded(worker))
           E == Ends(workList)
           A == Cardinality(AboutToEnd(worker, serving))
           Numbered == main \in {"spawn", "select", "flood", "wait"}
<1>1. /\ N \in Nat /\ E \in Nat /\ A \in Nat /\ toFlood \in Nat
      /\ N' \in Nat /\ E' \in Nat /\ A' \in Nat /\ toFlood' \in Nat
  BY EndSets DEF TypeOK
<1>2. Numbered => N <= E + A + toFlood
  BY EndSets DEF TypeOK, EndsToCome, NotEnded, AboutToEnd
<1>3. SUFFICES Numbered' => N' <= E' + A' + toFlood'
  BY EndSets DEF TypeOK, EndsToCome, NotEnded, AboutToEnd
<1>4. /\ worker' = worker /\ serving' = serving => N' = N /\ A' = A
      /\ workList' = workList => E' = E
  OBVIOUS
<1> HIDE DEF N, E, A
<1>0. IsFiniteSet(NotEnded(worker)) /\ IsFiniteSet(AboutToEnd(worker, serving))
  BY EndSets DEF TypeOK
<1> USE JobFacts DEF mainVars, poolVars, clientVars
<1>5. CASE UNCHANGED vars
  BY <1>1, <1>2, <1>4, <1>5 DEF vars
<1>6. CASE Spawned \/ Deliver \/ Flooded \/ WaitOnWorkers \/ Clean
  BY <1>1, <1>2, <1>4, <1>6 DEF Spawned, Deliver, Flooded, WaitOnWorkers, Clean
<1>7. CASE Flood
  <2>1. E' = E + 1
    BY <1>7, CountAppend DEF Flood, E, Ends, TypeOK
  <2>2. QED
    BY <1>1, <1>2, <1>4, <1>7, <2>1 DEF Flood
<1>8. ASSUME NEW w \in Workers, WorkerStep(w) \/ InJob(w)
      PROVE  Numbered' => N' <= E' + A' + toFlood'
  <2>0. toFlood' = toFlood /\ (Numbered' => Numbered)
    BY <1>8 DEF WorkerStep, InJob, Spawn, WorkerAdd, Loop, Pop, Dispatch, Serve, ServeAgain, UseFreedJob, JobFails
  <2>1. CASE Spawn(w) \/ WorkerAdd(w) \/ Serve(w) \/ ServeAgain(w) \/ UseFreedJob(w) \/ JobFails(w)
    <3>1. NotEnded(worker') = NotEnded(worker) /\ AboutToEnd(worker', serving') = AboutToEnd(worker, serving)
      BY <2>1 DEF Spawn, WorkerAdd, Serve, ServeAgain, UseFreedJob, JobFails, NotEnded, AboutToEnd, TypeOK
    <3>2. workList' = workList
      BY <2>1 DEF Spawn, WorkerAdd, Serve, ServeAgain, UseFreedJob, JobFails
    <3>3. QED
      BY <1>1, <1>2, <1>4, <2>0, <3>1, <3>2 DEF N, A
  <2>2. CASE Loop(w)
    <3>1. /\ AboutToEnd(worker', serving') = AboutToEnd(worker, serving)
          /\ w \in NotEnded(worker)
          /\ NotEnded(worker) \ {w} = NotEnded(worker') \ {w}
          /\ workList' = workList
      BY <2>2 DEF Loop, NotEnded, AboutToEnd, TypeOK
    <3>2. N' <= N
      <4>1. CASE w \in NotEnded(worker')
        BY <1>0, <1>1, <3>1, <4>1, OneElement DEF N
      <4>2. CASE w \notin NotEnded(worker')
        BY <1>0, <1>1, <3>1, <4>2, OneElement DEF N
      <4>3. QED
        BY <4>1, <4>2
    <3>3. QED
      BY <1>1, <1>2, <1>4, <2>0, <3>1, <3>2 DEF A
  <2>3. CASE Pop(w)
    <3>1. NotEnded(worker') = NotEnded(worker)
      BY <2>3 DEF Pop, NotEnded, TypeOK
    <3>2. E = E' + IF Head(workList) = NoJob THEN 1 ELSE 0
      BY <2>3, CountTail DEF Pop, E, Ends, TypeOK
    <3>3. Head(workList) \in Jobs
      BY <2>3 DEF Pop, TypeOK
    <3>4. /\ w \notin AboutToEnd(worker, serving)
          /\ w \in AboutToEnd(worker', serving') <=> Head(workList) = NoJob
          /\ AboutToEnd(worker, serving) \ {w} = AboutToEnd(worker', serving') \ {w}
      BY <2>3, <3>3 DEF Pop, AboutToEnd, TypeOK
    <3>5. A' = A + IF Head(workList) = NoJob THEN 1 ELSE 0
      <4>1. CASE w \in AboutToEnd(worker', serving')
        BY <1>0, <3>4, <4>1, OneElement DEF A
      <4>2. CASE w \notin AboutToEnd(worker', serving')
        BY <1>0, <1>1, <3>4, <4>2, OneElement DEF A
      <4>3. QED
        BY <4>1, <4>2
    <3>6. QED
      BY <1>1, <1>2, <2>0, <3>1, <3>2, <3>5 DEF N
  <2>4. CASE Dispatch(w)
    <3>0. workList' = workList /\ worker[w] = "popped"
      BY <2>4 DEF Dispatch
    <3>1. CASE Leave(w)
      <4>0. /\ worker' = [worker EXCEPT ![w] = "ended"]
            /\ serving' = [serving EXCEPT ![w] = NoJob]
        BY <3>1 DEF Leave
      <4>1. /\ w \in NotEnded(worker) /\ w \notin NotEnded(worker')
            /\ NotEnded(worker) \ {w} = NotEnded(worker') \ {w}
            /\ w \notin AboutToEnd(worker', serving')
            /\ AboutToEnd(worker, serving) \ {w} = AboutToEnd(worker', serving') \ {w}
        BY <3>0, <4>0 DEF NotEnded, AboutToEnd, TypeOK
      <4>2. N' = N - 1
        BY <1>0, <4>1, OneElement DEF N
      <4>3. A <= A' + 1
        <5>1. CASE w \in AboutToEnd(worker, serving)
          BY <1>0, <1>1, <4>1, <5>1, OneElement DEF A
        <5>2. CASE w \notin AboutToEnd(worker, serving)
          BY <1>0, <1>1, <4>1, <5>2, OneElement DEF A
        <5>3. QED
          BY <5>1, <5>2
      <4>4. E' = E
        BY <1>4, <3>0
      <4>5. ASSUME Numbered'
            PROVE  N' <= E' + A' + toFlood'
        <5>1. N <= E + A + toFlood
          BY <1>2, <2>0, <4>5
        <5>2. N - 1 <= E + A' + toFlood
          BY <1>1, <4>3, <5>1, OneLess
        <5>3. QED
          BY <2>0, <4>2, <4>4, <5>2
      <4>6. QED
        BY <4>5
    <3>2. CASE worker' = [worker EXCEPT ![w] = "busy"] /\ UNCHANGED <<serving, workerCounter>>
               /\ serving[w].op # "END_WORKER"
      <4>1. NotEnded(worker') = NotEnded(worker) /\ AboutToEnd(worker', serving') = AboutToEnd(worker, serving)
        BY <3>0, <3>2 DEF NotEnded, AboutToEnd, TypeOK
      <4>2. QED
        BY <1>1, <1>2, <1>4, <2>0, <3>0, <4>1 DEF N, A
    <3>3. QED
      BY <2>4, <3>1, <3>2 DEF Dispatch
  <2>5. QED
    BY <1>8, <2>1, <2>2, <2>3, <2>4 DEF WorkerStep, InJob
<1>9. ASSUME NEW c \in Clients, StartThread(c) \/ ReadNext(c) \/ AnswerFreed(c) \/ NameTooLong(c) \/ Accept(c) \/ ReadFails(c)
      PROVE  Numbered' => N' <= E' + A' + toFlood'
  BY <1>1, <1>2, <1>4, <1>9 DEF StartThread, ReadNext, AnswerFreed, NameTooLong, Accept, ReadFails
<1>10. ASSUME NEW c \in Clients, Request(c)
       PROVE  Numbered' => N' <= E' + A' + toFlood'
  <2>1. PICK op \in Asked : workList' = Append(workList, Job(op, c))
    BY <1>10 DEF Request
  <2>2. Job(op, c) \in Jobs /\ Job(op, c) # NoJob
    BY DEF Job, Jobs, NoJob
  <2>3. E' = E
    BY <1>1, <2>1, <2>2, CountAppend DEF E, Ends, TypeOK
  <2>4. QED
    BY <1>1, <1>2, <1>4, <1>10, <2>3 DEF Request
<1>11. ASSUME NEW c \in Clients, Answer(c)
       PROVE  Numbered' => N' <= E' + A' + toFlood'
  <2>1. NotEnded(worker') = NotEnded(worker) /\ AboutToEnd(worker', serving') = AboutToEnd(worker, serving)
    BY <1>11 DEF Answer, NotEnded, AboutToEnd, TypeOK
  <2>2. QED
    BY <1>1, <1>2, <1>4, <1>11, <2>1 DEF Answer, N, A
<1>12. ASSUME NEW s \in Signals, Arrive(s)
       PROVE  Numbered' => N' <= E' + A' + toFlood'
  BY <1>1, <1>2, <1>4, <1>12 DEF Arrive
<1>13. QED
  BY <1>5, <1>6, <1>7, <1>8, <1>9, <1>10, <1>11, <1>12 DEF Next, MainStep, ThreadStep, ClientStep

-----------------------------------------------------------------------------
(* Answers.  The places of a request of c in any list, jobs and answers.   *)

JobsOf(c) == {j \in Jobs : j.client = c}
HeldFor(sv, c) == {w \in Workers : sv[w].client = c}

\* The terms of Places are finite, and the first counts positions of the list.
LEMMA PlaceSets ==
  ASSUME NEW sv, NEW list \in Seq(Jobs), NEW c
  PROVE  /\ IsFiniteSet(HeldFor(sv, c)) /\ Cardinality(HeldFor(sv, c)) \in Nat
         /\ Cardinality({i \in DOMAIN list : list[i].client = c}) = Count(list, JobsOf(c))
         /\ Count(list, JobsOf(c)) \in Nat
<1>1. HeldFor(sv, c) \in SUBSET Workers
  BY DEF HeldFor
<1>2. \A i \in DOMAIN list : list[i] \in Jobs
  BY ElementOfSeq, LenProperties
<1>3. {i \in DOMAIN list : list[i].client = c} = Positions(list, JobsOf(c))
  BY <1>2 DEF Positions, JobsOf
<1>4. IsFiniteSet(HeldFor(sv, c))
  BY <1>1, FiniteWorkers, FS_Subset
<1>5. QED
  BY <1>3, <1>4, FS_CardinalityType, CountType DEF Count

\* A CLOSE_FILE answered once keeps its mark until the process ends.
LEMMA TwiceStays ==
  ASSUME TypeOK, ServesAJob, [Next]_vars, NEW c \in Clients, AnsweredTwice(c)
  PROVE  AnsweredTwice(c)'
<1> USE JobFacts DEF TypeOK, mainVars, poolVars, clientVars
<1>1. CASE UNCHANGED <<worker, serving, answers>>
  BY <1>1 DEF AnsweredTwice
<1>2. ASSUME NEW w \in Workers, WorkerStep(w) \/ InJob(w)
      PROVE  AnsweredTwice(c)'
  <2>1. CASE Spawn(w) \/ WorkerAdd(w) \/ Loop(w) \/ UseFreedJob(w) \/ JobFails(w)
    BY <2>1 DEF Spawn, WorkerAdd, Loop, UseFreedJob, JobFails, AnsweredTwice
  <2>2. CASE Pop(w)
    BY <2>2 DEF Pop, AnsweredTwice
  <2>3. CASE Dispatch(w)
    BY <2>3 DEF Dispatch, Leave, AnsweredTwice
  <2>4. CASE Serve(w) \/ ServeAgain(w)
    <3>1. serving[w].client \in Clients /\ serving[w].op \in Asked
      BY <2>4 DEF Serve, ServeAgain, ServesAJob
    <3>2. PICK a \in {serving[w].op, Again} :
            answers' = [answers EXCEPT ![serving[w].client] = Append(@, a)]
      BY <2>4 DEF Serve, ServeAgain
    <3>3. \A i \in DOMAIN answers[c] : i \in DOMAIN answers'[c] /\ answers'[c][i] = answers[c][i]
      BY <3>1, <3>2, AppendProperties, LenProperties
    <3>4. CASE \E i \in DOMAIN answers[c] : answers[c][i] = Again
      BY <3>3, <3>4 DEF AnsweredTwice
    <3>5. CASE \E v \in Workers \ {w} : serving[v].client = c /\ worker[v] \in {"again", "freed"}
      <4>1. PICK v \in Workers \ {w} : serving[v].client = c /\ worker[v] \in {"again", "freed"}
        BY <3>5
      <4>2. worker'[v] = worker[v] /\ serving'[v] = serving[v]
        BY <2>4 DEF Serve, ServeAgain
      <4>3. QED
        BY <4>1, <4>2 DEF AnsweredTwice
    <3>6. CASE serving[w].client = c /\ worker[w] \in {"again", "freed"}
      <4>1. ServeAgain(w)
        BY <2>4, <3>6 DEF Serve
      <4>2. answers'[c] = Append(answers[c], Again)
        BY <3>6, <4>1 DEF ServeAgain
      <4>3. Len(answers[c]) + 1 \in DOMAIN answers'[c] /\ answers'[c][Len(answers[c]) + 1] = Again
        BY <4>2, AppendProperties, LenProperties
      <4>4. QED
        BY <4>3 DEF AnsweredTwice
    <3>7. QED
      BY <3>4, <3>5, <3>6 DEF AnsweredTwice
  <2>5. QED
    BY <1>2, <2>1, <2>2, <2>3, <2>4 DEF WorkerStep, InJob
<1>3. ASSUME NEW d \in Clients, Answer(d)
      PROVE  AnsweredTwice(c)'
  <2>1. CASE \E v \in Workers : serving[v].client = c /\ worker[v] \in {"again", "freed"}
    BY <1>3, <2>1 DEF Answer, AnsweredTwice
  <2>2. ASSUME NEW i \in DOMAIN answers[c], answers[c][i] = Again
        PROVE  AnsweredTwice(c)'
    <3>1. CASE d # c
      BY <1>3, <2>2, <3>1 DEF Answer, AnsweredTwice
    <3>2. CASE d = c
      <4>1. answers[c] # <<>> /\ answers[c][1] # Again /\ answers'[c] = Tail(answers[c])
        BY <1>3, <3>2 DEF Answer
      <4>2. i - 1 \in DOMAIN answers'[c] /\ answers'[c][i - 1] = Again
        BY <2>2, <4>1, HeadTailProperties, LenProperties
      <4>3. QED
        BY <4>2 DEF AnsweredTwice
    <3>3. QED
      BY <3>1, <3>2
  <2>3. QED
    BY <2>1, <2>2 DEF AnsweredTwice
<1>4. QED
  BY <1>1, <1>2, <1>3 DEF Next, MainStep, ClientStep, ThreadStep, vars, Spawned, Deliver, Flood, Flooded, WaitOnWorkers, Clean, Arrive, Accept, Request, ReadFails, StartThread, ReadNext, AnswerFreed, NameTooLong

\* What a step may do to the places of one client (in the list, with a worker,
\* answered) and to whether its thread waits: nothing, or stop waiting for
\* nothing; pop; drop; answer; ask; hear the answer.
LEMMA Balance ==
  ASSUME NEW l \in Nat, NEW h \in Nat, NEW r \in Nat, NEW b \in Nat,
         NEW m \in Nat, NEW i \in Nat, NEW s \in Nat, NEW d \in Nat,
         l + h + r <= b,
         \/ m = l /\ i = h /\ s = r /\ (d = b \/ b = 0)
         \/ m + 1 = l /\ i = h + 1 /\ s = r /\ d = b
         \/ m = l /\ i + 1 = h /\ s = r /\ d = b
         \/ m = l /\ i + 1 = h /\ s = r + 1 /\ d = b
         \/ m = l + 1 /\ i = h /\ s = r /\ b = 0 /\ d = 1
         \/ m = l /\ i = h /\ s + 1 = r /\ b = 1 /\ d = 0
  PROVE  m + i + s <= d
OBVIOUS

\* No action puts a request of a client in two places, or leaves an answer
\* behind, other than the one that answers a CLOSE_FILE.
LEMMA AnswerStep ==
  ASSUME TypeOK, TypeOK', ModeOfMain, ServesAJob, OneAnswer, [Next]_vars
  PROVE  OneAnswer'
<1> SUFFICES ASSUME NEW c \in Clients, ~AnsweredTwice(c)'
             PROVE  Places(c)' <= IF client'[c] = "waiting" THEN 1 ELSE 0
  BY DEF OneAnswer
<1> DEFINE L == Count(workList, JobsOf(c))
           H == Cardinality(HeldFor(serving, c))
           R == Len(answers[c])
           B == IF client[c] = "waiting" THEN 1 ELSE 0
<1>1. /\ L \in Nat /\ H \in Nat /\ R \in Nat /\ B \in Nat
      /\ L' \in Nat /\ H' \in Nat /\ R' \in Nat /\ B' \in Nat
      /\ Places(c) = L + H + R
      /\ Places(c)' = L' + H' + R'
  <2>1. /\ workList \in Seq(Jobs) /\ workList' \in Seq(Jobs)
        /\ Len(answers[c]) \in Nat /\ Len(answers'[c]) \in Nat
    BY LenProperties DEF TypeOK
  <2>2. L \in Nat /\ H \in Nat /\ L' \in Nat /\ H' \in Nat
    BY <2>1, PlaceSets
  <2>3. R \in Nat /\ R' \in Nat /\ B \in Nat /\ B' \in Nat
    BY <2>1
  <2>4. Places(c) = L + H + R
    BY <2>1, PlaceSets DEF Places, HeldFor
  <2>5. Places(c)' = L' + H' + R'
    BY <2>1, PlaceSets DEF Places, HeldFor
  <2>6. QED
    BY <2>2, <2>3, <2>4, <2>5
<1>0. serving \in [Workers -> Jobs] /\ NoJob \in Jobs /\ NoJob.client # c
  BY JobFacts DEF TypeOK
<1>2. L + H + R <= B
  BY <1>1, TwiceStays DEF OneAnswer
<1>3. /\ workList' = workList => L' = L
      /\ serving' = serving => H' = H
      /\ answers'[c] = answers[c] => R' = R
      /\ client'[c] = client[c] => B' = B
  OBVIOUS
<1>4. /\ B \in {0, 1} /\ B' \in {0, 1}
      /\ B = 1 <=> client[c] = "waiting"
      /\ B' = 1 <=> client'[c] = "waiting"
  OBVIOUS
<1>b. SUFFICES L' + H' + R' <= B'
  BY <1>1
<1> HIDE DEF L, H, R, B
<1> DEFINE Goal == \/ L' = L /\ H' = H /\ R' = R /\ (B' = B \/ B = 0)
                   \/ L' + 1 = L /\ H' = H + 1 /\ R' = R /\ B' = B
                   \/ L' = L /\ H' + 1 = H /\ R' = R /\ B' = B
                   \/ L' = L /\ H' + 1 = H /\ R' = R + 1 /\ B' = B
                   \/ L' = L + 1 /\ H' = H /\ R' = R /\ B = 0 /\ B' = 1
                   \/ L' = L /\ H' = H /\ R' + 1 = R /\ B = 1 /\ B' = 0
<1>5. ASSUME Goal
      PROVE  L' + H' + R' <= B'
  <2>1. PICK l \in Nat, h \in Nat, r \in Nat, b \in Nat : l = L /\ h = H /\ r = R /\ b = B
    BY <1>1
  <2>2. PICK m \in Nat, i \in Nat, s \in Nat, d \in Nat : m = L' /\ i = H' /\ s = R' /\ d = B'
    BY <1>1
  <2>3. l + h + r <= b
    BY <1>2, <2>1
  <2>4. \/ m = l /\ i = h /\ s = r /\ (d = b \/ b = 0)
        \/ m + 1 = l /\ i = h + 1 /\ s = r /\ d = b
        \/ m = l /\ i + 1 = h /\ s = r /\ d = b
        \/ m = l /\ i + 1 = h /\ s = r + 1 /\ d = b
        \/ m = l + 1 /\ i = h /\ s = r /\ b = 0 /\ d = 1
        \/ m = l /\ i = h /\ s + 1 = r /\ b = 1 /\ d = 0
    BY ONLY <1>5, <2>1, <2>2
  <2>5. m + i + s <= d
    BY ONLY <2>3, <2>4, Balance, l \in Nat, h \in Nat, r \in Nat, b \in Nat,
            m \in Nat, i \in Nat, s \in Nat, d \in Nat
  <2>6. QED
    BY <2>2, <2>5
<1>g. SUFFICES Goal
  BY <1>5
<1>h. ASSUME NEW w \in Workers, NEW j \in Jobs, serving' = [serving EXCEPT ![w] = j]
      PROVE  /\ serving[w].client = c /\ j.client # c => H' + 1 = H
             /\ serving[w].client # c /\ j.client = c => H' = H + 1
             /\ serving[w].client # c /\ j.client # c => H' = H
  <2>1. H = Cardinality(HeldFor(serving, c)) /\ H' = Cardinality(HeldFor(serving', c))
    BY DEF H, HeldFor
  <2>2. /\ IsFiniteSet(HeldFor(serving, c))
        /\ HeldFor(serving, c) \ {w} = HeldFor(serving', c) \ {w}
        /\ w \in HeldFor(serving, c) <=> serving[w].client = c
        /\ w \in HeldFor(serving', c) <=> j.client = c
    BY <1>0, <1>h, FiniteWorkers, FS_Subset, HeldFor(serving, c) \in SUBSET Workers DEF HeldFor
  <2>3. QED
    BY <1>1, <2>1, <2>2, OneElement
<1> USE JobFacts DEF mainVars, poolVars, clientVars
<1>6. ASSUME workList' = workList, serving' = serving, answers'[c] = answers[c],
             client[c] = "waiting" => client'[c] = "waiting"
      PROVE  Goal
  BY <1>1, <1>3, <1>4, <1>6
<1>7. CASE UNCHANGED vars
  BY <1>6, <1>7 DEF vars
<1>8. CASE Spawned \/ Deliver \/ Flooded \/ WaitOnWorkers \/ Clean
  BY <1>6, <1>8 DEF Spawned, Deliver, Flooded, WaitOnWorkers, Clean
<1>9. CASE Flood
  <2>1. L' = L
    BY <1>1, <1>9, CountAppend, NoJob \notin JobsOf(c) DEF Flood, L, JobsOf, TypeOK
  <2>2. QED
    BY <1>1, <1>3, <1>4, <1>9, <2>1 DEF Flood
<1>10. ASSUME NEW w \in Workers, WorkerStep(w) \/ InJob(w)
       PROVE  Goal
  <2>1. CASE Spawn(w) \/ WorkerAdd(w) \/ Loop(w) \/ UseFreedJob(w) \/ JobFails(w)
    BY <1>6, <2>1 DEF Spawn, WorkerAdd, Loop, UseFreedJob, JobFails
  <2>2. CASE Pop(w)
    <3>1. L = L' + IF Head(workList) \in JobsOf(c) THEN 1 ELSE 0
      BY <2>2, CountTail DEF Pop, L, TypeOK
    <3>2. /\ Head(workList) \in Jobs /\ serving[w] = NoJob
          /\ serving' = [serving EXCEPT ![w] = Head(workList)]
      BY <2>2 DEF Pop, TypeOK, ServesAJob
    <3>3. R' = R /\ B' = B
      BY <1>3, <2>2 DEF Pop
    <3>4. CASE Head(workList).client = c
      <4>1. L = L' + 1 /\ H' = H + 1
        BY <1>0, <1>1, <1>h, <3>1, <3>2, <3>4 DEF JobsOf
      <4>2. QED
        BY <3>3, <4>1
    <3>5. CASE Head(workList).client # c
      <4>1. H' = H
        BY <1>0, <1>1, <1>h, <3>2, <3>5
      <4>2. L' = L
        BY <2>2, <3>5, CountTail DEF Pop, L, TypeOK, JobsOf
      <4>3. QED
        BY <3>3, <4>1, <4>2
    <3>6. QED
      BY <3>4, <3>5
  <2>3. CASE Dispatch(w)
    <3>1. serving' = serving \/ serving' = [serving EXCEPT ![w] = NoJob]
      BY <2>3 DEF Dispatch, Leave
    <3>2. H' = H \/ H' + 1 = H
      BY <1>0, <1>3, <1>h, <3>1
    <3>3. L' = L /\ R' = R /\ B' = B
      BY <1>3, <2>3 DEF Dispatch
    <3>4. QED
      BY <3>2, <3>3
  <2>4. CASE Serve(w) \/ ServeAgain(w)
    <3>1. serving[w].client \in Clients /\ serving[w].op \in Asked
      BY <2>4 DEF Serve, ServeAgain, ServesAJob, TypeOK
    <3>2. PICK a \in {serving[w].op, Again} :
            answers' = [answers EXCEPT ![serving[w].client] = Append(@, a)]
      BY <2>4 DEF Serve, ServeAgain
    <3>3. L' = L /\ B' = B
      BY <1>3, <2>4 DEF Serve, ServeAgain
    <3>4. serving' = serving \/ serving' = [serving EXCEPT ![w] = NoJob]
      BY <2>4 DEF Serve, ServeAgain
    <3>5. CASE serving[w].client # c
      <4>1. R' = R
        BY <1>3, <3>1, <3>2, <3>5 DEF TypeOK
      <4>2. H' = H
        BY <1>0, <1>3, <1>h, <3>4, <3>5
      <4>3. QED
        BY <3>3, <4>1, <4>2
    <3>6. CASE serving[w].client = c
      <4>1. answers[c] \in Seq(Asked \cup {Again}) /\ answers'[c] = Append(answers[c], a)
        BY <3>2, <3>6 DEF TypeOK
      <4>2. R' = R + 1 /\ answers'[c][R + 1] = a /\ R + 1 \in DOMAIN answers'[c]
        BY <4>1, AppendProperties, LenProperties DEF R
      <4>3. ~ServeAgain(w)
        <5>1. SUFFICES ASSUME ServeAgain(w) PROVE a = Again
          BY <4>2 DEF AnsweredTwice
        <5>2. answers'[c] = Append(answers[c], Again)
          BY <3>6, <5>1 DEF ServeAgain, TypeOK
        <5>3. answers'[c][R + 1] = Again
          BY <4>1, <5>2, AppendProperties DEF R
        <5>4. QED
          BY <4>2, <5>3
      <4>4. serving' = [serving EXCEPT ![w] = NoJob]
        BY <2>4, <3>6, <4>3 DEF Serve, AnsweredTwice, TypeOK
      <4>5. H' + 1 = H
        BY <1>0, <1>h, <3>6, <4>4
      <4>6. QED
        BY <3>3, <4>2, <4>5
    <3>7. QED
      BY <3>5, <3>6
  <2>5. QED
    BY <1>10, <2>1, <2>2, <2>3, <2>4 DEF WorkerStep, InJob
<1>11. ASSUME NEW d \in Clients,
              StartThread(d) \/ ReadNext(d) \/ AnswerFreed(d) \/ NameTooLong(d) \/ Accept(d) \/ ReadFails(d)
       PROVE  Goal
  BY <1>6, <1>11 DEF StartThread, ReadNext, AnswerFreed, NameTooLong, Accept, ReadFails, TypeOK
<1>12. ASSUME NEW d \in Clients, Request(d)
       PROVE  Goal
  <2>1. PICK op \in Asked : workList' = Append(workList, Job(op, d))
    BY <1>12 DEF Request
  <2>2. Job(op, d) \in Jobs /\ (Job(op, d) \in JobsOf(c) <=> d = c)
    BY DEF Job, Jobs, JobsOf
  <2>3. L' = L + IF d = c THEN 1 ELSE 0
    BY <2>1, <2>2, CountAppend DEF L, TypeOK
  <2>4. H' = H /\ R' = R
    BY <1>3, <1>12 DEF Request
  <2>5. CASE d = c
    <3>1. B = 0 /\ B' = 1
      BY <1>4, <1>12, <2>5 DEF Request, TypeOK
    <3>2. L' = L + 1
      BY <2>3, <2>5
    <3>3. QED
      BY <2>4, <3>1, <3>2
  <2>6. CASE d # c
    <3>1. B' = B
      BY <1>3, <1>12, <2>6 DEF Request, TypeOK
    <3>2. L' = L
      BY <1>1, <2>3, <2>6
    <3>3. QED
      BY <2>4, <3>1, <3>2
  <2>7. QED
    BY <2>5, <2>6
<1>13. ASSUME NEW d \in Clients, Answer(d)
       PROVE  Goal
  <2>1. L' = L /\ H' = H
    BY <1>3, <1>13 DEF Answer
  <2>2. CASE d # c
    BY <1>1, <1>3, <1>4, <1>13, <2>1, <2>2 DEF Answer, TypeOK
  <2>3. CASE d = c
    <3>1. answers[c] \in Seq(Asked \cup {Again}) /\ answers[c] # <<>> /\ answers'[c] = Tail(answers[c])
      BY <1>13, <2>3 DEF Answer, TypeOK
    <3>2. R = R' + 1
      BY <3>1, HeadTailProperties, EmptySeq, LenProperties DEF R
    <3>3. B = 1 /\ B' = 0
      BY <1>4, <1>13, <2>3 DEF Answer, TypeOK
    <3>4. QED
      BY <2>1, <3>2, <3>3
  <2>4. QED
    BY <2>2, <2>3
<1>14. ASSUME NEW s \in Signals, Arrive(s)
       PROVE  Goal
  BY <1>6, <1>14 DEF Arrive
<1>15. QED
  BY <1>7, <1>8, <1>9, <1>10, <1>11, <1>12, <1>13, <1>14 DEF Next, MainStep, ThreadStep, ClientStep

-----------------------------------------------------------------------------
(* The invariant.                                                          *)

\* Nothing is started, listed, held or answered at first.
LEMMA InitInv == Init => IInv
<1> SUFFICES ASSUME Init PROVE IInv
  OBVIOUS
<1> USE JobFacts, FiniteWorkers
<1>1. TypeOK
  BY InitType
<1>2. ModeOfMain /\ ServesAJob
  BY DEF Init, ModeOfMain, ServesAJob
<1>3. CountsWorkers
  <2>1. {w \in Workers : Registered(w)} = {}
    BY DEF Init, Registered
  <2>2. QED
    BY <2>1, FS_EmptySet DEF Init, CountsWorkers
<1>4. EndsToCome
  <2>1. /\ {w \in Workers : worker[w] # "ended"} = Workers
        /\ {i \in DOMAIN workList : workList[i].op = "END_WORKER"} = {}
        /\ {w \in Workers : worker[w] = "popped" /\ serving[w].op = "END_WORKER"} = {}
    BY DEF Init
  <2>2. PICK n \in Nat : Cardinality(Workers) = n /\ toFlood = n
    BY DEF Init
  <2>3. n <= 0 + 0 + n
    OBVIOUS
  <2>4. /\ Cardinality({w \in Workers : worker[w] # "ended"}) = n
        /\ Cardinality({i \in DOMAIN workList : workList[i].op = "END_WORKER"}) = 0
        /\ Cardinality({w \in Workers : worker[w] = "popped" /\ serving[w].op = "END_WORKER"}) = 0
    BY <2>1, <2>2, FS_EmptySet
  <2>5. QED
    BY <2>2, <2>3, <2>4 DEF EndsToCome
<1>5. OneAnswer
  <2>1. ASSUME NEW c \in Clients
        PROVE  Places(c) = 0
    <3>1. /\ {i \in DOMAIN workList : workList[i].client = c} = {}
          /\ {w \in Workers : serving[w].client = c} = {}
          /\ Len(answers[c]) = 0
      BY DEF Init
    <3>2. /\ Cardinality({i \in DOMAIN workList : workList[i].client = c}) = 0
          /\ Cardinality({w \in Workers : serving[w].client = c}) = 0
      BY <3>1, FS_EmptySet
    <3>3. QED
      BY <3>1, <3>2 DEF Places
  <2>2. QED
    BY <2>1 DEF OneAnswer
<1>6. QED
  BY <1>1, <1>2, <1>3, <1>4, <1>5 DEF IInv

\* The inductive invariant holds in every behaviour, for any pool, any number
\* of connections and any list of requests.
THEOREM Invariant == Spec => []IInv
<1>1. Init => IInv
  BY InitInv
<1>2. IInv /\ [Next]_vars => IInv'
  BY TypeStep, ModeStep, JobStep, CountsStep, EndsStep, AnswerStep DEF IInv
<1>3. QED
  BY <1>1, <1>2, PTL DEF Spec

\* The state of the server keeps its types.
THEOREM TypeCorrect == Spec => []TypeOK
<1>1. IInv => TypeOK
  BY DEF IInv
<1>2. QED
  BY <1>1, Invariant, PTL

\* Until SIGINT, the workerCounter main waits on is the number of workers that
\* have started and not ended, whatever the way they end.
THEOREM WorkersCounted == Spec => []CountsWorkers
<1>1. IInv => CountsWorkers
  BY DEF IInv
<1>2. QED
  BY <1>1, Invariant, PTL

\* When main starts to wait, each worker that is left, one that has not yet
\* started included, has an END_WORKER of its own in the list or in hand.
THEOREM EndForEachWorker == Spec => []EndForEach
<1>1. IInv => EndForEach
  <2>1. SUFFICES ASSUME IInv, main = "wait" PROVE EndForEach
    BY DEF EndForEach
  <2>2. Cardinality({w \in Workers : worker[w] # "ended"}) <=
          Cardinality({i \in DOMAIN workList : workList[i].op = "END_WORKER"})
          + Cardinality({w \in Workers : worker[w] = "popped" /\ serving[w].op = "END_WORKER"})
          + 0
    BY <2>1 DEF IInv, EndsToCome, ModeOfMain
  <2>3. /\ Cardinality(NotEnded(worker)) \in Nat
        /\ Cardinality(AboutToEnd(worker, serving)) \in Nat
        /\ Cardinality({i \in DOMAIN workList : workList[i].op = "END_WORKER"}) \in Nat
    BY <2>1, EndSets DEF IInv, TypeOK
  <2>4. QED
    BY <2>2, <2>3 DEF EndForEach, NotEnded, AboutToEnd
<1>2. QED
  BY <1>1, Invariant, PTL

\* A connection has at most one request on its way and at most one answer
\* waiting, but for the job of a CLOSE_FILE after its first answer.
THEOREM OneAnswerAlways == Spec => []OneAnswer
<1>1. IInv => OneAnswer
  BY DEF IInv
<1>2. QED
  BY <1>1, Invariant, PTL

=============================================================================
