------------------------------- MODULE Server -------------------------------
(***************************************************************************)
(* The life of the server process: main, the pool of workers, one thread   *)
(* per connection, the work list between them, and the end by signal       *)
(* (src/src/server.c, src/src/server_utils.c).  What a worker does for a   *)
(* job is in Workers.tla and how a list blocks in Queue.tla: here a job is *)
(* carried out in one step, which need not come, the lists are sequences,  *)
(* and to wait on a condition variable is to wait for the condition.       *)
(***************************************************************************)
EXTENDS Integers, Sequences, FiniteSets, SequencesExt

CONSTANTS
  Workers,    \* the configFile.Nslaves threads main creates
  Clients,    \* connections
  Signals,    \* those that arrive: a subset of {SIGHUP, SIGINT}; SIGQUIT acts as SIGINT
  Asked,      \* what clients ask for, a subset of Requests
  MaxRequests \* bound: requests of one client

\* REQUEST stands for the operations on files other than CLOSE_FILE, UNKNOWN
\* for a number that is none of the codes of worker_thread's switch.
Requests == {"REQUEST", "CLOSE_FILE", "CLOSE_CONNECTION", "UNKNOWN"}

ASSUME ServerAssumption ==
  /\ IsFiniteSet(Workers)
  /\ Clients \cap Workers = {}
  /\ "none" \notin Clients
  /\ Signals \subseteq {"SIGHUP", "SIGINT"}
  /\ Asked \subseteq Requests
  /\ MaxRequests \in Nat

VARIABLES
  main,          \* what the main thread does
  serverMode,    \* "ON", "GRACEFUL" or "OFF"
  pending,       \* signals that have arrived and not been delivered
  args,          \* the stack variable main passes to each client thread
  worker,        \* worker -> its program counter
  serving,       \* worker -> the job it popped
  workList,      \* jobs, the next to be popped first
  workerCounter,
  toFlood,       \* END_WORKER jobs flood_list has still to push
  client,        \* connection -> the program counter of its thread
  requests,      \* connection -> how many requests its client has made
  answers        \* connection -> queue_of_response

mainVars == <<main, serverMode, pending, args, toFlood>>
poolVars == <<worker, serving, workerCounter>>
clientVars == <<client, requests, answers>>
vars == <<main, serverMode, pending, args, worker, serving, workList, workerCounter,
          toFlood, client, requests, answers>>

\* The second answer to a CLOSE_FILE: the same job once more.
Again == "AGAIN"
NoClient == "none"
Job(op, c) == [op |-> op, client |-> c]
NoJob == Job("END_WORKER", NoClient)
Jobs == [op : Asked, client : Clients] \cup {NoJob}

Init ==
  /\ main = "spawn"
  /\ serverMode = "ON"
  /\ pending = {}
  /\ args = NoClient
  /\ worker = [w \in Workers |-> "none"]
  /\ serving = [w \in Workers |-> NoJob]
  /\ workList = <<>>
  /\ workerCounter = 0
  /\ toFlood = Cardinality(Workers)
  /\ client = [c \in Clients |-> "none"]
  /\ requests = [c \in Clients |-> 0]
  /\ answers = [c \in Clients |-> <<>>]

\* The process is there: it ends when main returns ("exited") or when any other
\* thread calls exit ("failed"), and nothing is said of it after a client thread
\* has read args that are no longer its own, or anyone a job that is freed.
Alive == main \notin {"exited", "failed", "undefined"}

-----------------------------------------------------------------------------
(* main.                                                                   *)

Spawn(w) ==
  /\ main = "spawn" /\ worker[w] = "none"
  /\ worker' = [worker EXCEPT ![w] = "created"]
  /\ UNCHANGED <<mainVars, serving, workerCounter, workList, clientVars>>

Spawned ==
  /\ main = "spawn" /\ \A w \in Workers : worker[w] # "none"
  /\ main' = "select"
  /\ UNCHANGED <<serverMode, pending, args, toFlood, poolVars, workList, clientVars>>

\* pselect found a connection: the thread gets the address of args.
Accept(c) ==
  /\ main = "select" /\ client[c] = "none"
  /\ args' = c
  /\ client' = [client EXCEPT ![c] = "created"]
  /\ UNCHANGED <<main, serverMode, pending, toFlood, poolVars, workList, requests, answers>>

\* The signals are blocked everywhere else, so their handlers run in pselect.
\* When both arrived the handlers nest and the last to run decides.
Deliver ==
  /\ main = "select" /\ pending # {}
  /\ pending' = {}
  /\ \/ "SIGHUP" \in pending /\ serverMode' = "GRACEFUL" /\ main' = "flood"
     \/ "SIGINT" \in pending /\ serverMode' = "OFF" /\ main' = "clean"
  /\ UNCHANGED <<args, toFlood, poolVars, workList, clientVars>>

\* Mutant of Flood: the loop runs to N inclusive.
FloodOneMore ==
  /\ main = "flood" /\ toFlood >= 0
  /\ workList' = Append(workList, NoJob)
  /\ toFlood' = toFlood - 1
  /\ UNCHANGED <<main, serverMode, pending, args, poolVars, clientVars>>

\* Mutant of Flood: one END_WORKER too few.
FloodShort ==
  /\ main = "flood" /\ toFlood > 0
  /\ workList' = IF toFlood = 1 THEN workList ELSE Append(workList, NoJob)
  /\ toFlood' = toFlood - 1
  /\ UNCHANGED <<main, serverMode, pending, args, poolVars, clientVars>>

\* flood_list: one END_WORKER for each worker, one push at a time.
Flood ==
  /\ main = "flood" /\ toFlood > 0
  /\ workList' = Append(workList, NoJob)
  /\ toFlood' = toFlood - 1
  /\ UNCHANGED <<main, serverMode, pending, args, poolVars, clientVars>>

Flooded ==
  /\ main = "flood" /\ toFlood = 0
  /\ main' = "wait"
  /\ UNCHANGED <<serverMode, pending, args, toFlood, poolVars, workList, clientVars>>

WaitOnWorkers ==
  /\ main = "wait" /\ workerCounter = 0
  /\ main' = "clean"
  /\ UNCHANGED <<serverMode, pending, args, toFlood, poolVars, workList, clientVars>>

\* printFiles, clean_cache and the return, which ends every thread.
Clean ==
  /\ main = "clean"
  /\ main' = "exited"
  /\ UNCHANGED <<serverMode, pending, args, toFlood, poolVars, workList, clientVars>>

Arrive(s) ==
  /\ Alive /\ serverMode = "ON" /\ s \notin pending
  /\ pending' = pending \cup {s}
  /\ UNCHANGED <<main, serverMode, args, toFlood, poolVars, workList, clientVars>>

-----------------------------------------------------------------------------
(* worker_thread.                                                          *)

WorkerAdd(w) ==
  /\ Alive /\ worker[w] = "created"
  /\ workerCounter' = workerCounter + 1
  /\ worker' = [worker EXCEPT ![w] = "loop"]
  /\ UNCHANGED <<mainVars, serving, workList, clientVars>>

\* The exit of the loop has no worker_sub.
Loop(w) ==
  /\ Alive /\ worker[w] = "loop"
  /\ worker' = [worker EXCEPT ![w] = IF serverMode = "OFF" THEN "ended" ELSE "pop"]
  /\ UNCHANGED <<mainVars, serving, workerCounter, workList, clientVars>>

\* Mutant of Pop: the job that came last is taken.
PopNewest(w) ==
  /\ Alive /\ worker[w] = "pop" /\ workList # <<>>
  /\ serving' = [serving EXCEPT ![w] = Last(workList)]
  /\ workList' = Front(workList)
  /\ worker' = [worker EXCEPT ![w] = "popped"]
  /\ UNCHANGED <<mainVars, workerCounter, clientVars>>

Pop(w) ==
  /\ Alive /\ worker[w] = "pop" /\ workList # <<>>
  /\ serving' = [serving EXCEPT ![w] = Head(workList)]
  /\ workList' = Tail(workList)
  /\ worker' = [worker EXCEPT ![w] = "popped"]
  /\ UNCHANGED <<mainVars, workerCounter, clientVars>>

\* Mutant of Leave: the thread ends without worker_sub.
LeaveUncounted(w) ==
  /\ UNCHANGED workerCounter
  /\ worker' = [worker EXCEPT ![w] = "ended"]
  /\ serving' = [serving EXCEPT ![w] = NoJob]

\* worker_sub and pthread_exit.
Leave(w) ==
  /\ workerCounter' = IF workerCounter = 0 THEN 0 ELSE workerCounter - 1
  /\ worker' = [worker EXCEPT ![w] = "ended"]
  /\ serving' = [serving EXCEPT ![w] = NoJob]

\* A job popped after the mode became OFF is dropped; END_WORKER ends the
\* worker, and so does an operation the switch does not know.
Dispatch(w) ==
  /\ Alive /\ worker[w] = "popped"
  /\ IF serverMode = "OFF" \/ serving[w].op \in {"END_WORKER", "UNKNOWN"}
     THEN Leave(w)
     ELSE worker' = [worker EXCEPT ![w] = "busy"] /\ UNCHANGED <<serving, workerCounter>>
  /\ UNCHANGED <<mainVars, workList, clientVars>>

\* Mutant of Serve: the job is answered and kept for another round.
ServeTwice(w) ==
  /\ Alive /\ worker[w] = "busy"
  /\ answers' = [answers EXCEPT ![serving[w].client] = Append(@, serving[w].op)]
  /\ UNCHANGED <<mainVars, poolVars, workList, client, requests>>

\* Mutant of Serve: a path of the job pushes no answer.
ServeSilently(w) ==
  /\ Alive /\ worker[w] = "busy"
  /\ serving' = [serving EXCEPT ![w] = NoJob]
  /\ worker' = [worker EXCEPT ![w] = "loop"]
  /\ UNCHANGED <<mainVars, workerCounter, workList, clientVars>>

\* The job is carried out and handed to the client thread.  CLOSE_FILE has no
\* continue after that: its worker goes on into READ_FILE with the same job,
\* unless the file was not found.
Serve(w) ==
  /\ Alive /\ worker[w] = "busy"
  /\ answers' = [answers EXCEPT ![serving[w].client] = Append(@, serving[w].op)]
  /\ \/ /\ serving' = [serving EXCEPT ![w] = NoJob]
        /\ worker' = [worker EXCEPT ![w] = "loop"]
     \/ /\ serving[w].op = "CLOSE_FILE"
        /\ worker' = [worker EXCEPT ![w] = "again"]
        /\ UNCHANGED serving
  /\ UNCHANGED <<mainVars, workerCounter, workList, client, requests>>

ServeAgain(w) ==
  /\ Alive /\ worker[w] = "again"
  /\ answers' = [answers EXCEPT ![serving[w].client] = Append(@, Again)]
  /\ serving' = [serving EXCEPT ![w] = NoJob]
  /\ worker' = [worker EXCEPT ![w] = "loop"]
  /\ UNCHANGED <<mainVars, workerCounter, workList, client, requests>>

\* The job ends the process: its client hung up where the worker sends, the file
\* is gone at its second lookup, or another worker freed it (see Workers.tla).
JobFails(w) ==
  /\ Alive /\ worker[w] \in {"busy", "again"} /\ serving[w].op # "CLOSE_CONNECTION"
  /\ main' = "failed"
  /\ UNCHANGED <<serverMode, pending, args, toFlood, poolVars, workList, clientVars>>

\* The client thread freed the job after the first answer.
UseFreedJob(w) ==
  /\ Alive /\ worker[w] = "freed"
  /\ main' = "undefined"
  /\ UNCHANGED <<serverMode, pending, args, toFlood, poolVars, workList, clientVars>>

-----------------------------------------------------------------------------
(* client_thread.                                                          *)

\* The thread reads args, which main may have filled for a later connection:
\* then two threads serve that one and none this one.
StartThread(c) ==
  /\ Alive /\ client[c] = "created"
  /\ IF args = c
     THEN client' = [client EXCEPT ![c] = "loop"] /\ UNCHANGED main
     ELSE main' = "undefined" /\ UNCHANGED client
  /\ UNCHANGED <<serverMode, pending, args, toFlood, poolVars, workList, requests, answers>>

ReadNext(c) ==
  /\ Alive /\ client[c] = "loop"
  /\ client' = [client EXCEPT ![c] = IF serverMode = "OFF" THEN "ended" ELSE "reading"]
  /\ UNCHANGED <<mainVars, poolVars, workList, requests, answers>>

\* A request arrives and becomes a job.
Request(c) ==
  /\ Alive /\ client[c] = "reading" /\ requests[c] < MaxRequests
  /\ \E op \in Asked : workList' = Append(workList, Job(op, c))
  /\ client' = [client EXCEPT ![c] = "waiting"]
  /\ requests' = [requests EXCEPT ![c] = @ + 1]
  /\ UNCHANGED <<mainVars, poolVars, answers>>

\* Its name has MAXNAME characters or more: jobInit makes no job, nothing can be
\* pushed, and push_node_in_worklist exits.
NameTooLong(c) ==
  /\ Alive /\ client[c] = "reading" /\ requests[c] < MaxRequests
  /\ main' = "failed"
  /\ UNCHANGED <<serverMode, pending, args, toFlood, poolVars, workList, clientVars>>

\* The client hung up: recv_message returns null and the loop continues.
ReadFails(c) ==
  /\ Alive /\ client[c] = "reading"
  /\ client' = [client EXCEPT ![c] = "loop"]
  /\ UNCHANGED <<mainVars, poolVars, workList, requests, answers>>

\* The answer is sent and its job freed, whatever a worker still does with it.
Answer(c) ==
  /\ Alive /\ client[c] = "waiting" /\ answers[c] # <<>> /\ Head(answers[c]) # Again
  /\ client' = [client EXCEPT ![c] =
                   IF Head(answers[c]) = "CLOSE_CONNECTION" THEN "ended" ELSE "loop"]
  /\ answers' = [answers EXCEPT ![c] = Tail(@)]
  /\ worker' = [w \in Workers |->
                  IF worker[w] = "again" /\ serving[w].client = c THEN "freed" ELSE worker[w]]
  /\ UNCHANGED <<mainVars, serving, workerCounter, workList, requests>>

\* The second answer of a job that was freed after the first.
AnswerFreed(c) ==
  /\ Alive /\ client[c] = "waiting" /\ answers[c] # <<>> /\ Head(answers[c]) = Again
  /\ main' = "undefined"
  /\ UNCHANGED <<serverMode, pending, args, toFlood, poolVars, workList, clientVars>>

-----------------------------------------------------------------------------

MainStep == Spawned \/ Deliver \/ Flood \/ Flooded \/ WaitOnWorkers \/ Clean
WorkerStep(w) == Spawn(w) \/ WorkerAdd(w) \/ Loop(w) \/ Pop(w) \/ Dispatch(w)
InJob(w) == Serve(w) \/ ServeAgain(w) \/ JobFails(w) \/ UseFreedJob(w)
ThreadStep(c) == StartThread(c) \/ ReadNext(c) \/ AnswerFreed(c)
\* What a client has a part in: it connects, asks, hangs up or takes an answer.
ClientStep(c) == Accept(c) \/ Request(c) \/ NameTooLong(c) \/ ReadFails(c) \/ Answer(c)

Next ==
  \/ MainStep
  \/ \E w \in Workers : WorkerStep(w) \/ InJob(w)
  \/ \E c \in Clients : ThreadStep(c) \/ ClientStep(c)
  \/ \E s \in Signals : Arrive(s)

Spec == Init /\ [][Next]_vars

\* The scheduler runs every thread that can run, and pselect delivers a signal
\* that has arrived.  Nothing is assumed of clients and signals.  So a job on a
\* file need not end: its worker receives from its client and sends to it, or
\* waits for a lock that another worker holds while it does.  Nor need an
\* answer be taken.  The job of a CLOSE_CONNECTION is the one that needs nobody.
Fairness ==
  /\ WF_vars(MainStep)
  /\ \A w \in Workers : /\ WF_vars(WorkerStep(w))
                        /\ WF_vars(Serve(w) /\ serving[w].op = "CLOSE_CONNECTION")
  /\ \A c \in Clients : WF_vars(ThreadStep(c))
FairSpec == Spec /\ Fairness

-----------------------------------------------------------------------------
(* Properties.                                                             *)

Registered(w) == worker[w] \notin {"none", "created", "ended"}

TypeOK ==
  /\ main \in {"spawn", "select", "flood", "wait", "clean", "exited", "failed", "undefined"}
  /\ serverMode \in {"ON", "GRACEFUL", "OFF"}
  /\ pending \subseteq Signals
  /\ args \in Clients \cup {NoClient}
  /\ worker \in [Workers -> {"none", "created", "loop", "pop", "popped", "busy", "again", "freed", "ended"}]
  /\ serving \in [Workers -> Jobs]
  /\ workList \in Seq(Jobs)
  /\ workerCounter \in Nat
  /\ toFlood \in Nat
  /\ client \in [Clients -> {"none", "created", "loop", "reading", "waiting", "ended"}]
  /\ requests \in [Clients -> Nat]
  /\ answers \in [Clients -> Seq(Asked \cup {Again})]

\* workerCounter counts the workers that have started and not ended, on every
\* way a worker can end: when main stops waiting for zero, no worker that
\* counted itself can still touch the files that clean_cache is about to free.
\* (Not so after SIGINT: the loop ends without worker_sub, and nobody waits.)
CountsWorkers ==
  serverMode # "OFF" => workerCounter = Cardinality({w \in Workers : Registered(w)})

\* Once the list is flooded there is an END_WORKER for each worker left, the
\* ones that start late included: no worker blocks the graceful end.
EndForEach ==
  main = "wait" =>
    Cardinality({w \in Workers : worker[w] # "ended"}) <=
      Cardinality({i \in DOMAIN workList : workList[i].op = "END_WORKER"})
      + Cardinality({w \in Workers : worker[w] = "popped" /\ serving[w].op = "END_WORKER"})

\* A request is in one place at a time (in the work list, with a worker, or
\* answered), and its one answer is what the client thread waits for: answers
\* do not pile up and shift those of later requests.  The job of a CLOSE_FILE
\* is the exception, from its first answer on.
Places(c) ==
  Cardinality({i \in DOMAIN workList : workList[i].client = c})
  + Cardinality({w \in Workers : serving[w].client = c}) + Len(answers[c])
AnsweredTwice(c) ==
  \/ \E w \in Workers : serving[w].client = c /\ worker[w] \in {"again", "freed"}
  \/ \E i \in DOMAIN answers[c] : answers[c][i] = Again
OneAnswer ==
  \A c \in Clients :
    AnsweredTwice(c) \/ Places(c) <= IF client[c] = "waiting" THEN 1 ELSE 0

\* What makes these four inductive: the mode and the number still to flood
\* follow from where main is, a worker has a job of a client from Dispatch to its
\* last answer and none outside, and the END_WORKERs to come count before main
\* waits as well.
ModeOfMain ==
  /\ main \in {"spawn", "select"} => serverMode = "ON" /\ toFlood = Cardinality(Workers)
  /\ main \in {"flood", "wait"} => serverMode = "GRACEFUL"
  /\ main = "wait" => toFlood = 0

ServesAJob ==
  \A w \in Workers :
    /\ worker[w] \in {"busy", "again", "freed"} => serving[w] # NoJob
    /\ worker[w] \in {"none", "created", "loop", "pop", "ended"} => serving[w] = NoJob

EndsToCome ==
  main \in {"spawn", "select", "flood", "wait"} =>
    Cardinality({w \in Workers : worker[w] # "ended"}) <=
      Cardinality({i \in DOMAIN workList : workList[i].op = "END_WORKER"})
      + Cardinality({w \in Workers : worker[w] = "popped" /\ serving[w].op = "END_WORKER"})
      + toFlood

IInv == TypeOK /\ ModeOfMain /\ ServesAJob /\ CountsWorkers /\ EndsToCome /\ OneAnswer

\* A worker in the middle of a job on a file, and a client that the server waits
\* for or whose job may wait for another: its own job is in the middle, or its
\* thread has an answer to send.
Held(w) == worker[w] \in {"busy", "again", "freed"} /\ serving[w].op # "CLOSE_CONNECTION"
UnderWay(c) == answers[c] # <<>> \/ \E w \in Workers : Held(w) /\ serving[w].client = c

\* What a connection depends on: its own job ends and its answer is taken, and
\* not every worker stays in the middle of a job for ever.
OneWorkerFree == []<>(\E w \in Workers : ~Held(w))
KeepsUp(c) == []<>~UnderWay(c)

\* While no signal arrives and no worker is lost to an unknown operation, each
\* request is answered: a job that never ends, because its client neither speaks
\* nor hangs up, costs the server one worker and the other connections nothing
\* (unless they wait for a file that job has locked, and then their jobs do not
\* end either).  Or the process ends, by what another client does.
Answered ==
  \A c \in Clients :
    OneWorkerFree /\ KeepsUp(c) => (client[c] = "waiting" ~> (client[c] # "waiting" \/ ~Alive))

\* SIGHUP ends the server, whatever the clients go on asking, unless one of them
\* keeps a worker in the middle of its job for ever.
GracefulEnds == (\A w \in Workers : []<>~Held(w)) => (serverMode = "GRACEFUL" ~> ~Alive)

\* A request that was in the list before the server began to end, with every
\* worker started and nothing in front of it that ends a worker, is carried
\* out, also when SIGHUP arrives right after it: main does not return before.
\* It is lost only when SIGINT arrives or a thread ends the whole process.
Accepted(c) == \E i \in DOMAIN workList : workList[i].client = c
InHand(c) == Accepted(c) \/ \E w \in Workers : serving[w].client = c
Ending == {"END_WORKER", "UNKNOWN"}
AllAtWork ==
  /\ \A w \in Workers : Registered(w)
  /\ \A i \in DOMAIN workList : workList[i].op \notin Ending
  /\ \A w \in Workers : worker[w] = "popped" => serving[w].op \notin Ending
AcceptedIsServed ==
  \A c \in Clients :
    OneWorkerFree /\ KeepsUp(c) =>
      ((Alive /\ Accepted(c) /\ AllAtWork)
         ~> (~InHand(c) \/ serverMode = "OFF" \/ main \in {"failed", "undefined"}))

=============================================================================
