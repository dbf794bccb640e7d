# A file-storage server, modelled

TLA+ models, TLC configurations and TLAPS proofs for the file-storage server in
`src/`: a C program that keeps a bounded number of files in memory for clients
that talk to it over a Unix socket.

## The system

| Component | Source | State | Operations |
|---|---|---|---|
| file store | `src/src/memory.c` | the list at `serverMetadata.memory`, the counters `nCurrentFile` and `nCurrentMemoryUsed`, two peaks, `memoryLock`, `metadataLock`, and per file name, size, `isOpen`, `lockFile` | `create_file`, `add_file_to_memory`, `inMem`, `find_file` with `policy_routine`, `is_action_legal`, `cache_algorithm`, the pops, `free_file`, `write_to_file`, `remove_generic_file`, `get_head`, `next`, `clean_cache` |
| worker threads | `src/src/server.c`, `worker_thread` | the job in hand and local pointers | one case per operation of a job |
| blocking lists | `src/src/queue.c` | `list_head`, `tail`, `number_of_nodes`, the links, a condition variable | `push_node_to_list`, `pop_element_from_tail` |
| process | `src/src/server.c`, `server_utils.c` | `serverMode`, the worker counter, the argument of a client thread | accept, spawn, signal handlers, `flood_list`, `wait_on_worker_number` |
| client thread | `src/src/server.c`, `client_thread` | the socket and the list of answers | read a request, push a job, wait for the answer, send it |
| wire protocol | `src/src/prot.c`, `src/headers/prot.h` | none | numbers and length-prefixed messages |
| client library | `src/src/clientutils.c` | the socket | one function per operation, each a dialogue; `parseArgs`, `lookup` |
| client program | `src/src/client.c` | the list of actions of its command line | a sequence of library calls |
| configuration, log, utilities | `parser.c`, `log.c`, `utils.c` | `configFile`, the log file | start-up reading, formatted output, wrappers |

The main thread accepts connections and starts a thread for each.  A client
thread turns a request into a job and pushes it on the work list; a worker of a
fixed pool pops it, works on the store, talks to the client directly where data
is exchanged, and pushes the job on the list of answers of the connection, where
the client thread waits.  SIGHUP ends the server gracefully (an `END_WORKER` job
for each worker, behind the jobs already there), SIGINT and SIGQUIT at once.

What is hard:

* Every function of `memory.c` is a critical section, or several, and an
  operation is a sequence of them.  What a worker learnt in one section (a
  pointer, a count, that a name is new) may be false in the next.
* `lockFile` is held across a blocking send, and `write_to_file` waits for it
  with `metadataLock` held.
* Many code paths end the whole process: a send to a client that hung up, a file
  that is gone on the second lookup, a name of 256 characters or more.
* A job receives from its client and sends to it, with no deadline: a client that
  lives and is silent holds a worker.
* Signals, late threads and jobs in flight meet at shut-down, and main frees the
  files while, after SIGINT, a worker may be using them.
* A number on the socket says nothing of what it is.  Client and server agree on
  who speaks next only as long as both take the same branch, and two threads of
  the server read the same socket.  `recv_number` returns an uninitialised number
  when the other side is gone.

What makes each part correct: the list stays a list and its counters say what it
holds (file store); a file that is being sent stands still (workers); elements
come out once, in order, and no wake-up is lost (lists); each request gets one
answer, every worker is told to stop and is counted (process); a stop ends, the
graceful one with nothing left in memory; every number is read as what it was sent
as, and a call returns what was answered to it (protocol).
`PROJECT.json` lists the hazards line by line with the properties that cover them.

## The modules

| Module | What it is |
|---|---|
| `Memory` | the store: variables, reading operators, one operator per writing section of `memory.c` |
| `Workers` | extends `Memory`: the operations of `worker_thread`, one action per critical section |
| `Shutdown` | extends `Workers`: main once it is told to stop, `printFiles` and `clean_cache`, beside the workers |
| `Cache` | what the store promises: a bounded list of files with distinct names, evicted from its old end, from which a removal takes the file that was asked for, and which a graceful end empties |
| `StoreAsCache` | extends `Shutdown`: the refinement of `Cache`, and what else holds with one worker |
| `StoreClaims` | extends `Workers`: what comments say of the store and the code does not keep |
| `Fifo`, `Queue` | a queue with several consumers, and `queue.c` with its pointers that implements it |
| `Server`, `ServerClaims` | threads, jobs, answers, signals; a claim that does not hold |
| `Protocol` | one connection: the library call of the client, its thread in the server, the worker, and the socket between them |
| `ClientProgram` | pure: the calls a command line can lead to (`parseArgs` and `main`) |
| `MemoryProofs`, `WorkersProofs` | lemmas about the list operations; the inductive invariant of the store and the theorems |
| `BytesProofs`, `ShutdownProofs` | extend them: the byte counter, and main at shut-down beside the workers |
| `StoreAsCacheProofs` | extends `ShutdownProofs`: the inductive invariant of one worker and main, what holds with one worker, and that it implements `Cache` |
| `QueueProofs` | the inductive invariant of `queue.c` and its refinement of `Fifo` |
| `ServerProofs` | the inductive invariant of the process and the theorems |
| `ProtocolProofs` | the inductive invariant of a connection and the theorems |
| `MCWorkers`, `MCStore`, `MCProtocol` | symmetry sets, the view, and the programs of the client for TLC |

### How Workers corresponds to the code

A worker is a program counter and the locals of its job (`frame[w]`).  An action
is one critical section together with the thread-local code up to the next one:

| Operation | Actions, in order |
|---|---|
| create | `OpenInMem`, `IsActionLegal` [`PlanFiles`, (`PopFile`, `FreeFile`)*, `PlanMemory`, (`MoreFiles`, `PopMemory`, `SubtractPopped`, `FreeMemory`)*], `AddCheck`, `AddCount`, `AddFirst` or `AddHead`, `SetFileOpen` |
| lookup (`find_file`) | `FindInMem`, `FindScan`, under LRU `FindPolicy` |
| open | `OpenInMem`, lookup, `SetFileOpen` |
| close | lookup, `SetFileClose`, then on into read, or `ClosedJobFreed` |
| read | lookup, `ReadCheck`, `ReadLock`, `ReadSend` |
| write | lookup, `IsActionLegal` [...], `RecvMessage`, a second lookup, `WriteMeta`, `WriteFile` |
| append | the same without the second lookup |
| list (`READN_FILE`) | `CountFiles`, `GetHead`, (`SendN`, `SendNNext`)* |
| remove | lookup, `RemoveInMem`, a second lookup under LRU, `RemovePop`, `RemoveFree` |

A section under `memoryLock` does not block, so it needs no lock variable;
`metadataLock` and `lockFile` are variables because their holders do block.  The list is
a sequence of addresses, the heap a function from addresses to structs or `NULL`, and an
address can be used again after a free.  `SubtractPopped` is a step of its own because
the size of a popped file is read after the unlock, when another worker may have written
to it. `lost` keeps the lists that `add_file_to_memory` made unreachable by overwriting
the head pointer. Where the code would follow a null pointer or one to a freed struct
(`FollowsBadPointer`) the run ends in the state "undefined", about which nothing is
claimed; where it calls `exit` it ends in "exited".  So the safety properties say what
holds for as long as the server runs, races included.

### How Queue and Server correspond

In `Queue` a call is one step up to its return or its wait.  A waiter may wake without a
signal, and a consumer that was not waiting may take the element first.
`wake_up_all_readers` is a wake-up of every waiter, that is, several spurious ones. In
`Server` a job is carried out in one step and the lists are sequences.  That step need
not come: a job on a file receives from its client and sends to it (`server.c:200`,
`:228`, `:239`, `:280`), or waits for a lock whose holder does, so `Serve` has no
fairness but for `CLOSE_CONNECTION`.  Instead of ending, a job may end the whole process
(`JobFails`: the `exit` of a failed send, of `set_file_open(NULL)`, of a removal that
finds nothing).  A request whose name has `MAXNAME` characters or more makes `jobInit`
return NULL, which ends the process, too (`NameTooLong`).  The modes ON, GRACEFUL and
OFF, the delivery of signals inside `pselect` only, the worker counter and the way of
each job from client thread to worker and back are those of the code.  A client may ask
for an operation the switch does not know. The job of a `CLOSE_FILE` whose file is not
found is answered once.  Else it is answered, runs on into `READ_FILE` and is answered
again (`ServeAgain`); the client thread frees it after the first answer, so the worker
(`UseFreedJob`) or the client thread (`AnswerFreed`) then uses freed memory and the run
ends as "undefined".

### How Shutdown corresponds

`mode` is `serverMode` and `main` where the main thread is.  `StopGracefully` is
the return of `wait_on_worker_number`, so every worker is idle: it has left.  (A
worker that had not started by then would still take jobs; `Server` has those, and
`CountsWorkers` counts those that have.)  `StopAtOnce` is SIGINT: workers go on
with the job they have and main goes on beside them.  `Server` does all this in its
one step `Clean`.

### How Protocol and ClientProgram correspond

`Script` is the receives, sends and tests of each library function after its `send_req`,
and each step of it is an action (`ClientContinue`, `ClientCount`, `ClientSize`...).
The server's side is `client_thread`, which reads a request (`ThreadOp` to
`ThreadFlags`, where a name that does not fit ends the server), waits for the answer and
sends it (`ThreadAnswer` to `ThreadFree`), and `worker_thread` with one action per
exchange.  What a worker finds in the store is a choice, as other connections change the
store at any moment; the ways the store itself can end the server are in `Workers`.

An item on the socket carries what it was sent as, beside its value.  The code
cannot see it, and no guard does, except that a reader that meets bytes where it
reads a number, or the other way round, ends the run as "garbled": what the threads
make of bytes cut out of a message is followed no further.  `strayed`
collects the ways in which the two sides come apart, seven, all met in the code:

| Way | Where |
|---|---|
| "CLOSE_FILE runs on" | `server.c:179`: after its answer the worker sends on as for a read |
| "READN_FILE of an empty store" | `server.c:296`: NO_CONTINUE where the client reads a count |
| "APPEND_FILE refused" | `server.c:273`: the data is not read |
| "break in readNFiles" | `clientutils.c:179`: the other files are not read |
| "return in writeFile" | `clientutils.c:256`, `:268`: the worker still waits for a size or for data |
| "empty file in writeFile" | `clientutils.c:273`: the loop never ends |
| "hang-up" | the client is killed, in touch or after any of the above, or ends without `closeConnection` |

The properties hold for as long as none of these has happened (`InTouch`), so they
say that there is no eighth.  `HangUpFreesWorker` holds after all of them: a client
that is killed, in the loop of `clientutils.c:273` for instance, frees the worker that
is on its call, or the server ends.  It does not hold of one kind of job, and excepts it
by name: when the client is gone `recv_number` returns what is on the stack, and when
that is no operation the worker that takes the job is lost for good (`WorkerLeaves`,
`server.c:373`).

`CallsOf` gives the sequences of calls of a command line: a `-w` of at most so many
files, a `-r` that stops where a file cannot be stored, the crash of a `-R` without `-d`
(`client.c:255`), and the action that is lost after a `-w` of a directory that is not
there (`client.c:172`).  A `-w` without a number sends nothing (`client.c:175`).  With
no action at all the program ends in `lookup`, before it connects.

## What the runs show

| Run | Instance | Shows |
|---|---|---|
| `store_files` | 2 workers, 2 names, 3 addresses, `MaxFiles` 2, FIFO and LRU | `TypeOK`, `OneOwner`, `CountExact`, `ScanReaches`, `StableWhileSent` for all operations without data |
| `store_bytes` | 2 workers, create, read, write and append, 2 names, 3 addresses, writes of 1 and 3 units, `MaxMemory` 2, LRU | `BytesCovered`, `OneOwner`, `StableWhileSent` with writes, evictions and refused writes |
| `store_sequential` | 1 worker and main, 3 names, 2 addresses, `MaxFiles` 2, `MaxMemory` 4, FIFO and LRU, a stop of either kind at any moment | `ImplementsCache`, `ExactAccounts`, `EndsOnHangUp`, `JobsEnd`, `FreedOnce`, `GracefulLeavesNothing`, `StopEnds` |
| `queue` | 4 nodes, 3 consumers | `WellLinked`, `ImplementsFifo`, `Delivered` |
| `server` | 2 workers, 2 connections, 2 requests each, both signals, unknown operations, jobs that never end or end the process | `TypeOK`, `CountsWorkers`, `EndForEach`, `GracefulEnds`, `AcceptedIsServed` |
| `answers` | 2 workers, 2 connections, 3 requests each, `CLOSE_FILE` among them, jobs that never end or end the process, no signal | `OneAnswer`, `Answered` |
| `dialogue` | 1 connection; the programs of all command lines of one option, and of two that begin with `-d`, `-w`, `-W` or `-r`, and the library calls `client.c` never makes; names that do not fit; a hang-up at any moment | `TypeOK`, `ReadAsSent`, `CleanBetweenCalls`, `WritesWhatCame`, `OwnAnswer`, `Returns`, `HangUpFreesWorker` |
| `files_over_limit`, `memory_over_limit`, `remove_fails`, `unlocked_send`, `thread_args` | the smallest that show it | each a statement of a comment or of the documentation that a behaviour of the code contradicts |

`OneOwner` is the central one: each struct is in the list once, or lost, or in
the hands of one worker, so no file is freed twice, none is freed while listed and
no walk meets a cycle.  It survives every race of the code.  What does not survive
two workers is what the five violations show, and what `ExactAccounts`,
`EndsOnHangUp` and `ImplementsCache` therefore claim for one worker only: limits,
distinct names, no lost file, no crash.

`EndsOnHangUp` is about jobs of six operations: create, open, read, write,
`READN_FILE` and remove.  It is no statement about everything a client can ask for.
`APPEND_FILE` writes through a pointer its own eviction may have freed, `CLOSE_FILE` runs
on with a job its client thread frees, and an over-long name ends the server before
there is a job; `Workers` has the first two, `Server` and `Protocol` the last two.

What `Server` promises in the end is conditional, because the code gives no more:

* `GracefulEnds`: SIGHUP ends the server if no worker stays in one job on a file for
  ever.  With the repository's own client and an empty file (`clientutils.c:273`) one does,
  and `wait_on_worker_number` waits for as long as that client lives.
* `Answered` and `AcceptedIsServed`: a connection gets its answer if it keeps up itself
  (`KeepsUp`) and some worker is free again and again (`OneWorkerFree`).  Other clients may
  then hold the other workers for ever.  Both end with the process, which another client
  can bring about.  One wait is not visible as such in `Server`: a job that waits for a file
  or for `metadataLock` while another worker sends (`memory.c:422`) is a job that does not
  end, and falls under the same hypotheses.

### Bounds

Two workers and two connections are enough for every race in the code, which are all
between two sections of one worker and one or more of another.  Three addresses for two
places let a new file reuse the address of a freed one; with one worker, which evicts
before it creates, two are enough. `MaxTracked` bounds the bytes at the moment a write
is taken on (the counter itself can pass it); in `store_sequential` it is out of the
way.  Three names for two places force evictions.  Byte counts are units: below, at and
above the room there is.  `MaxRequests` bounds the requests of one connection.  The view
of the store runs hides the two peaks, which only grow and which no guard reads; the
symmetry sets permute workers, addresses and names, none of which a definition tells
apart.  In `dialogue` one option per command line would do, because `CleanBetweenCalls`
makes the state between two calls the initial one; the second option shows it.  `Sizes`
0, 2 and 13 against a `MaxMemory` of 12 are an empty file, one that is taken and one
that is refused; `NameLengths` 3 and 9 against a `MaxName` of 8 are a name that fits and
one that does not. `Garbage` holds zero, a known operation and an unknown one.  In
`Protocol` a worker is always free to take the job and sockets have room for what is
sent.  `server`, `answers`, `thread_args` and `dialogue` allow deadlock, because the
process ends and clients stop asking.

### Fairness

* `store_sequential`: a worker that has a job keeps running, and so does main once
  it is told to stop.  A send or receive
  ends because the client answers or hangs up; a client that does neither can
  stall the server for good (see the hazards), and nothing is claimed about it.
* `queue`: consumers in a call run, and a caller comes back.  Nobody need push,
  and spurious wake-ups need not happen: `Delivered` rests on the signals alone.
* `server`, `answers`: main, the workers between two jobs and the client threads
  between two exchanges run when they can, and `pselect` delivers a signal that has
  arrived.  Nothing is assumed of clients and signals, and so nothing of a step that
  needs a client: carrying out a job on a file, sending an answer.  What a property needs
  of them is its hypothesis.
* `dialogue`: the client program and both threads go on when they can, and so does a
  reader that meets what does not fit (`Garble`).  Nobody need hang up, so `Returns` does
  not rest on it.

## What is proved

`WorkersProofs` proves, for every set of workers, names and addresses and every
limit, `Spec => []IInv` and from it `TypeOK`, `OneOwner`, `CountExact`,
`ScanReaches` and, as an action property, `StableWhileSent`.  The assumptions are
those on the constants in `Memory` and `Workers`: finitely many addresses, `NULL`
different from what it is confused with, limits that are natural numbers.

`IInv` adds to the properties what they need to be inductive:

* `FrameOK`: which locals are set where.  Only a worker that is about to free has a
  victim, and one that is about to link has a file: without it a step could give
  a worker a file it does not own.
* `OneOwner` itself is needed for the count: an insertion adds one to the linked
  files because the file was not linked, a removal takes one because it was linked
  once.
* `CountCovers`: the count is at least the length of the list, which makes
  `InMem`'s bounded walk complete.
* `SendsLocked`: a worker between `ReadLock` and `ReadSend` holds the mutex of an
  allocated file, which is why a free, a write or a change of `isOpen` waits.

Each action has its lemma.  Those that only move a frame go through `FrameOnly`,
those that change one struct through `FileStep`, those that change the list through
`LinkStep`, `PopStep`, `FreeStep` and the lemmas of `MemoryProofs` on what a push, a
pop and a move do to the range and the injectivity of a sequence.

`ServerProofs` proves, for every set of workers and clients and any bound on the
requests, `Spec => []IInv` of the process and from it `TypeOK`, `CountsWorkers`,
`EndForEach` and `OneAnswer`.  Its `IInv` adds:

* `ModeOfMain`: the mode and the number of `END_WORKER`s still to push follow from
  where main is, so that a signal cannot interrupt a flood that has begun.
* `ServesAJob`: a worker has a job of a client from `Dispatch` to its last answer and
  none before and after, which keeps a request in one place.
* `EndsToCome`: the `END_WORKER`s in the list, in hand and still to be pushed are
  enough for the workers that have not left, in the middle of the flood as well as
  after it; `EndForEach` is the case where none is still to be pushed.

`BytesProofs` proves `BytesCovered`, that `nCurrentMemoryUsed` never wraps.  It is not
inductive: an `APPEND_FILE` may write through a pointer to a freed struct whose
address a worker has meanwhile given to a file it has not linked yet, and when that
file is linked the list gains bytes.  `CountedCovered` therefore lets the counter cover
the files about to be linked as well.  `StepHasEffect` sorts the steps of a worker by
what they do to the files (nothing, link one, pop one, free one, write to one), and
`OwnershipMoves` says that a worker comes to own only files that were listed or that
were not allocated.

`ShutdownProofs` rests on these two.  `SInv` is `IInv`, the type of main's pointer and
`FreedOnce` itself: the file main has popped is nobody else's, and a worker's step
keeps that, because it frees and links only what it owns.  So `FreedOnce`, which TLC
checks with one worker, holds with any number, and so do `TypeOK`, `OneOwner` and
`CountExact` while main empties the list.  `BytesCovered` holds there, too: when main
pops a file, the counter and what it has to cover lose the same bytes.  The theorems are
about `SystemSpec`.

`StoreAsCacheProofs` proves what holds when one worker runs the store, for any names,
addresses, sizes and limits that `SequentialAssumption` allows: `ExactAccounts`,
`GracefulLeavesNothing` and `EndsOnHangUp`, the last by the name of
`SixOperationsEndOnHangUp`, as it is about the six operations named above.  `OneInv` is:

* `JobOK`: while the server is on nobody but the worker touches the store, so what it
  learnt in one section is still true in the next.  `JobOK` says for each label what
  that is: the operations that get there (`OpAt`), that its pointers lead to the listed
  file the job is about (`PointersOK`), and that the room it made and the files it has
  yet to send are as it counted them (`CountsOK`).  From it no label of the six
  operations follows a bad pointer (`NoFault`), and none reaches an `exit` but at a send
  or for want of memory.
* `StoreOK`: until a stop at once names are distinct, both limits hold, the bytes are
  exact, and every allocated file is listed or in the hands of the worker or of main.
* `MainOK`: where main is in each mode, and in a graceful end, when it is alone, that
  it finds the list as it left it.
* `SInv`, `CountedCovered` and `lost = {}`, which also hold after a stop at once, when
  main pops files beside the worker.

Each section has its lemma, by the name of its action with `On` at the end.

From `OneInv` it also proves that the store implements `Cache` (`StoreIsCache`), which
after a stop at once promises nothing:

* What the cache shows of the store depends on where the worker is: the whole list and
  no removal (`PlainView`), the whole list and the name asked for while
  `remove_generic_file` looks its file up (`AskedView`), or the list without its head
  while that file waits there to be popped (`GoneView`).
* Each section is an action of the cache or none.  The lookup of an LRU operation, a
  linked file, a new size or `isOpen`, a popped tail are one action each; of a removal,
  its begin asks and its lookup takes the file away, while the pop and the free change
  nothing the cache shows.  These lemmas end in `Cached`.
* They rest on the lemmas about sequences place by place (`WithoutPlaces`, `FilesMoved`,
  `FrontPlaces`): moving a file to the head of the list moves it in the cache.  The cache
  counts a byte by the place of its file and the store by the file's address;
  `UsedIsBytes` gives the bijection between the two, as no file is listed twice.
* An eviction is one the cache allows only because what made it necessary is still so
  when it comes (`CountsOK`), and a removal takes the file it was asked for because that
  file is still listed under its name (`PointersOK`).  Neither holds with a second worker.

`QueueProofs` proves `WellLinked` and `ImplementsFifo` for any nodes and consumers.
`QInv` is the types, `LinkedBy` (the chain from the tail is closed at both ends and
linked both ways, with as many distinct nodes as `number_of_nodes` says) and `QHeld`
(what a consumer was given is in no chain).  A chain is determined by its links
(`ChainUnique`), so each step is shown by writing down the chain that comes out of
it.  Every step maps to a `Put`, a `Take`, a `GiveBack` or a stutter of `Fifo`.

`ProtocolProofs` proves `TypeOK`, `ReadAsSent`, `CleanBetweenCalls`, `WritesWhatCame`
and `OwnAnswer`, for any programs, sizes, file counts and limits.  `PInv` is:

* the types, and `Bookkeeping`: which of the two threads has the job, and that it is
  answered twice at most.  Both hold after the sides have come apart, too.
* in touch, `InStep`: if the library function that runs reads everything that is on its
  way to it, each item as what it was sent as (`Leads`), it arrives at the step at which
  the threads of the server take it to be (`Phase`).  The looking ahead is needed because
  a worker sends several items before the client reads the first.

What `ReadAsSent` says of the next item is the first step of `Leads`; at an empty
script nothing can be on its way, which is `CleanBetweenCalls`.

All these inductive invariants were checked by TLC on the instances of the runs before
they were proved.  The induction theorems of the library that take an operator are out
of the provers' reach; where a proof needs induction over a sequence (`ChainUnique`, the
paths of `Leads`), it takes a least counterexample from `WFMin` instead.

Only model-checked: liveness (`JobsEnd`, `StopEnds`, `Delivered`, `Answered`,
`GracefulEnds`, `AcceptedIsServed`, `Returns`, `HangUpFreesWorker`), which is out of
TLAPS's reach as the fairness is stated with `ENABLED`.

## What is not modelled

* Byte counts of 2^31 and more, which `is_action_legal` cuts to an `int`.
* Several workers beside main at shut-down, and workers that start after it.
* The composition of `Protocol` with the store: what a worker finds there is a choice.
* Socket descriptors, and `openConnection`, whose deadline is never set.
* What the client prints and stores on disk.  (`-r` opens a file under the name it was
  given and reads it under its real path, `client.c:220`: the server answers both.)
* Log calls that read a file after its mutex is released (`server.c:202`), the
  `alg_trigger` statistic, formatting, paths, the configuration file, socket set-up.

## Plan

1. Done: the store and its workers, the list, the process, the dialogue and the client
   program, shut-down; the proofs of all of them for any number of workers, and those
   for one worker, the refinement of the cache included.
2. A width model of `is_action_legal` and the `(int)` casts of `cache_algorithm` over
   small widths against unbounded arithmetic.
