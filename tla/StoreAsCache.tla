---------------------------- MODULE StoreAsCache ----------------------------
(***************************************************************************)
(* What holds of the store when one worker runs it (thread_workers = 1),   *)
(* so that no section of another job falls between two of its own.  It     *)
(* then implements Cache.tla, keeps exact accounts, and no job of the six  *)
(* operations that are here follows a bad pointer, or ends the server but  *)
(* for a client that hung up or want of memory.  None of it survives a     *)
(* second worker.                                                          *)
(*                                                                         *)
(* It is not said of the whole server.  APPEND_FILE is left out, as it     *)
(* writes through a pointer that its own eviction may have freed, and      *)
(* CLOSE_FILE, which runs on into READ_FILE with a job that is already     *)
(* answered: with either one a request does bring the server down.  So     *)
(* does a name that does not fit, before it is a job (NameTooLong of       *)
(* Server.tla, ThreadFlags of Protocol.tla).  A cache of one file and a    *)
(* write of all of MaxMemory are left out too, for which cache_algorithm   *)
(* evicts nothing.                                                         *)
(***************************************************************************)
EXTENDS Shutdown

ASSUME SequentialAssumption ==
  /\ \E w \in Workers : Workers = {w}
  /\ Ops \cap {"APPEND", "CLOSE"} = {}
  /\ MaxFiles > 1
  /\ \A k \in Sizes : k < MaxMemory

-----------------------------------------------------------------------------
(* The list as the files of the cache.                                     *)

\* remove_generic_file has moved its file to the head: it is as good as gone.
Removing == \E w \in Workers : frame[w].pc = "remove_pop"

Visible == IF Removing /\ memory # <<>> THEN Tail(memory) ELSE memory

AsFile(f) == [name |-> heap[f].filename, bytes |-> heap[f].usedMemory, open |-> heap[f].isOpen]

\* The name of the removal that remove_generic_file has begun.
Asked ==
  LET begun == {w \in Workers : frame[w].op = "POP" /\ frame[w].pc \in {"find_in", "find_scan", "find_policy"}}
  IN  IF begun = {} THEN NULL ELSE frame[CHOOSE w \in begun : TRUE].filename

C == INSTANCE Cache WITH files <- [i \in DOMAIN Visible |-> AsFile(Visible[i])],
                         asked <- Asked

\* The store is the cache Cache.tla describes: names are distinct, both limits
\* hold, only the oldest file is evicted and only for want of room, a removal
\* takes the file it was asked to and leaves the order of the others, and
\* under FIFO no lookup changes that order.  A graceful end drops the files
\* from the head; after a stop at once nothing is said.
ImplementsCache == C!Spec

-----------------------------------------------------------------------------

\* The counters say what the list holds, and no file is out of reach.  After a
\* stop at once a worker may write to a file that main has popped: the bytes
\* still cover the list, but no longer count it.
ExactAccounts ==
  /\ lost = {}
  /\ nCurrentFile = Len(memory)
  /\ nCurrentMemoryUsed >= Bytes(memory)
  /\ mode # "OFF" => nCurrentMemoryUsed = Bytes(memory)

\* A job that creates, opens, reads, writes, reads several files or removes one
\* makes no bad pointer and no exit of its own: while such jobs are all there is,
\* with names that fit, and nobody stops the server, it ends only at a send to a
\* client that hung up, or for want of memory.  The exits this rules out are those
\* of set_file_open (memory.c:70) and of a removal that finds nothing
\* (server.c:349), which a second worker brings about.
EndsOnHangUp ==
  [][ mode # "OFF" =>
      /\ server' # "undefined"
      /\ server' = "exited" => \/ server = "exited"
                               \/ main'.pc = "returned"
                               \/ \E w \in Workers :
                                    \/ Sending(frame[w])
                                    \/ frame[w].pc = "add_check" /\ Unused = {} ]_system

-----------------------------------------------------------------------------
(* A worker that has a job keeps running: the client it receives from or   *)
(* sends to answers or hangs up.  So does main once it was told to stop.   *)
(* Clients need not send jobs.                                             *)

Fairness ==
  /\ \A w \in Workers : WF_system(WorkerStep(w) /\ frame[w].pc # "idle")
  /\ WF_system(MainStep)
FairSpec == SystemSpec /\ Fairness

\* Every job ends, for a client that answers or hangs up: both eviction loops of
\* cache_algorithm stop and every file lock is released.
JobsEnd == \A w \in Workers : frame[w].pc # "idle" ~> frame[w].pc = "idle"

=============================================================================
