------------------------------- MODULE Cache --------------------------------
(***************************************************************************)
(* What the file store promises a client, with no workers, locks, pointers *)
(* or counters: a bounded list of files with distinct names, most recent   *)
(* first, from which only the oldest is evicted and only to make room.     *)
(* Recent means most recently looked up under LRU and most recently        *)
(* created under FIFO.  Told to stop gracefully it drops the files, most   *)
(* recent first; told to stop at once it promises nothing any more.        *)
(***************************************************************************)
EXTENDS Integers, Sequences, FiniteSets

CONSTANTS
  Names,     \* file names
  Sizes,     \* byte counts one write may bring
  MaxFiles,  \* how many files the store can contain
  MaxMemory, \* how many bytes the store can contain
  Policies,  \* a subset of {FIFO, LRU}
  NULL

VARIABLES
  files,  \* the files, most recent first
  asked,  \* the name a client has asked to remove, NULL if none
  policy, \* under LRU a lookup makes a file the most recent one
  mode    \* "ON", "GRACEFUL" or "OFF"

vars == <<files, asked, policy, mode>>

File == [name : Names, bytes : Nat, open : BOOLEAN]

\* The bytes of all the files, each by the place of its file and its own.
Used(s) == Cardinality(UNION {{i} \X (1..s[i].bytes) : i \in DOMAIN s})
Fits(s) == Len(s) <= MaxFiles /\ Used(s) <= MaxMemory

Without(s, i) == SubSeq(s, 1, i - 1) \o SubSeq(s, i + 1, Len(s))

Init == files = <<>> /\ asked = NULL /\ policy \in Policies /\ mode = "ON"

Create(n) ==
  /\ \A i \in DOMAIN files : files[i].name # n
  /\ files' = <<[name |-> n, bytes |-> 0, open |-> FALSE]>> \o files
  /\ Fits(files')

Open(i) == files' = [files EXCEPT ![i].open = TRUE]

Write(i, bytes) ==
  /\ files' = [files EXCEPT ![i].bytes = @ + bytes]
  /\ Fits(files')

Touch(i) ==
  /\ policy = "LRU"
  /\ files' = <<files[i]>> \o Without(files, i)

AskRemove(i) ==
  /\ asked = NULL
  /\ asked' = files[i].name
  /\ UNCHANGED files

\* The file that leaves is the one that was asked for, and the others stay
\* in their order.
Remove(i) ==
  /\ asked = files[i].name
  /\ files' = Without(files, i)
  /\ asked' = NULL

\* There is a request the store has no room for as it stands.
Full ==
  \/ Len(files) >= MaxFiles
  \/ \E bytes \in Sizes : Used(files) + bytes > MaxMemory

Evict ==
  /\ Full
  /\ files # <<>>
  /\ files' = Without(files, Len(files))

Update ==
  \/ \E n \in Names : Create(n)
  \/ \E i \in DOMAIN files :
       \/ Open(i)
       \/ \E bytes \in Sizes : Write(i, bytes)
       \/ Touch(i)
  \/ Evict

Removal == \E i \in DOMAIN files : AskRemove(i) \/ Remove(i)

Serve ==
  /\ mode = "ON" /\ UNCHANGED mode
  /\ \/ Update /\ UNCHANGED asked
     \/ Removal

Stop ==
  /\ mode = "ON" /\ mode' \in {"GRACEFUL", "OFF"}
  /\ UNCHANGED <<files, asked>>

Drop ==
  /\ mode = "GRACEFUL" /\ UNCHANGED mode
  /\ files # <<>> /\ files' = Tail(files)
  /\ UNCHANGED asked

Anything == mode = "OFF" /\ UNCHANGED mode

Next ==
  /\ Serve \/ Stop \/ Drop \/ Anything
  /\ UNCHANGED policy

Spec == Init /\ [][Next]_vars

=============================================================================
