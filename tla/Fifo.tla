-------------------------------- MODULE Fifo --------------------------------
(***************************************************************************)
(* What a List of queue.c promises its users: elements leave in the order  *)
(* in which they came, each to one consumer.                               *)
(***************************************************************************)
EXTENDS Sequences

CONSTANTS Nodes, Consumers, NULL

VARIABLES
  queue, \* the elements, the next to leave first
  held   \* consumer -> the element it has taken and not yet given back, or NULL

InUse == {queue[i] : i \in DOMAIN queue} \cup {held[c] : c \in Consumers}

Init == queue = <<>> /\ held = [c \in Consumers |-> NULL]

Put(n) == n \notin InUse /\ queue' = Append(queue, n) /\ UNCHANGED held

Take(c) ==
  /\ queue # <<>> /\ held[c] = NULL
  /\ held' = [held EXCEPT ![c] = Head(queue)]
  /\ queue' = Tail(queue)

GiveBack(c) == held' = [held EXCEPT ![c] = NULL] /\ UNCHANGED queue

Next == (\E n \in Nodes : Put(n)) \/ (\E c \in Consumers : Take(c) \/ GiveBack(c))

Spec == Init /\ [][Next]_<<queue, held>>

=============================================================================
