------------------------------- MODULE Queue --------------------------------
(***************************************************************************)
(* The blocking list of src/src/queue.c, which the server uses as the work *)
(* list (client threads push jobs, workers pop them) and as each client    *)
(* thread's list of answers.  A call runs under listLock up to where it    *)
(* returns or waits on listCond, so it is one step; a consumer that waits  *)
(* has given the lock back and takes it again when it is woken, after any  *)
(* number of other calls.                                                  *)
(***************************************************************************)
EXTENDS Integers, Sequences, FiniteSets

CONSTANTS
  Nodes,     \* addresses a Node can have
  Consumers, \* threads that call pop_element_from_tail
  NULL

ASSUME QueueAssumption == IsFiniteSet(Nodes) /\ NULL \notin Nodes

VARIABLES
  list_head, tail, number_of_nodes, \* the fields of the List
  prev, next,                       \* the fields of each Node
  consumer,                         \* "outside", "popping" or "waiting"
  held                              \* the Node a consumer got from its pop

vars == <<list_head, tail, number_of_nodes, prev, next, consumer, held>>
links == <<list_head, tail, number_of_nodes, prev, next>>

Waiting == {c \in Consumers : consumer[c] = "waiting"}

\* The elements from the tail on, as the prev pointers have them.
Chain ==
  LET back[k \in 1..number_of_nodes] == IF k = 1 THEN tail ELSE prev[back[k - 1]]
  IN  back

Init ==
  /\ list_head = NULL /\ tail = NULL /\ number_of_nodes = 0
  /\ prev = [n \in Nodes |-> NULL]
  /\ next = [n \in Nodes |-> NULL]
  /\ consumer = [c \in Consumers |-> "outside"]
  /\ held = [c \in Consumers |-> NULL]

-----------------------------------------------------------------------------
(* push_node_to_list.                                                      *)

\* create_node: an address that is neither in the list nor in a consumer's hands.
Fresh == Nodes \ ({Chain[k] : k \in DOMAIN Chain} \cup {held[c] : c \in Consumers})

LinkFirst(n) ==
  /\ prev' = [prev EXCEPT ![n] = NULL]
  /\ next' = [next EXCEPT ![n] = NULL]
  /\ list_head' = n
  /\ tail' = n

\* Mutant of LinkHead: the element is linked at the end that pops.
LinkTail(n) ==
  /\ next' = [next EXCEPT ![n] = NULL, ![tail] = n]
  /\ prev' = [prev EXCEPT ![n] = tail]
  /\ tail' = n
  /\ UNCHANGED list_head

LinkHead(n) ==
  /\ prev' = [prev EXCEPT ![n] = NULL, ![list_head] = n]
  /\ next' = [next EXCEPT ![n] = list_head]
  /\ list_head' = n
  /\ UNCHANGED tail

\* Mutant of Signal: a push wakes nobody.
NoSignal == UNCHANGED consumer

\* pthread_cond_signal wakes one waiting consumer, if there is one.
Signal ==
  IF Waiting = {} THEN UNCHANGED consumer
  ELSE \E c \in Waiting : consumer' = [consumer EXCEPT ![c] = "popping"]

Push(n) ==
  /\ n \in Fresh
  /\ IF list_head = NULL \/ number_of_nodes = 0 THEN LinkFirst(n) ELSE LinkHead(n)
  /\ number_of_nodes' = number_of_nodes + 1
  /\ Signal
  /\ UNCHANGED held

-----------------------------------------------------------------------------
(* pop_element_from_tail.                                                  *)

Call(c) ==
  /\ consumer[c] = "outside" /\ held[c] = NULL
  /\ consumer' = [consumer EXCEPT ![c] = "popping"]
  /\ UNCHANGED <<links, held>>

Wait(c) ==
  /\ consumer[c] = "popping" /\ number_of_nodes = 0
  /\ consumer' = [consumer EXCEPT ![c] = "waiting"]
  /\ UNCHANGED <<links, held>>

\* pthread_cond_wait may return when nobody signalled.
WakeUp(c) ==
  /\ consumer[c] = "waiting"
  /\ consumer' = [consumer EXCEPT ![c] = "popping"]
  /\ UNCHANGED <<links, held>>

UnlinkOnly ==
  /\ prev' = [prev EXCEPT ![tail] = NULL]
  /\ next' = [next EXCEPT ![tail] = NULL]
  /\ list_head' = NULL
  /\ tail' = NULL

\* Mutant of UnlinkTail: the new tail keeps its next pointer.
UnlinkTailOnly ==
  /\ tail' = prev[tail]
  /\ next' = [next EXCEPT ![tail] = NULL]
  /\ prev' = [prev EXCEPT ![tail] = NULL]
  /\ UNCHANGED list_head

UnlinkTail ==
  /\ tail' = prev[tail]
  /\ next' = [next EXCEPT ![prev[tail]] = NULL, ![tail] = NULL]
  /\ prev' = [prev EXCEPT ![tail] = NULL]
  /\ UNCHANGED list_head

\* The exit for a list that is counted as not empty but has neither end
\* (queue.c:73) has no step: WellLinked says that it is not reached.
Pop(c) ==
  /\ consumer[c] = "popping" /\ number_of_nodes # 0
  /\ IF number_of_nodes = 1 THEN UnlinkOnly ELSE UnlinkTail
  /\ number_of_nodes' = number_of_nodes - 1
  /\ consumer' = [consumer EXCEPT ![c] = "outside"]
  /\ held' = [held EXCEPT ![c] = tail]

\* The consumer is done with the element and frees the Node.
Release(c) ==
  /\ held[c] # NULL
  /\ held' = [held EXCEPT ![c] = NULL]
  /\ UNCHANGED <<links, consumer>>

Next ==
  \/ \E n \in Nodes : Push(n)
  \/ \E c \in Consumers : Call(c) \/ Wait(c) \/ WakeUp(c) \/ Pop(c) \/ Release(c)

Spec == Init /\ [][Next]_vars

\* A thread in a call runs, a worker and a client thread come back for more;
\* producers need not push, and a wait ends only for a signal.
Fairness ==
  \A c \in Consumers : WF_vars(Call(c)) /\ WF_vars(Wait(c)) /\ WF_vars(Pop(c)) /\ WF_vars(Release(c))
FairSpec == Spec /\ Fairness

-----------------------------------------------------------------------------
(* Properties.                                                             *)

\* The doubly linked list stays one: the prev chain from the tail has
\* number_of_nodes distinct nodes and ends at the head, the next pointers are
\* its inverse, and a node a consumer holds is not in it.  So no pop gets the
\* same node as another, and "Something really wrong" (queue.c:75) is false.
WellLinked ==
  /\ number_of_nodes = 0 <=> list_head = NULL
  /\ number_of_nodes = 0 <=> tail = NULL
  /\ \A k \in DOMAIN Chain : Chain[k] \in Nodes \ {held[c] : c \in Consumers}
  /\ \A j, k \in DOMAIN Chain : Chain[j] = Chain[k] => j = k
  /\ number_of_nodes > 0 =>
       /\ Chain[number_of_nodes] = list_head
       /\ prev[list_head] = NULL
       /\ next[tail] = NULL
       /\ \A k \in 2..number_of_nodes : next[Chain[k]] = Chain[k - 1]

\* The list is the queue Fifo.tla describes.
F == INSTANCE Fifo WITH queue <- Chain
ImplementsFifo == F!Spec

\* No wakeup is lost: with one signal for each push, an element does not stay
\* in the list while every consumer waits.
Delivered == \A n \in Nodes : (n = tail) ~> (n # tail)

=============================================================================
