--------------------------- MODULE ProtocolProofs ---------------------------
(***************************************************************************)
(* Proofs about Protocol, for all programs, sizes, file counts and names.  *)
(*                                                                         *)
(* The types and the bookkeeping of the two threads hold in every state.   *)
(* The rest holds as long as the two sides are in touch, by an invariant   *)
(* that looks ahead: if the library function that runs reads all that is   *)
(* on its way to it, each item as what it was sent as (Leads), it arrives  *)
(* where the threads of the server take it to be (Phase).  What a reader   *)
(* finds, what is left between two calls, what a call returns and what a   *)
(* worker writes follow from it.                                           *)
(***************************************************************************)
EXTENDS Protocol, WellFoundedInduction, SequenceTheorems, TLAPS

-----------------------------------------------------------------------------
(* Sequences that are written out.                                         *)

\* A concatenation is known by its parts.
LEMMA ConcatIs ==
  ASSUME NEW S, NEW s \in Seq(S), NEW t \in Seq(S), NEW r \in Seq(S),
         Len(r) = Len(s) + Len(t),
         \A i \in 1..Len(s) : r[i] = s[i],
         \A i \in 1..Len(t) : r[Len(s) + i] = t[i]
  PROVE  s \o t = r
<1>1. /\ s \o t \in Seq(S) /\ Len(s \o t) = Len(s) + Len(t)
      /\ Len(s) \in Nat /\ Len(t) \in Nat
      /\ \A i \in 1..(Len(s) + Len(t)) : (s \o t)[i] = IF i <= Len(s) THEN s[i] ELSE t[i - Len(s)]
  BY ConcatProperties, LenProperties
<1>2. ASSUME NEW i \in 1..Len(r) PROVE (s \o t)[i] = r[i]
  <2>1. CASE i <= Len(s)
    BY <1>1, <2>1
  <2>2. CASE ~(i <= Len(s))
    <3>1. i - Len(s) \in 1..Len(t) /\ Len(s) + (i - Len(s)) = i
      BY <1>1, <2>2
    <3>2. r[i] = t[i - Len(s)]
      BY <3>1
    <3>3. QED
      BY <1>1, <2>2, <3>2
  <2>3. QED
    BY <2>1, <2>2
<1>3. QED
  BY <1>1, <1>2, SeqEqual

\* Five and two are seven.
LEMMA FiveTwo ==
  ASSUME NEW a, NEW b, NEW c, NEW d, NEW e, NEW x, NEW y
  PROVE  <<a, b, c, d, e>> \o <<x, y>> = <<a, b, c, d, e, x, y>>
<1> DEFINE S == {a, b, c, d, e, x, y}
           s == <<a, b, c, d, e>>
           t == <<x, y>>
           u == <<a, b, c, d, e, x, y>>
<1>1. s \in Seq(S) /\ t \in Seq(S) /\ u \in Seq(S)
  OBVIOUS
<1>2. /\ Len(u) = Len(s) + Len(t)
      /\ \A i \in 1..Len(s) : u[i] = s[i]
      /\ \A i \in 1..Len(t) : u[Len(s) + i] = t[i]
  OBVIOUS
<1> HIDE DEF S, s, t, u
<1>3. s \o t = u
  BY <1>1, <1>2, ConcatIs
<1>4. QED
  BY <1>3 DEF s, t, u

\* Three and two are five.
LEMMA ThreeTwo ==
  ASSUME NEW a, NEW b, NEW c, NEW x, NEW y
  PROVE  <<a, b, c>> \o <<x, y>> = <<a, b, c, x, y>>
<1> DEFINE S == {a, b, c, x, y}
           s == <<a, b, c>>
           t == <<x, y>>
           u == <<a, b, c, x, y>>
<1>1. s \in Seq(S) /\ t \in Seq(S) /\ u \in Seq(S)
  OBVIOUS
<1>2. /\ Len(u) = Len(s) + Len(t)
      /\ \A i \in 1..Len(s) : u[i] = s[i]
      /\ \A i \in 1..Len(t) : u[Len(s) + i] = t[i]
  OBVIOUS
<1> HIDE DEF S, s, t, u
<1>3. s \o t = u
  BY <1>1, <1>2, ConcatIs
<1>4. QED
  BY <1>3 DEF s, t, u

\* Two and two are four.
LEMMA TwoTwo ==
  ASSUME NEW a, NEW b, NEW x, NEW y
  PROVE  <<a, b>> \o <<x, y>> = <<a, b, x, y>>
<1> DEFINE S == {a, b, x, y}
           s == <<a, b>>
           t == <<x, y>>
           u == <<a, b, x, y>>
<1>1. s \in Seq(S) /\ t \in Seq(S) /\ u \in Seq(S)
  OBVIOUS
<1>2. /\ Len(u) = Len(s) + Len(t)
      /\ \A i \in 1..Len(s) : u[i] = s[i]
      /\ \A i \in 1..Len(t) : u[Len(s) + i] = t[i]
  OBVIOUS
<1> HIDE DEF S, s, t, u
<1>3. s \o t = u
  BY <1>1, <1>2, ConcatIs
<1>4. QED
  BY <1>3 DEF s, t, u

\* One and two are three.
LEMMA OneTwo ==
  ASSUME NEW a, NEW x, NEW y
  PROVE  <<a>> \o <<x, y>> = <<a, x, y>>
<1> DEFINE S == {a, x, y}
           s == <<a>>
           t == <<x, y>>
           u == <<a, x, y>>
<1>1. s \in Seq(S) /\ t \in Seq(S) /\ u \in Seq(S)
  OBVIOUS
<1>2. /\ Len(u) = Len(s) + Len(t)
      /\ \A i \in 1..Len(s) : u[i] = s[i]
      /\ \A i \in 1..Len(t) : u[Len(s) + i] = t[i]
  OBVIOUS
<1> HIDE DEF S, s, t, u
<1>3. s \o t = u
  BY <1>1, <1>2, ConcatIs
<1>4. QED
  BY <1>3 DEF s, t, u

\* Three and one are four.
LEMMA ThreeOne ==
  ASSUME NEW a, NEW b, NEW c, NEW x
  PROVE  <<a, b, c>> \o <<x>> = <<a, b, c, x>>
<1> DEFINE S == {a, b, c, x}
           s == <<a, b, c>>
           t == <<x>>
           u == <<a, b, c, x>>
<1>1. s \in Seq(S) /\ t \in Seq(S) /\ u \in Seq(S)
  OBVIOUS
<1>2. /\ Len(u) = Len(s) + Len(t)
      /\ \A i \in 1..Len(s) : u[i] = s[i]
      /\ \A i \in 1..Len(t) : u[Len(s) + i] = t[i]
  OBVIOUS
<1> HIDE DEF S, s, t, u
<1>3. s \o t = u
  BY <1>1, <1>2, ConcatIs
<1>4. QED
  BY <1>3 DEF s, t, u

\* One and one are two.
LEMMA OneOne ==
  ASSUME NEW a, NEW x
  PROVE  <<a>> \o <<x>> = <<a, x>>
<1> DEFINE S == {a, x}
<1>1. <<a>> \in Seq(S) /\ <<x>> \in Seq(S) /\ <<a, x>> \in Seq(S)
  OBVIOUS
<1>2. <<a>> \o <<x>> \in Seq(S) /\ Len(<<a>> \o <<x>>) = 2
      /\ \A i \in 1..2 : (<<a>> \o <<x>>)[i] = <<a, x>>[i]
  BY <1>1, ConcatProperties
<1> HIDE DEF S
<1>3. QED
  BY <1>1, <1>2, SeqEqual

-----------------------------------------------------------------------------
(* What a library function will have read.                                 *)

\* Where the function that runs is: what it still does, the variables it has
\* read, and the answer.
Here == [script |-> script, size |-> local.size, length |-> local.length, files |-> local.files,
         status |-> local.status, errno |-> 0]

\* What the function at p still does after it has read this item ...
ScriptAfter(p, item) ==
  CASE item.as = "continue" -> IF item.val = CONTINUE THEN Tail(p.script) ELSE GetResp
    [] item.as = "length"   -> IF item.val = 0 THEN Tail(Tail(p.script)) ELSE Tail(p.script)
    [] item.as = "size"     -> IF p.files > 1 THEN <<"length", "bytes", "size">> \o Tail(p.script)
                               ELSE Tail(p.script)
    [] OTHER                -> Tail(p.script)

\* ... and where it is then.
Reading(p, item) ==
  [script |-> ScriptAfter(p, item),
   size   |-> IF item.as = "size" THEN item.val ELSE p.size,
   length |-> IF item.as = "length" THEN item.val ELSE p.length,
   files  |-> IF item.as = "count" THEN item.val
              ELSE IF item.as = "size" /\ p.files # 0 THEN p.files - 1 ELSE p.files,
   status |-> IF item.as = "status" THEN item.val ELSE p.status,
   errno  |-> IF item.as = "error" THEN item.val ELSE p.errno]

\* The function reads the item as what it was sent as, and only the error
\* number ends it.
Fits(p, item) ==
  /\ p.script # <<>>
  /\ Head(p.script) \in Receives
  /\ Head(p.script) = item.as
  /\ item.as = "bytes" => item.val = p.length
  /\ item.as = "count" => item.val # 0
  /\ ScriptAfter(p, item) = <<>> <=> item.as = "error"

\* Where it is after each item of a channel.
Path(p, ch) ==
  LET path[k \in 0..Len(ch)] == IF k = 0 THEN p ELSE Reading(path[k - 1], ch[k])
  IN  path

\* Reading all of the channel, each item as what it is, leads from p to q.
LeadsBy(path, p, ch, q) ==
  /\ path[0] = p /\ path[Len(ch)] = q
  /\ \A k \in 1..Len(ch) : Fits(path[k - 1], ch[k]) /\ path[k] = Reading(path[k - 1], ch[k])

Leads(p, ch, q) == LeadsBy(Path(p, ch), p, ch, q)

\* A set of natural numbers that is not empty has a least member.
LEMMA LeastNatural ==
  ASSUME NEW T \in SUBSET Nat, T # {}
  PROVE  \E m \in T : \A k \in T : m <= k
<1>1. \E m \in T : \A k \in T : <<k, m>> \notin OpToRel(<, Nat)
  BY NatLessThanWellFounded, WFMin
<1>2. PICK m \in T : \A k \in T : <<k, m>> \notin OpToRel(<, Nat)
  BY <1>1
<1>3. \A k \in T : ~(k < m)
  BY <1>2 DEF OpToRel
<1>4. QED
  BY <1>3

\* Any function that leads there by single items is the path.
LEMMA PathUnique ==
  ASSUME NEW S, NEW ch \in Seq(S), NEW p, NEW q, NEW f, LeadsBy(f, p, ch, q)
  PROVE  Leads(p, ch, q)
<1> DEFINE N == 0..Len(ch)
           c == Path(p, ch)
           g == [k \in N |-> f[k]]
           IsPath(h) == h = [k \in N |-> IF k = 0 THEN p ELSE Reading(h[k - 1], ch[k])]
<1>1. Len(ch) \in Nat
  BY LenProperties
<1>2. \A k \in N : g[k] = IF k = 0 THEN p ELSE Reading(g[k - 1], ch[k])
  BY <1>1 DEF LeadsBy
<1>3. IsPath(g)
  BY <1>2
<1>4. c = CHOOSE h : IsPath(h)
  BY DEF Path
<1>5. IsPath(c)
  BY <1>3, <1>4
<1> HIDE DEF c
<1>6. \A k \in N : c[k] = IF k = 0 THEN p ELSE Reading(c[k - 1], ch[k])
  BY <1>5
<1>7. \A k \in N : c[k] = g[k]
  <2> DEFINE D == {k \in N : c[k] # g[k]}
  <2>1. SUFFICES ASSUME D # {} PROVE FALSE
    OBVIOUS
  <2>2. D \in SUBSET Nat
    BY <1>1
  <2>3. \E m \in D : \A k \in D : m <= k
    <3> HIDE DEF D
    <3>1. QED
      BY <2>1, <2>2, LeastNatural
  <2>4. PICK m \in D : \A k \in D : m <= k
    BY <2>3
  <2>5. m # 0
    BY <1>2, <1>6, <2>4
  <2>6. m - 1 \in N /\ m - 1 \notin D
    BY <1>1, <2>4, <2>5
  <2>7. QED
    BY <1>2, <1>6, <2>4, <2>5, <2>6
<1>8. \A k \in N : c[k] = f[k]
  BY <1>7
<1>9. QED
  BY <1>1, <1>8 DEF c, Leads, LeadsBy

\* An empty channel leads nowhere else.
LEMMA LeadsEmpty ==
  ASSUME NEW p
  PROVE  Leads(p, <<>>, p)
<1>1. LeadsBy([k \in {0} |-> p], p, <<>>, p)
  BY DEF LeadsBy
<1>2. QED
  BY <1>1, PathUnique

\* An empty channel leads where the reader is already.
LEMMA EmptyLeads ==
  ASSUME NEW p, NEW q, Leads(p, <<>>, q)
  PROVE  q = p
BY DEF Leads, LeadsBy

\* An item that is sent leads one step further.
LEMMA LeadsOn ==
  ASSUME NEW S, NEW ch \in Seq(S), NEW p, NEW q, NEW item \in S,
         Leads(p, ch, q), Fits(q, item)
  PROVE  Leads(p, Append(ch, item), Reading(q, item))
<1> DEFINE c == Path(p, ch)
           n == Len(ch)
           d == Append(ch, item)
           f == [k \in 0..(n + 1) |-> IF k = n + 1 THEN Reading(q, item) ELSE c[k]]
<1>1. /\ n \in Nat /\ c[0] = p /\ c[n] = q
      /\ \A k \in 1..n : Fits(c[k - 1], ch[k]) /\ c[k] = Reading(c[k - 1], ch[k])
  BY LenProperties DEF Leads, LeadsBy
<1>2. /\ d \in Seq(S) /\ Len(d) = n + 1 /\ d[n + 1] = item
      /\ \A k \in 1..n : d[k] = ch[k]
  BY AppendProperties
<1> HIDE DEF c, n, d
<1>3. f[0] = p /\ f[n + 1] = Reading(q, item) /\ f[n] = q
  BY <1>1
<1>4. \A k \in 1..n : f[k] = c[k] /\ f[k - 1] = c[k - 1]
  BY <1>1
<1> HIDE DEF f
<1>5. \A k \in 1..n : Fits(f[k - 1], d[k]) /\ f[k] = Reading(f[k - 1], d[k])
  BY <1>1, <1>2, <1>4
<1>6. Fits(f[n], d[n + 1]) /\ f[n + 1] = Reading(f[n], d[n + 1])
  BY <1>2, <1>3
<1>7. \A k \in 1..(n + 1) : Fits(f[k - 1], d[k]) /\ f[k] = Reading(f[k - 1], d[k])
  <2> SUFFICES ASSUME NEW k \in 1..(n + 1)
               PROVE  Fits(f[k - 1], d[k]) /\ f[k] = Reading(f[k - 1], d[k])
    OBVIOUS
  <2>1. k \in 1..n \/ (k = n + 1 /\ k - 1 = n)
    BY <1>1
  <2>2. QED
    BY <1>5, <1>6, <2>1
<1>8. LeadsBy(f, p, d, Reading(q, item))
  BY <1>2, <1>3, <1>7 DEF LeadsBy
<1>9. QED
  BY <1>2, <1>8, PathUnique DEF d

\* The first item fits, and once it is read the rest leads to the same end.
LEMMA LeadsRead ==
  ASSUME NEW S, NEW ch \in Seq(S), ch # <<>>, NEW p, NEW q, Leads(p, ch, q)
  PROVE  Fits(p, Head(ch)) /\ Leads(Reading(p, Head(ch)), Tail(ch), q)
<1> DEFINE c == Path(p, ch)
           n == Len(ch)
           d == Tail(ch)
           f == [k \in 0..(n - 1) |-> c[k + 1]]
<1>1. /\ n \in Nat /\ n > 0 /\ c[0] = p /\ c[n] = q
      /\ \A k \in 1..n : Fits(c[k - 1], ch[k]) /\ c[k] = Reading(c[k - 1], ch[k])
  BY EmptySeq, LenProperties DEF Leads, LeadsBy
<1>2. /\ d \in Seq(S) /\ Len(d) = n - 1
      /\ \A k \in 1..(n - 1) : d[k] = ch[k + 1]
  BY HeadTailProperties
<1>3. Head(ch) = ch[1]
  BY <1>1
<1> HIDE DEF c, n, d
<1>4. Fits(p, Head(ch)) /\ c[1] = Reading(p, Head(ch))
  BY <1>1, <1>3
<1>5. f[0] = Reading(p, Head(ch)) /\ f[n - 1] = q
  BY <1>1, <1>4
<1>6. \A k \in 1..(n - 1) : Fits(f[k - 1], d[k]) /\ f[k] = Reading(f[k - 1], d[k])
  <2> SUFFICES ASSUME NEW k \in 1..(n - 1)
               PROVE  Fits(f[k - 1], d[k]) /\ f[k] = Reading(f[k - 1], d[k])
    OBVIOUS
  <2>1. k + 1 \in 1..n /\ (k + 1) - 1 = k
    BY <1>1
  <2>2. Fits(c[k], ch[k + 1]) /\ c[k + 1] = Reading(c[k], ch[k + 1])
    BY <1>1, <2>1
  <2>3. f[k] = c[k + 1] /\ f[k - 1] = c[k] /\ d[k] = ch[k + 1]
    BY <1>1, <1>2
  <2>4. QED
    BY <2>2, <2>3
<1> HIDE DEF f
<1>7. LeadsBy(f, Reading(p, Head(ch)), d, q)
  BY <1>2, <1>5, <1>6 DEF LeadsBy
<1>8. QED
  BY <1>2, <1>4, <1>7, PathUnique DEF d

-----------------------------------------------------------------------------
(* The inductive invariant.                                                *)

\* What Call sends: its number, the name of the file, and the flags.
Flags == Counts \cup {0, O_CREATE}
Opening(c) == Number("op", Code[c])
Naming(n) == <<Number("length", n), Number("bytes", n)>>

\* The worker has nothing to do, and its last answer is taken.
Resting == worker.pc = "idle" /\ answers = 0

\* The answer is one the worker gives.
Answered == job.status \in {OK, NOT_OK} /\ (job.status = OK => job.err = 0)

\* The thread has sent its answer and reads the next request, if any comes.
Served(p) ==
  /\ Resting /\ toServer = <<>> /\ p.script = <<>>
  /\ thread.wants \in {"free", IF job.op = Code["closeConnection"] THEN "ended" ELSE "op"}
  /\ call = "none" => job.op # Code["closeConnection"]
  /\ call = "gone" => job.op = Code["closeConnection"]
  /\ call \in Calls => job.op = Code[call] /\ Answered /\ p.status = job.status /\ p.errno = job.err

\* The request is on its way, or read in part.
Asked(p) ==
  /\ Resting /\ call \in Calls /\ p.script = Script[call] /\ p.files = 0
  /\ thread.wants \notin {"free", "op"} => thread.op = Code[call] /\ ~thread.null
  /\ \E f \in Flags, n \in NameLengths :
       \/ /\ thread.wants = "op" \/ (thread.wants = "free" /\ job.op # Code["closeConnection"])
          /\ toServer = <<Opening(call), Naming(n)[1], Naming(n)[2], Number("flags", f)>>
       \/ thread.wants = "length" /\ toServer = <<Naming(n)[1], Naming(n)[2], Number("flags", f)>>
       \/ /\ thread.wants = "bytes" /\ thread.length = n
          /\ toServer = <<Naming(n)[2], Number("flags", f)>>
       \/ thread.wants = "flags" /\ toServer = <<Number("flags", f)>>

\* WRITE_FILE: the size, which the worker keeps, then as many bytes.
Writing(p) ==
  \/ /\ worker.pc = "size"
     /\ \/ /\ p.script = <<"sendSize", "continue", "sendFile", "continue", "status", "error">>
           /\ toServer = <<>>
        \/ /\ p.script = <<"continue", "sendFile", "continue", "status", "error">>
           /\ toServer = <<Number("size", p.size)>>
  \/ /\ worker.pc = "length" /\ p.script = <<"sendFile", "continue", "status", "error">>
     /\ toServer = <<>> /\ p.size = worker.size
  \/ /\ p.script = <<"continue", "status", "error">>
     /\ \/ worker.pc = "length" /\ toServer = Message(worker.size)
        \/ /\ worker.pc = "bytes" /\ worker.length = worker.size
           /\ toServer = <<Number("bytes", worker.size)>>
        \/ worker.pc = "write" /\ worker.length = worker.size /\ toServer = <<>>

\* APPEND_FILE: both are sent at once.
Appending(p) ==
  \/ worker.pc = "size" /\ p.script = <<"sendBoth", "status", "error">> /\ toServer = <<>>
  \/ /\ p.script = <<"status", "error">>
     /\ \/ worker.pc = "size" /\ \E n \in Sizes : toServer = <<Number("size", n)>> \o Message(n)
        \/ worker.pc = "length" /\ toServer = Message(worker.size)
        \/ /\ worker.pc = "bytes" /\ worker.length = worker.size
           /\ toServer = <<Number("bytes", worker.size)>>
        \/ worker.pc = "write" /\ worker.length = worker.size /\ toServer = <<>>

ReadingFile(p) ==
  /\ toServer = <<>>
  /\ \/ /\ worker.pc = "check" /\ p.files = 0
        /\ p.script = <<"continue", "size", "length", "bytes", "status", "error">>
     \/ worker.pc = "announced" /\ p.script = <<"length", "bytes", "status", "error">>

\* READN_FILE: the client waits for as many files as the worker has left.
ReadingNFiles(p) ==
  /\ toServer = <<>> /\ p.files = worker.left
  /\ \/ /\ worker.pc = "head" /\ worker.left > 0
        /\ p.script = <<"continue", "length", "bytes", "size", "status", "error">>
     \/ /\ worker.pc = "sendn" /\ worker.left > 0
        /\ p.script = <<"length", "bytes", "size", "status", "error">>
     \/ worker.pc = "sendn" /\ worker.left = 0 /\ p.script = <<"status", "error">>

\* A worker has the job.
AtWork(p) ==
  /\ thread.wants = "answer" /\ answers = 0
  /\ call \in Calls /\ job.op = Code[call]
  /\ \/ worker.pc = "start" /\ toServer = <<>> /\ p.script = Script[call] /\ p.files = 0
     \/ call = "writeFile" /\ Writing(p)
     \/ call = "appendToFile" /\ Appending(p)
     \/ call = "readFile" /\ ReadingFile(p)
     \/ call = "readNFiles" /\ ReadingNFiles(p)

\* The thread has the answer and sends it.
Answering(p) ==
  /\ worker.pc = "idle" /\ toServer = <<>>
  /\ call \in Calls /\ job.op = Code[call] /\ Answered
  /\ \/ /\ p.script = <<"status", "error">>
        /\ \/ thread.wants = "answer" /\ answers = 1
           \/ thread.wants = "status" /\ answers = 0
     \/ thread.wants = "error" /\ answers = 0 /\ p.script = <<"error">> /\ p.status = job.status

Phase(p) == Served(p) \/ Asked(p) \/ AtWork(p) \/ Answering(p)

\* Where the function that runs is when it has read all that is on its way.
Arrival == Path(Here, toClient)[Len(toClient)]

\* It can get there, and that is where the threads of the server take it to be.
InStep ==
  /\ ~stale
  /\ call \in Calls <=> script # <<>>
  /\ \E q \in {Arrival} : Leads(Here, toClient, q) /\ Phase(q)

InStepInv == InTouch => InStep

\* A length is never the last thing a function reads.
LengthNotLast(s) == s # <<>> => s[Len(s)] # "length"

\* What holds even when the two sides have come apart: nobody has the job while
\* a request is read, the thread waits while a worker has not yet answered, and
\* a job is answered twice at most.
Books ==
  /\ thread.wants \notin {"answer", "status", "error", "free"} => Resting
  /\ worker.pc \notin {"idle", "again", "check", "announced"} =>
       thread.wants = "answer" /\ answers = 0
  /\ worker.pc # "idle" => answers <= 1

Bookkeeping == LengthNotLast(script) /\ (Running => Books)

PInv == TypeOK /\ Bookkeeping /\ InStepInv

-----------------------------------------------------------------------------
(* Types and bookkeeping.                                                  *)

\* What the library functions do, written out.
LEMMA ScriptIs ==
  /\ Script["openFile"] = <<"status", "error">>
  /\ Script["closeFile"] = <<"status", "error">>
  /\ Script["removeFile"] = <<"status", "error">>
  /\ Script["closeConnection"] = <<"status", "error">>
  /\ Script["readFile"] = <<"continue", "continue", "size", "length", "bytes", "status", "error">>
  /\ Script["writeFile"] =
       <<"continue", "sendSize", "continue", "sendFile", "continue", "status", "error">>
  /\ Script["appendToFile"] = <<"continue", "sendBoth", "status", "error">>
  /\ Script["readNFiles"] = <<"count", "continue", "length", "bytes", "size", "status", "error">>
<1>1. <<"continue", "continue", "size", "length", "bytes">> \o <<"status", "error">>
        = <<"continue", "continue", "size", "length", "bytes", "status", "error">>
  BY FiveTwo
<1>2. <<"continue", "sendSize", "continue", "sendFile", "continue">> \o <<"status", "error">>
        = <<"continue", "sendSize", "continue", "sendFile", "continue", "status", "error">>
  <2>1. \A b, d : <<"continue", b, "continue", d, "continue">> \o <<"status", "error">>
                  = <<"continue", b, "continue", d, "continue", "status", "error">>
    BY FiveTwo
  <2>2. QED
    BY <2>1
<1>3. <<"count", "continue", "length", "bytes", "size">> \o <<"status", "error">>
        = <<"count", "continue", "length", "bytes", "size", "status", "error">>
  BY FiveTwo
<1>4. <<"continue", "sendBoth">> \o <<"status", "error">>
        = <<"continue", "sendBoth", "status", "error">>
  BY TwoTwo
<1>5. Script["readFile"] = <<"continue", "continue", "size", "length", "bytes", "status", "error">>
  BY <1>1 DEF Script, GetResp
<1>6. Script["writeFile"] =
        <<"continue", "sendSize", "continue", "sendFile", "continue", "status", "error">>
  BY <1>2 DEF Script, GetResp
<1>7. Script["readNFiles"] = <<"count", "continue", "length", "bytes", "size", "status", "error">>
  BY <1>3 DEF Script, GetResp
<1>8. Script["appendToFile"] = <<"continue", "sendBoth", "status", "error">>
  BY <1>4 DEF Script, GetResp
<1>9. /\ Script["openFile"] = <<"status", "error">>
      /\ Script["closeFile"] = <<"status", "error">>
      /\ Script["removeFile"] = <<"status", "error">>
      /\ Script["closeConnection"] = <<"status", "error">>
  BY DEF Script, GetResp
<1>10. QED
  BY <1>5, <1>6, <1>7, <1>8, <1>9

\* The operations, each with a code of its own.
LEMMA CallsAre ==
  /\ Calls = {"openFile", "closeFile", "readFile", "writeFile", "readNFiles", "appendToFile",
              "removeFile", "closeConnection"}
  /\ \A c \in Calls : Code[c] \in Nat \ {0}
  /\ \A c, d \in Calls : Code[c] = Code[d] => c = d
BY DEF Calls, Code

\* What a script is made of, and what of it is a number or a message to read.
LEMMA StepsAre ==
  /\ \A s \in {"status", "error", "continue", "size", "length", "bytes", "count",
               "sendSize", "sendFile", "sendBoth", "readForever"} : s \in Steps
  /\ Receives = {"status", "error", "continue", "size", "length", "bytes", "count"}
BY DEF Steps, Receives

\* Every script is typed, and reads no length last.
LEMMA ScriptTyped ==
  ASSUME NEW c \in Calls
  PROVE  Script[c] \in Seq(Steps) /\ Script[c] # <<>> /\ LengthNotLast(Script[c])
<1> DEFINE Good(s) == s \in Seq(Steps) /\ s # <<>> /\ LengthNotLast(s)
<1>1. Good(<<"status", "error">>)
  BY DEF LengthNotLast, Steps
<1>2. Good(<<"continue", "continue", "size", "length", "bytes", "status", "error">>)
  BY DEF LengthNotLast, Steps
<1>3. Good(<<"continue", "sendSize", "continue", "sendFile", "continue", "status", "error">>)
  BY DEF LengthNotLast, Steps
<1>4. Good(<<"continue", "sendBoth", "status", "error">>)
  BY DEF LengthNotLast, Steps
<1>5. Good(<<"count", "continue", "length", "bytes", "size", "status", "error">>)
  BY DEF LengthNotLast, Steps
<1> HIDE DEF Good
<1>6. Good(Script[c])
  BY <1>1, <1>2, <1>3, <1>4, <1>5, CallsAre, ScriptIs
<1>7. QED
  BY <1>6 DEF Good

\* A message is its length and, if it has any, its bytes.
LEMMA MessageIs ==
  ASSUME NEW n \in Nat
  PROVE  /\ n = 0 => Message(n) = <<Number("length", 0)>>
         /\ n # 0 => Message(n) = <<Number("length", n), Number("bytes", n)>>
         /\ Message(n) \in Seq(Item)
<1>1. n # 0 => Message(n) = <<Number("length", n), Number("bytes", n)>>
  BY OneOne DEF Message
<1>2. \A x : <<x>> \o <<>> = <<x>>
  OBVIOUS
<1>3. n = 0 => Message(n) = <<Number("length", 0)>>
  BY <1>2 DEF Message
<1>4. Number("length", n) \in Item /\ Number("bytes", n) \in Item
  BY DEF Number, Item, Receives
<1>5. Number("length", 0) \in Item
  BY DEF Number, Item, Receives
<1>6. QED
  BY <1>1, <1>3, <1>4, <1>5
-----------------------------------------------------------------------------
(* The scripts, one step after the other.                                  *)

\* What comes first in a script, and what comes after.
Begins(s, step, rest) == s # <<>> /\ Head(s) = step /\ Tail(s) = rest

\* The answer is read last.
LEMMA AnswerReads ==
  /\ Begins(<<"status", "error">>, "status", <<"error">>)
  /\ Begins(<<"error">>, "error", <<>>)
<1>1. Begins(<<"status", "error">>, "status", <<"error">>)
  BY DEF Begins
<1>2. Begins(<<"error">>, "error", <<>>)
  BY DEF Begins
<1>3. QED
  BY <1>1, <1>2

\* What readFile does, one by one.
LEMMA FileReads ==
  /\ Begins(<<"continue", "continue", "size", "length", "bytes", "status", "error">>, "continue",
            <<"continue", "size", "length", "bytes", "status", "error">>)
  /\ Begins(<<"continue", "size", "length", "bytes", "status", "error">>, "continue",
            <<"size", "length", "bytes", "status", "error">>)
  /\ Begins(<<"size", "length", "bytes", "status", "error">>, "size",
            <<"length", "bytes", "status", "error">>)
  /\ Begins(<<"length", "bytes", "status", "error">>, "length", <<"bytes", "status", "error">>)
  /\ Begins(<<"bytes", "status", "error">>, "bytes", <<"status", "error">>)
<1>1. Begins(<<"continue", "continue", "size", "length", "bytes", "status", "error">>, "continue",
            <<"continue", "size", "length", "bytes", "status", "error">>)
  BY DEF Begins
<1>2. Begins(<<"continue", "size", "length", "bytes", "status", "error">>, "continue",
            <<"size", "length", "bytes", "status", "error">>)
  BY DEF Begins
<1>3. Begins(<<"size", "length", "bytes", "status", "error">>, "size",
            <<"length", "bytes", "status", "error">>)
  BY DEF Begins
<1>4. Begins(<<"length", "bytes", "status", "error">>, "length", <<"bytes", "status", "error">>)
  BY DEF Begins
<1>5. Begins(<<"bytes", "status", "error">>, "bytes", <<"status", "error">>)
  BY DEF Begins
<1>6. QED
  BY <1>1, <1>2, <1>3, <1>4, <1>5

\* What writeFile does, one by one.
LEMMA WriteDoes ==
  /\ Begins(<<"continue", "sendSize", "continue", "sendFile", "continue", "status", "error">>, "continue",
            <<"sendSize", "continue", "sendFile", "continue", "status", "error">>)
  /\ Begins(<<"sendSize", "continue", "sendFile", "continue", "status", "error">>, "sendSize",
            <<"continue", "sendFile", "continue", "status", "error">>)
  /\ Begins(<<"continue", "sendFile", "continue", "status", "error">>, "continue",
            <<"sendFile", "continue", "status", "error">>)
  /\ Begins(<<"sendFile", "continue", "status", "error">>, "sendFile",
            <<"continue", "status", "error">>)
  /\ Begins(<<"continue", "status", "error">>, "continue", <<"status", "error">>)
<1>1. Begins(<<"continue", "sendSize", "continue", "sendFile", "continue", "status", "error">>, "continue",
            <<"sendSize", "continue", "sendFile", "continue", "status", "error">>)
  BY DEF Begins
<1>2. Begins(<<"sendSize", "continue", "sendFile", "continue", "status", "error">>, "sendSize",
            <<"continue", "sendFile", "continue", "status", "error">>)
  BY DEF Begins
<1>3. Begins(<<"continue", "sendFile", "continue", "status", "error">>, "continue",
            <<"sendFile", "continue", "status", "error">>)
  BY DEF Begins
<1>4. Begins(<<"sendFile", "continue", "status", "error">>, "sendFile",
            <<"continue", "status", "error">>)
  BY DEF Begins
<1>5. Begins(<<"continue", "status", "error">>, "continue", <<"status", "error">>)
  BY DEF Begins
<1>6. QED
  BY <1>1, <1>2, <1>3, <1>4, <1>5

\* What appendToFile does, one by one.
LEMMA AppendDoes ==
  /\ Begins(<<"continue", "sendBoth", "status", "error">>, "continue",
            <<"sendBoth", "status", "error">>)
  /\ Begins(<<"sendBoth", "status", "error">>, "sendBoth", <<"status", "error">>)
<1>1. Begins(<<"continue", "sendBoth", "status", "error">>, "continue",
            <<"sendBoth", "status", "error">>)
  BY DEF Begins
<1>2. Begins(<<"sendBoth", "status", "error">>, "sendBoth", <<"status", "error">>)
  BY DEF Begins
<1>3. QED
  BY <1>1, <1>2

\* What readNFiles does for its last file, one by one.
LEMMA NFilesReads ==
  /\ Begins(<<"count", "continue", "length", "bytes", "size", "status", "error">>, "count",
            <<"continue", "length", "bytes", "size", "status", "error">>)
  /\ Begins(<<"continue", "length", "bytes", "size", "status", "error">>, "continue",
            <<"length", "bytes", "size", "status", "error">>)
  /\ Begins(<<"length", "bytes", "size", "status", "error">>, "length",
            <<"bytes", "size", "status", "error">>)
  /\ Begins(<<"bytes", "size", "status", "error">>, "bytes", <<"size", "status", "error">>)
  /\ Begins(<<"size", "status", "error">>, "size", <<"status", "error">>)
<1>1. Begins(<<"count", "continue", "length", "bytes", "size", "status", "error">>, "count",
            <<"continue", "length", "bytes", "size", "status", "error">>)
  BY DEF Begins
<1>2. Begins(<<"continue", "length", "bytes", "size", "status", "error">>, "continue",
            <<"length", "bytes", "size", "status", "error">>)
  BY DEF Begins
<1>3. Begins(<<"length", "bytes", "size", "status", "error">>, "length",
            <<"bytes", "size", "status", "error">>)
  BY DEF Begins
<1>4. Begins(<<"bytes", "size", "status", "error">>, "bytes", <<"size", "status", "error">>)
  BY DEF Begins
<1>5. Begins(<<"size", "status", "error">>, "size", <<"status", "error">>)
  BY DEF Begins
<1>6. QED
  BY <1>1, <1>2, <1>3, <1>4, <1>5

\* The threads' variables.
Threads == [wants : {"op", "length", "bytes", "flags", "answer", "status", "error", "free", "ended"},
            op : Nat, length : Nat, null : BOOLEAN]
Jobs == [op : Nat, flags : Nat, status : {OK, NOT_OK, INITED}, err : Nat]
WorkerStates == [pc : {"idle", "start", "again", "check", "announced", "size", "length", "bytes",
                       "write", "head", "sendn", "left"},
                 size : Nat, length : Nat, left : Nat]
Locals == [size : Nat, length : Nat, files : Nat, status : Int]

\* The types, client and server apart.
ClientTypes ==
  /\ program \in Seq(Calls)
  /\ call \in Calls \cup {"none", "gone"}
  /\ script \in Seq(Steps)
  /\ local \in Locals
  /\ result \in [status : Int, errno : Nat]

ServerTypes ==
  /\ thread \in Threads /\ job \in Jobs /\ worker \in WorkerStates
  /\ answers \in 0..2 /\ stale \in BOOLEAN

OtherTypes == strayed \subseteq Ways /\ run \in {"running", "exited", "undefined", "garbled"}

WireTypes == toServer \in Seq(Item) /\ toClient \in Seq(Item)

\* TypeOK, taken apart.
LEMMA TypesAre == TypeOK <=> ClientTypes /\ ServerTypes /\ WireTypes /\ OtherTypes
BY DEF TypeOK, ClientTypes, ServerTypes, WireTypes, OtherTypes, Threads, Jobs, WorkerStates, Locals

\* What is left of a channel, and of a script, once its first is read.
LEMMA TailTyped ==
  ASSUME NEW S, NEW s \in Seq(S), s # <<>>
  PROVE  Tail(s) \in Seq(S) /\ Head(s) \in S
BY HeadTailProperties

\* What is left of a script still does not end with a length, so something follows one.
LEMMA TailLength ==
  ASSUME NEW S, NEW s \in Seq(S), s # <<>>, LengthNotLast(s)
  PROVE  /\ LengthNotLast(Tail(s))
         /\ Head(s) = "length" => Tail(s) # <<>>
<1>1. /\ Tail(s) \in Seq(S) /\ Len(Tail(s)) = Len(s) - 1 /\ Len(s) \in Nat
      /\ \A i \in 1..Len(Tail(s)) : Tail(s)[i] = s[i + 1]
      /\ Head(s) = s[1]
  BY HeadTailProperties, LenProperties
<1>2. CASE Tail(s) = <<>>
  <2>1. Len(Tail(s)) = 0 /\ Len(s) = 1
    BY <1>1, <1>2, EmptySeq
  <2>2. QED
    BY <1>1, <1>2, <2>1 DEF LengthNotLast
<1>3. CASE Tail(s) # <<>>
  <2>1. Len(Tail(s)) \in Nat \ {0}
    BY <1>1, <1>3, EmptySeq
  <2>2. Tail(s)[Len(Tail(s))] = s[Len(s)]
    BY <1>1, <2>1
  <2>3. QED
    BY <1>3, <2>2 DEF LengthNotLast
<1>4. QED
  BY <1>2, <1>3

\* Nor does a script that is put together from two such ones.
LEMMA ConcatLength ==
  ASSUME NEW S, NEW s \in Seq(S), NEW t \in Seq(S), LengthNotLast(s), LengthNotLast(t)
  PROVE  LengthNotLast(s \o t) /\ s \o t \in Seq(S)
<1>1. /\ s \o t \in Seq(S) /\ Len(s \o t) = Len(s) + Len(t)
      /\ Len(s) \in Nat /\ Len(t) \in Nat
      /\ \A i \in 1..(Len(s) + Len(t)) : (s \o t)[i] = IF i <= Len(s) THEN s[i] ELSE t[i - Len(s)]
  BY ConcatProperties, LenProperties
<1>2. CASE t = <<>>
  BY <1>2, ConcatEmptySeq, <1>1
<1>3. CASE t # <<>>
  <2>1. Len(t) \in Nat \ {0}
    BY <1>3, EmptySeq
  <2>2. (s \o t)[Len(s) + Len(t)] = t[Len(t)]
    BY <1>1, <2>1
  <2>3. QED
    BY <1>1, <1>3, <2>2 DEF LengthNotLast
<1>4. QED
  BY <1>2, <1>3

\* A number that is sent is an item, and so is every one of a message.
LEMMA NumberTyped ==
  ASSUME NEW as \in Receives \cup {"op", "flags"}, NEW v \in Nat
  PROVE  Number(as, v) \in Item /\ Number(as, v).as = as /\ Number(as, v).val = v
BY DEF Number, Item

\* get_resp, and what comes before the next file, can follow any script.
LEMMA GoOns ==
  /\ GetResp \in Seq(Steps) /\ LengthNotLast(GetResp)
  /\ <<"length", "bytes", "size">> \in Seq(Steps) /\ LengthNotLast(<<"length", "bytes", "size">>)
  /\ <<>> \in Seq(Steps) /\ LengthNotLast(<<>>)
  /\ <<"readForever">> \in Seq(Steps) /\ LengthNotLast(<<"readForever">>)
BY DEF GetResp, Steps, LengthNotLast

\* What the client does to its variables and to the socket.
LEMMA ClientTyped ==
  ASSUME TypeOK, LengthNotLast(script), ClientStep \/ HangUp
  PROVE  /\ ClientTypes' /\ WireTypes' /\ OtherTypes' /\ LengthNotLast(script')
         /\ UNCHANGED <<serverVars, run>>
<1>0. ClientTypes /\ WireTypes /\ OtherTypes
  BY TypesAre
<1>1. ASSUME script # <<>> PROVE /\ Tail(script) \in Seq(Steps) /\ LengthNotLast(Tail(script))
                                 /\ Head(script) = "length" => Tail(script) # <<>>
  BY <1>0, <1>1, TailTyped, TailLength DEF ClientTypes
<1>2. ASSUME script # <<>>, Tail(script) # <<>>
      PROVE  Tail(Tail(script)) \in Seq(Steps) /\ LengthNotLast(Tail(Tail(script)))
  BY <1>1, <1>2, TailTyped, TailLength
<1>3. ASSUME script # <<>>
      PROVE  NextFile \in Seq(Steps) /\ LengthNotLast(NextFile)
  BY <1>1, <1>3, ConcatLength, GoOns DEF NextFile
<1>4. ASSUME toClient # <<>>
      PROVE  Tail(toClient) \in Seq(Item) /\ Value \in Nat
  <2>1. Tail(toClient) \in Seq(Item) /\ Head(toClient) \in Item
    BY <1>0, <1>4, TailTyped DEF WireTypes
  <2>2. QED
    BY <2>1 DEF Value, Item
<1>5. ASSUME NEW way \in Ways, Strays(way) PROVE strayed' \subseteq Ways
  BY <1>0, <1>5 DEF Strays, OtherTypes
<1>6. ASSUME GivesUp, Strays("return in writeFile")
       PROVE  /\ script' = <<>> /\ call' = "none" /\ result' \in [status : Int, errno : Nat]
              /\ strayed' \subseteq Ways
              /\ UNCHANGED <<program, local, toServer, toClient, serverVars, run>>
  <2>1. [status |-> -1, errno |-> 0] \in [status : Int, errno : Nat]
    OBVIOUS
  <2>2. QED
    BY <1>5, <1>6, <2>1 DEF GivesUp, Ways
<1>7. CASE Call
  <2> DEFINE c == Head(program)
             Asks == CASE c = "readNFiles" -> Counts [] c = "openFile" -> {0, O_CREATE} [] OTHER -> {0}
  <2>1. PICK n \in NameLengths, flags \in Asks :
          toServer' = toServer \o <<Number("op", Code[c])>> \o Message(n)
                               \o <<Number("flags", flags)>>
    BY <1>7 DEF Call, Texts
  <2>2. flags \in Nat
    BY ProtocolAssumption DEF O_CREATE
  <2>3. Head(program) \in Calls /\ Tail(program) \in Seq(Calls)
    BY <1>0, <1>7, TailTyped DEF Call, ClientTypes
  <2>4. <<Number("op", Code[Head(program)])>> \in Seq(Item) /\ <<Number("flags", flags)>> \in Seq(Item)
    <3>1. Number("op", Code[c]) \in Item /\ Number("flags", flags) \in Item
      BY <2>3, <2>2, CallsAre, NumberTyped
    <3>2. QED
      BY <3>1
  <2>5. toServer' \in Seq(Item)
    <3>1. Message(n) \in Seq(Item)
      BY MessageIs, ProtocolAssumption
    <3>2. QED
      BY <1>0, <2>1, <2>4, <3>1, ConcatProperties DEF WireTypes
  <2>6. Script[Head(program)] \in Seq(Steps) /\ LengthNotLast(Script[Head(program)])
    BY <2>3, ScriptTyped
  <2>7. QED
    BY <1>0, <1>7, <2>3, <2>5, <2>6 DEF Call, ClientTypes, WireTypes, OtherTypes, NoLocal, Locals
<1>8. CASE ClientContinue
  BY <1>0, <1>1, <1>4, <1>8, GoOns
     DEF ClientContinue, Arrives, Doing, ClientReads, ClientTypes, WireTypes, OtherTypes
<1>9. CASE ClientCount
  <2>1. [status |-> NOT_OK, errno |-> 0] \in [status : Int, errno : Nat]
    BY DEF NOT_OK
  <2>2. script # <<>> /\ toClient # <<>>
    BY <1>9 DEF ClientCount, Arrives, Doing
  <2>3. local' \in Locals /\ result' \in [status : Int, errno : Nat]
    BY <1>0, <1>4, <1>9, <2>1, <2>2 DEF ClientCount, ClientTypes, Locals
  <2>4. QED
    BY <1>0, <1>1, <1>4, <1>9, <2>2, <2>3, GoOns
       DEF ClientCount, ClientReads, ClientTypes, WireTypes, OtherTypes
<1>10. CASE ClientLength
  BY <1>0, <1>1, <1>2, <1>4, <1>10
     DEF ClientLength, Arrives, Doing, ClientReads, ClientTypes, WireTypes, OtherTypes, Locals
<1>11. CASE ClientBytes
  BY <1>0, <1>1, <1>4, <1>11
     DEF ClientBytes, Doing, ClientReads, ClientTypes, WireTypes, OtherTypes
<1>12. CASE ClientSize
  <2>1. script' \in {NextFile, Tail(script)} /\ strayed' \subseteq Ways
    BY <1>0, <1>5, <1>12 DEF ClientSize, ClientReads, OtherTypes, Ways
  <2>2. local' \in Locals
    <3>1. local' = [local EXCEPT !.size = Value, !.files = IF local.files = 0 THEN 0 ELSE local.files - 1]
      BY <1>12 DEF ClientSize
    <3>2. Value \in Nat
      BY <1>4, <1>12 DEF ClientSize, Arrives
    <3>3. local \in Locals /\ (local.files # 0 => local.files - 1 \in Nat)
      BY <1>0 DEF ClientTypes, Locals
    <3>4. QED
      BY <3>1, <3>2, <3>3 DEF Locals
  <2>3. QED
    BY <1>0, <1>1, <1>3, <1>4, <1>12, <2>1, <2>2
       DEF ClientSize, Arrives, Doing, ClientReads, ClientTypes, WireTypes, OtherTypes
<1>13. CASE ClientSendSize
  <2>1. CASE GivesUp /\ Strays("return in writeFile")
    BY <1>0, <1>6, <2>1, GoOns DEF WireTypes, ClientTypes, OtherTypes
  <2>2. CASE ~(GivesUp /\ Strays("return in writeFile"))
    <3>1. PICK n \in Sizes : /\ ClientSends(Tail(script), <<Number("size", n)>>)
                             /\ local' = [local EXCEPT !.size = n]
      BY <1>13, <2>2 DEF ClientSendSize
    <3>2. <<Number("size", n)>> \in Seq(Item) /\ n \in Nat
      BY ProtocolAssumption, NumberTyped DEF Receives
    <3>3. toServer' \in Seq(Item)
      BY <1>0, <3>1, <3>2, ConcatProperties DEF ClientSends, WireTypes
    <3>4. local' \in Locals
      BY <1>0, <3>1, <3>2 DEF ClientTypes, Locals
    <3>5. QED
      BY <1>0, <1>1, <1>13, <2>2, <3>1, <3>3, <3>4
         DEF ClientSendSize, Doing, ClientSends, ClientTypes, WireTypes, OtherTypes
  <2>3. QED
    BY <2>1, <2>2
<1>14. CASE ClientSendFile
  <2>1. Message(local.size) \in Seq(Item)
    BY <1>0, MessageIs DEF ClientTypes, Locals
  <2>2. toServer' \in Seq(Item)
    <3>1. toServer' \in {toServer \o Message(local.size), toServer \o <<>>, toServer}
      BY <1>14, Zenon DEF ClientSendFile, ClientSends, GivesUp, FileContent
    <3>2. QED
      BY <1>0, <2>1, <3>1, ConcatProperties, ConcatEmptySeq DEF WireTypes
  <2>3. strayed' \subseteq Ways
    BY <1>0, <1>5, <1>14 DEF ClientSendFile, OtherTypes, Ways
  <2>4. CASE GivesUp /\ Strays("return in writeFile")
    BY <1>0, <1>6, <2>4, GoOns DEF WireTypes, ClientTypes, OtherTypes
  <2>5. CASE ~(GivesUp /\ Strays("return in writeFile"))
    <3>1. /\ script' \in {Tail(script), <<"readForever">>} /\ script # <<>>
          /\ UNCHANGED <<program, call, local, result, toClient, serverVars, run>>
      BY <1>14, <2>5 DEF ClientSendFile, Doing, ClientSends
    <3>2. QED
      BY <1>0, <1>1, <2>2, <2>3, <3>1, GoOns DEF ClientTypes, WireTypes, OtherTypes
  <2>6. QED
    BY <2>4, <2>5
<1>15. CASE ClientSendBoth
  <2>1. PICK n \in Sizes : /\ ClientSends(Tail(script), <<Number("size", n)>> \o Message(n))
                           /\ local' = [local EXCEPT !.size = n]
    BY <1>15 DEF ClientSendBoth
  <2>2. n \in Nat /\ <<Number("size", n)>> \in Seq(Item) /\ Message(n) \in Seq(Item)
    BY ProtocolAssumption, NumberTyped, MessageIs DEF Receives
  <2>3. toServer' \in Seq(Item)
    BY <1>0, <2>1, <2>2, ConcatProperties DEF ClientSends, WireTypes
  <2>4. local' \in Locals
    BY <1>0, <2>1, <2>2 DEF ClientTypes, Locals
  <2>5. QED
    BY <1>0, <1>1, <1>15, <2>1, <2>3, <2>4
       DEF ClientSendBoth, Doing, ClientSends, ClientTypes, WireTypes, OtherTypes
<1>16. CASE ClientStatus
  <2>1. script # <<>> /\ toClient # <<>> /\ local' = [local EXCEPT !.status = Value]
    BY <1>16 DEF ClientStatus, Arrives, Doing
  <2>2. local' \in Locals
    BY <1>0, <1>4, <2>1 DEF ClientTypes, Locals
  <2>3. QED
    BY <1>0, <1>1, <1>4, <1>16, <2>1, <2>2
       DEF ClientStatus, ClientReads, ClientTypes, WireTypes, OtherTypes
<1>17. CASE ClientError
  <2>1. script # <<>> /\ toClient # <<>>
    BY <1>17 DEF ClientError, Arrives, Doing
  <2>2. local.status \in Int
    BY <1>0 DEF ClientTypes, Locals
  <2>3. (IF local.status = OK /\ Value # 0 THEN -1 ELSE local.status) \in Int
    BY <2>2
  <2>4. result' \in [status : Int, errno : Nat]
    BY <1>4, <1>17, <2>1, <2>3 DEF ClientError
  <2>5. QED
    BY <1>0, <1>4, <1>17, <2>1, <2>4, GoOns DEF ClientError, ClientTypes, WireTypes, OtherTypes
<1>18. CASE ProgramEnds
  BY <1>0, <1>5, <1>18 DEF ProgramEnds, ClientTypes, WireTypes, OtherTypes, Ways
<1>19. CASE HangUp
  <2>1. toServer' \in Seq(Item)
    BY <1>0, <1>19, SubSeqProperties DEF HangUp, WireTypes
  <2>2. QED
    BY <1>0, <1>5, <1>19, <2>1, GoOns DEF HangUp, ClientTypes, WireTypes, OtherTypes, Ways
<1>20. QED
  BY <1>7, <1>8, <1>9, <1>10, <1>11, <1>12, <1>13, <1>14, <1>15, <1>16, <1>17, <1>18, <1>19
     DEF ClientStep

\* What the server's readers get.
LEMMA NumbersTyped ==
  ASSUME TypeOK
  PROVE  Numbers \subseteq Nat /\ Unread \in Seq(Item)
<1>1. toServer \in Seq(Item)
  BY DEF TypeOK
<1>2. ASSUME toServer # <<>> PROVE Tail(toServer) \in Seq(Item) /\ Head(toServer) \in Item
  BY <1>1, <1>2, TailTyped
<1>3. toServer # <<>> => Head(toServer).val \in Nat
  BY <1>2 DEF Item
<1>4. Numbers \subseteq Nat
  BY <1>3, ProtocolAssumption DEF Numbers
<1>5. QED
  BY <1>1, <1>2, <1>4 DEF Unread

\* The client thread.
LEMMA ThreadTyped ==
  ASSUME TypeOK, Running, Books, ThreadStep
  PROVE  /\ ServerTypes' /\ WireTypes' /\ OtherTypes' /\ (Running => Books)'
         /\ UNCHANGED clientVars
<1>0. ServerTypes /\ WireTypes /\ OtherTypes
  BY TypesAre
<1> DEFINE Rest == /\ job \in Jobs /\ worker \in WorkerStates /\ answers \in 0..2 /\ stale \in BOOLEAN
<1>1. thread \in Threads /\ Rest
  BY <1>0 DEF ServerTypes
<1>2. Numbers \subseteq Nat /\ Unread \in Seq(Item) /\ toClient \in Seq(Item)
  BY <1>0, NumbersTyped DEF WireTypes
<1>3. ASSUME NEW as \in {"status", "error"}, NEW v \in Nat, Reply(as, v) PROVE toClient' \in Seq(Item)
  <2>1. Number(as, v) \in Item
    BY NumberTyped DEF Receives
  <2>2. QED
    BY <1>2, <1>3, <2>1, AppendProperties DEF Reply
<1>4. CASE ThreadOp
  <2>1. thread' \in Threads /\ thread'.wants = "length"
    BY <1>1, <1>2, <1>4 DEF ThreadOp, Threads
  <2>2. Resting
    BY <1>4 DEF ThreadOp, ThreadWants, Books
  <2>3. QED
    BY <1>0, <1>2, <1>4, <2>1, <2>2 DEF ThreadOp, ServerTypes, WireTypes, OtherTypes, Books, Resting
<1>5. CASE ThreadLength
  <2>1. thread' \in Threads /\ thread'.wants \in {"flags", "bytes"}
    BY <1>1, <1>2, <1>5 DEF ThreadLength, Threads
  <2>2. Resting
    BY <1>5 DEF ThreadLength, ThreadWants, Books
  <2>3. run' \in {"running", "exited"}
    BY <1>5 DEF ThreadLength
  <2>4. QED
    BY <1>0, <1>2, <1>5, <2>1, <2>2, <2>3
       DEF ThreadLength, ServerTypes, WireTypes, OtherTypes, Books, Resting
<1>6. CASE ThreadBytes
  <2>1. thread' \in Threads /\ thread'.wants = "flags"
    BY <1>1, <1>6 DEF ThreadBytes, Threads, AtEnd
  <2>2. Resting
    BY <1>6 DEF ThreadBytes, ThreadWants, Books
  <2>3. QED
    BY <1>0, <1>2, <1>6, <2>1, <2>2 DEF ThreadBytes, ServerTypes, WireTypes, OtherTypes, Books, Resting
<1>7. CASE ThreadFlags
  <2>1. Resting
    BY <1>7 DEF ThreadFlags, ThreadWants, Books
  <2>2. Reads("op") \in Threads /\ Reads("answer") \in Threads
    BY DEF Reads, Threads
  <2>3. CASE thread.null
    BY <1>0, <1>2, <1>7, <2>1, <2>2, <2>3
       DEF ThreadFlags, ServerTypes, WireTypes, OtherTypes, Books, Resting, Reads
  <2>4. CASE ~thread.null /\ run' # "exited"
    <3>1. PICK v \in Nat :
            /\ thread' = Reads("answer")
            /\ job' = [op |-> thread.op, flags |-> v, status |-> INITED, err |-> INITED]
            /\ worker' = [worker EXCEPT !.pc = "start"]
      BY <1>2, <1>7, <2>4 DEF ThreadFlags
    <3>2. job' \in Jobs
      BY <1>1, <3>1 DEF Threads, Jobs, INITED
    <3>3. worker' \in WorkerStates /\ worker'.pc = "start"
      BY <1>1, <3>1 DEF WorkerStates
    <3>4. QED
      BY <1>0, <1>2, <1>7, <2>1, <2>2, <3>1, <3>2, <3>3
         DEF ThreadFlags, ServerTypes, WireTypes, OtherTypes, Books, Resting, Reads
  <2>5. CASE ~thread.null /\ run' = "exited"
    <3>1. UNCHANGED <<thread, job, worker>>
      BY <1>7, <2>5 DEF ThreadFlags, ThreadWants, Running
    <3>2. QED
      BY <1>0, <1>2, <1>7, <2>1, <2>5, <3>1
         DEF ThreadFlags, ServerTypes, WireTypes, OtherTypes, Books, Resting
  <2>6. QED
    BY <2>3, <2>4, <2>5
<1>8. ASSUME NEW next \in {"op", "status", "error", "free", "ended"}, ThreadGoesOn(next)
      PROVE  thread' \in Threads /\ thread'.wants = next
             /\ UNCHANGED <<clientVars, toServer, worker, strayed>>
  BY <1>1, <1>8 DEF ThreadGoesOn, Threads
<1>9. CASE ThreadAnswer
  <2>1. answers' = answers - 1 /\ answers' \in 0..2 /\ answers > 0
    BY <1>1, <1>9 DEF ThreadAnswer
  <2>2. QED
    BY <1>0, <1>8, <1>9, <2>1 DEF ThreadAnswer, ThreadWants, ServerTypes, WireTypes, OtherTypes, Books
<1>10. CASE ThreadAnswerFreed
  BY <1>0, <1>10 DEF ThreadAnswerFreed, serverVars, Running, ServerTypes, WireTypes, OtherTypes
<1>11. CASE ThreadStatus
  <2>1. job.status \in Nat
    BY <1>1 DEF Jobs, OK, NOT_OK, INITED
  <2>2. QED
    BY <1>0, <1>3, <1>8, <1>11, <2>1
       DEF ThreadStatus, ThreadWants, ServerTypes, WireTypes, OtherTypes, Books
<1>12. CASE ThreadError
  <2>1. job.err \in Nat
    BY <1>1 DEF Jobs
  <2>2. QED
    BY <1>0, <1>3, <1>8, <1>12, <2>1
       DEF ThreadError, ThreadWants, ServerTypes, WireTypes, OtherTypes, Books
<1>13. CASE ThreadFree
  <2>1. stale' \in BOOLEAN /\ answers' = 0 /\ UNCHANGED <<toClient, job>>
    BY <1>13 DEF ThreadFree
  <2>2. /\ thread' \in Threads /\ thread'.wants \in {"op", "ended"}
        /\ UNCHANGED <<clientVars, toServer, worker, strayed>>
    BY <1>8, <1>13 DEF ThreadFree
  <2>3. run' = "undefined" \/ (run' = run /\ worker.pc = "idle")
    BY <1>13 DEF ThreadFree, ThreadWants, Books
  <2>4. QED
    BY <1>0, <2>1, <2>2, <2>3 DEF Running, ServerTypes, WireTypes, OtherTypes, Books, Resting
<1>14. QED
  BY <1>4, <1>5, <1>6, <1>7, <1>9, <1>10, <1>11, <1>12, <1>13 DEF ThreadStep

\* What a worker sends arrives, or ends the server.
LEMMA SendsTyped ==
  ASSUME TypeOK, NEW items \in Seq(Item), Sends(items)
  PROVE  toClient' \in Seq(Item) /\ run' \in {run, "exited"}
<1>1. toClient \in Seq(Item)
  BY DEF TypeOK
<1>2. QED
  BY <1>1, ConcatProperties DEF Sends

\* What a worker that answers does to the job.
LEMMA AnswerTyped ==
  ASSUME TypeOK, Books, worker.pc # "idle",
         NEW status \in {OK, NOT_OK}, NEW err \in Nat, Answer(status, err)
  PROVE  /\ job' \in Jobs /\ worker' \in WorkerStates
         /\ job' = [job EXCEPT !.status = status, !.err = err]
         /\ worker'.pc = "idle" /\ answers' = answers + 1 /\ answers' \in 0..2
<1>1. job \in Jobs /\ answers \in 0..2
  BY TypesAre DEF ServerTypes
<1>2. job' \in Jobs
  BY <1>1 DEF Answer, Jobs
<1>3. worker' \in WorkerStates /\ worker'.pc = "idle"
  BY DEF Answer, At, WorkerStates
<1>4. answers' = answers + 1 /\ answers' \in 0..2
  BY <1>1 DEF Answer, Books
<1>5. QED
  BY <1>2, <1>3, <1>4 DEF Answer

\* A worker that goes on keeps its types.
LEMMA GoesOnTyped ==
  ASSUME TypeOK,
         NEW pc \in {"start", "again", "check", "announced", "size", "length", "bytes",
                     "write", "head", "sendn", "left"},
         WorkerGoesOn(pc)
  PROVE  worker' \in WorkerStates /\ worker' = [worker EXCEPT !.pc = pc] /\ worker'.pc = pc
         /\ UNCHANGED <<job, answers>>
<1>1. worker \in WorkerStates
  BY TypesAre DEF ServerTypes
<1>2. QED
  BY <1>1 DEF WorkerGoesOn, WorkerStates

\* The numbers and error numbers that a worker sends.
LEMMA WorkerNumbers ==
  /\ CONTINUE \in Nat /\ NO_CONTINUE \in Nat /\ NOT_OK \in Nat
  /\ Errno.ENOENT \in Nat /\ Errno.E2BIG \in Nat /\ Errno.EACCES \in Nat /\ Errno.EFAULT \in Nat
  /\ Errno.EEXIST \in Nat /\ Errno.ENODATA \in Nat /\ Errno.ENONET \in Nat
  /\ \A v \in {CONTINUE, NO_CONTINUE, NOT_OK} : <<Number("continue", v)>> \in Seq(Item)
  /\ \A v \in Nat : <<Number("count", v)>> \in Seq(Item) /\ <<Number("size", v)>> \in Seq(Item)
                    /\ <<Number("continue", CONTINUE), Number("size", v)>> \in Seq(Item)
<1>1. CONTINUE \in Nat /\ NO_CONTINUE \in Nat /\ NOT_OK \in Nat
  BY DEF CONTINUE, NO_CONTINUE, NOT_OK
<1>2. /\ Errno.ENOENT \in Nat /\ Errno.E2BIG \in Nat /\ Errno.EACCES \in Nat /\ Errno.EFAULT \in Nat
      /\ Errno.EEXIST \in Nat /\ Errno.ENODATA \in Nat /\ Errno.ENONET \in Nat
  BY DEF Errno
<1>3. \A v \in Nat : /\ Number("continue", v) \in Item /\ Number("count", v) \in Item
                     /\ Number("size", v) \in Item
  BY NumberTyped DEF Receives
<1>4. QED
  BY <1>1, <1>2, <1>3

\* The worker.
LEMMA WorkerTyped ==
  ASSUME TypeOK, Running, Books, WorkerStep
  PROVE  /\ ServerTypes' /\ WireTypes' /\ OtherTypes' /\ (Running => Books)'
         /\ UNCHANGED clientVars
<1>0. ServerTypes /\ WireTypes /\ OtherTypes
  BY TypesAre
<1>1. /\ worker \in WorkerStates /\ job \in Jobs /\ answers \in 0..2
      /\ toClient \in Seq(Item) /\ run = "running"
  BY <1>0 DEF ServerTypes, WireTypes, Running
<1>2. Numbers \subseteq Nat /\ Unread \in Seq(Item)
  BY NumbersTyped
<1> DEFINE Late == worker.pc \in {"again", "check", "announced"}
           \* the worker has answered, or goes on
           Does == /\ job' \in Jobs /\ worker' \in WorkerStates /\ answers' \in 0..2
                   /\ \/ worker'.pc = "idle"
                      \/ worker'.pc # "idle" /\ ~Late /\ answers' = answers
                      \/ worker'.pc \in {"again", "check", "announced"} /\ answers' <= 1
           Moves == /\ toServer' \in Seq(Item) /\ toClient' \in Seq(Item)
                    /\ run' \in {"running", "exited", "undefined"} /\ strayed' \subseteq Ways
                    /\ UNCHANGED <<clientVars, thread, stale>>
<1>3. ASSUME Does, Moves, worker.pc # "idle"
      PROVE  /\ ServerTypes' /\ WireTypes' /\ OtherTypes' /\ (Running => Books)'
             /\ UNCHANGED clientVars
  BY <1>0, <1>1, <1>3 DEF ServerTypes, WireTypes, OtherTypes, Books, Resting
<1>4. ASSUME Elsewhere, UNCHANGED strayed, NEW items \in Seq(Item), Sends(items) \/ SendsNothing
      PROVE  Moves
  BY <1>0, <1>1, <1>4, SendsTyped DEF Elsewhere, SendsNothing, WireTypes, OtherTypes
<1>5. ASSUME NEW status \in {OK, NOT_OK}, NEW err \in Nat, Answer(status, err), worker.pc # "idle"
      PROVE  Does
  BY <1>5, AnswerTyped
<1>6. ASSUME NEW pc \in {"start", "again", "check", "announced", "size", "length", "bytes",
                         "write", "head", "sendn", "left"},
             WorkerGoesOn(pc), worker.pc # "idle",
             pc \in {"again", "check", "announced"} \/ ~Late
      PROVE  Does
  BY <1>1, <1>6, GoesOnTyped DEF Books
<1>7. /\ \A v \in {CONTINUE, NO_CONTINUE, NOT_OK} : <<Number("continue", v)>> \in Seq(Item)
      /\ \A n \in Sizes : /\ Message(n) \in Seq(Item) /\ <<Number("size", n)>> \in Seq(Item)
                          /\ <<Number("continue", CONTINUE), Number("size", n)>> \in Seq(Item)
      /\ \A m, n \in Sizes : Message(m) \o <<Number("size", n)>> \in Seq(Item)
  BY WorkerNumbers, MessageIs, ProtocolAssumption, ConcatProperties
<1>8. CASE WorkerOpen
  <2>1. worker.pc # "idle" /\ Moves
    BY <1>4, <1>7, <1>8 DEF WorkerOpen, WorkerOn, WorkerAt
  <2>2. Does
    BY <1>5, <1>8, <2>1, WorkerNumbers DEF WorkerOpen
  <2>3. QED
    BY <1>3, <2>1, <2>2
<1>9. CASE WorkerClose
  <2>1. worker.pc = "start" /\ Moves
    BY <1>0, <1>1, <1>9 DEF WorkerClose, WorkerOn, WorkerAt, Elsewhere, SendsNothing, Strays, Ways,
                          WireTypes, OtherTypes
  <2>2. Does
    <3>1. CASE Answer(NOT_OK, Errno.ENOENT)
      BY <1>5, <2>1, <3>1, WorkerNumbers
    <3>2. CASE ~Answer(NOT_OK, Errno.ENOENT)
      <4>1. /\ job' = [job EXCEPT !.status = OK, !.err = 0] /\ answers' = answers + 1
            /\ worker' = [worker EXCEPT !.pc = "again"]
        BY <1>9, <3>2 DEF WorkerClose
      <4>2. job' \in Jobs
        BY <1>1, <4>1 DEF Jobs
      <4>3. worker' \in WorkerStates /\ worker'.pc = "again"
        BY <1>1, <4>1 DEF WorkerStates
      <4>4. answers = 0
        BY <2>1 DEF Books
      <4>5. QED
        BY <4>1, <4>2, <4>3, <4>4
    <3>3. QED
      BY <3>1, <3>2
  <2>3. QED
    BY <1>3, <2>1, <2>2
<1>10. CASE WorkerRead
  <2>1. worker.pc # "idle" /\ Moves
    BY <1>4, <1>7, <1>10 DEF WorkerRead, WorkerOn, WorkerAt
  <2>2. Does
    BY <1>5, <1>6, <1>10, <2>1, WorkerNumbers DEF WorkerRead, WorkerOn, WorkerAt
  <2>3. QED
    BY <1>3, <2>1, <2>2
<1>11. CASE WorkerCheck
  <2>1. worker.pc # "idle" /\ Moves
    BY <1>4, <1>7, <1>11 DEF WorkerCheck, WorkerAt
  <2>2. Does
    BY <1>5, <1>6, <1>11, <2>1, WorkerNumbers DEF WorkerCheck, WorkerAt
  <2>3. QED
    BY <1>3, <2>1, <2>2
<1>12. CASE WorkerSendFile
  <2>1. worker.pc # "idle" /\ Moves
    BY <1>4, <1>7, <1>12 DEF WorkerSendFile, WorkerAt
  <2>2. Does
    BY <1>5, <1>6, <1>12, <2>1, WorkerNumbers DEF WorkerSendFile, WorkerAt
  <2>3. QED
    BY <1>3, <2>1, <2>2
<1>13. CASE WorkerWrite
  <2>1. worker.pc # "idle" /\ Moves
    BY <1>4, <1>7, <1>13 DEF WorkerWrite, WorkerOn, WorkerAt
  <2>2. Does
    BY <1>5, <1>6, <1>13, <2>1, WorkerNumbers DEF WorkerWrite, WorkerOn, WorkerAt
  <2>3. QED
    BY <1>3, <2>1, <2>2
<1>14. CASE WorkerSize
  <2>1. PICK n \in Numbers :
          \/ /\ Sends(<<Number("continue", NO_CONTINUE)>>)
             /\ Answer(NOT_OK, Errno.E2BIG)
             /\ strayed' \in {strayed, strayed \cup {"APPEND_FILE refused"}}
          \/ /\ Sends(<<Number("continue", CONTINUE)>>) \/ SendsNothing
             /\ worker' = [worker EXCEPT !.pc = "length", !.size = n]
             /\ UNCHANGED <<job, answers, strayed>>
    BY <1>14 DEF WorkerSize, Strays
  <2>2. worker.pc = "size" /\ toServer' = Unread /\ UNCHANGED <<clientVars, thread, stale>>
    BY <1>14 DEF WorkerSize, WorkerAt
  <2>3. toClient' \in Seq(Item) /\ run' \in {"running", "exited", "undefined"} /\ strayed' \subseteq Ways
    <3>1. Sends(<<Number("continue", NO_CONTINUE)>>) \/ Sends(<<Number("continue", CONTINUE)>>)
          \/ SendsNothing
      BY <2>1
    <3>2. strayed' \subseteq Ways
      BY <1>0, <2>1 DEF OtherTypes, Ways
    <3>3. QED
      BY <1>1, <1>7, <3>1, <3>2, SendsTyped DEF SendsNothing
  <2>4. Moves
    BY <1>2, <2>2, <2>3
  <2>5. CASE Answer(NOT_OK, Errno.E2BIG)
    BY <1>3, <1>5, <2>2, <2>4, <2>5, WorkerNumbers
  <2>6. CASE worker' = [worker EXCEPT !.pc = "length", !.size = n] /\ UNCHANGED <<job, answers>>
    <3>1. worker' \in WorkerStates /\ worker'.pc = "length"
      BY <1>1, <1>2, <2>6 DEF WorkerStates
    <3>2. Does
      BY <1>1, <2>2, <2>6, <3>1
    <3>3. QED
      BY <1>3, <2>2, <2>4, <3>2
  <2>7. QED
    BY <2>1, <2>5, <2>6
<1>15. CASE WorkerLength
  <2>1. PICK n \in Numbers :
          worker' = [worker EXCEPT !.pc = IF n = 0 THEN "write" ELSE "bytes", !.length = n]
    BY <1>15 DEF WorkerLength
  <2>2. worker.pc = "length" /\ Moves /\ UNCHANGED <<job, answers>>
    BY <1>0, <1>1, <1>2, <1>15 DEF WorkerLength, WorkerAt, WireTypes, OtherTypes
  <2>3. worker' \in WorkerStates /\ worker'.pc \in {"write", "bytes"}
    BY <1>1, <1>2, <2>1 DEF WorkerStates
  <2>4. Does
    BY <1>1, <2>2, <2>3
  <2>5. QED
    BY <1>3, <2>2, <2>4
<1>16. CASE WorkerBytes
  <2>1. worker.pc = "bytes" /\ Moves
    BY <1>0, <1>1, <1>2, <1>16 DEF WorkerBytes, WorkerAt, SendsNothing, WireTypes, OtherTypes
  <2>2. Does
    BY <1>5, <1>6, <1>16, <2>1, WorkerNumbers DEF WorkerBytes
  <2>3. QED
    BY <1>3, <2>1, <2>2
<1>17. CASE WorkerWrites
  <2>1. worker.pc = "write" /\ Moves
    <3>1. CASE Reply("continue", CONTINUE) /\ UNCHANGED run
      <4>1. Number("continue", CONTINUE) \in Item
        BY NumberTyped, WorkerNumbers DEF Receives
      <4>2. toClient' \in Seq(Item)
        BY <1>1, <3>1, <4>1, AppendProperties DEF Reply
      <4>3. QED
        BY <1>0, <1>1, <1>17, <3>1, <4>2 DEF WorkerWrites, WorkerAt, Elsewhere, WireTypes, OtherTypes
    <3>2. CASE ~(Reply("continue", CONTINUE) /\ UNCHANGED run)
      BY <1>4, <1>7, <1>17, <3>2 DEF WorkerWrites, WorkerAt
    <3>3. QED
      BY <3>1, <3>2
  <2>2. Does
    BY <1>5, <1>17, <2>1, WorkerNumbers DEF WorkerWrites
  <2>3. QED
    BY <1>3, <2>1, <2>2
<1>18. CASE WorkerCount
  <2>1. PICK files \in 0..MaxFiles, n \in Nat :
          \/ /\ Sends(<<Number("continue", NO_CONTINUE)>>)
             /\ Answer(NOT_OK, Errno.ENODATA)
             /\ Strays("READN_FILE of an empty store")
          \/ /\ Sends(<<Number("count", n)>>)
             /\ worker' = [worker EXCEPT !.pc = "head", !.left = n]
             /\ UNCHANGED <<job, answers, strayed>>
    <3>1. job.flags \in Nat
      BY <1>1 DEF Jobs
    <3>2. \A files \in 0..MaxFiles : files \in Nat
      BY ProtocolAssumption
    <3>3. QED
      BY <1>18, <3>1, <3>2 DEF WorkerCount
  <2>2. worker.pc = "start" /\ Elsewhere
    BY <1>18 DEF WorkerCount, WorkerOn, WorkerAt
  <2>3. CASE Answer(NOT_OK, Errno.ENODATA) /\ Sends(<<Number("continue", NO_CONTINUE)>>)
             /\ Strays("READN_FILE of an empty store")
    <3>1. Moves
      BY <1>0, <1>1, <1>7, <2>2, <2>3, SendsTyped DEF Elsewhere, Strays, Ways, WireTypes, OtherTypes
    <3>2. QED
      BY <1>3, <1>5, <2>2, <2>3, <3>1, WorkerNumbers
  <2>4. CASE Sends(<<Number("count", n)>>) /\ worker' = [worker EXCEPT !.pc = "head", !.left = n]
             /\ UNCHANGED <<job, answers, strayed>>
    <3>1. Moves
      BY <1>4, <2>2, <2>4, WorkerNumbers
    <3>2. worker' \in WorkerStates /\ worker'.pc = "head"
      BY <1>1, <2>4 DEF WorkerStates
    <3>3. Does
      BY <1>1, <2>2, <2>4, <3>2
    <3>4. QED
      BY <1>3, <2>2, <3>1, <3>3
  <2>5. QED
    BY <2>1, <2>3, <2>4
<1>19. CASE WorkerHead
  <2>1. worker.pc # "idle" /\ Moves
    BY <1>4, <1>7, <1>19 DEF WorkerHead, WorkerAt
  <2>2. Does
    BY <1>5, <1>6, <1>19, <2>1, WorkerNumbers DEF WorkerHead, WorkerAt
  <2>3. QED
    BY <1>3, <2>1, <2>2
<1>20. CASE WorkerSendN
  <2>1. worker.pc = "sendn" /\ worker.left > 0 /\ Elsewhere /\ UNCHANGED <<job, answers, strayed>>
    BY <1>20 DEF WorkerSendN, WorkerAt
  <2>2. CASE run' = "undefined" /\ UNCHANGED <<toClient, worker>>
    <3>1. Moves /\ Does
      BY <1>0, <1>1, <2>1, <2>2 DEF Elsewhere, WireTypes, OtherTypes
    <3>2. QED
      BY <1>3, <2>1, <3>1
  <2>3. CASE ~(run' = "undefined" /\ UNCHANGED <<toClient, worker>>)
    <3>1. Moves
      BY <1>4, <1>7, <1>20, <2>1, <2>3 DEF WorkerSendN
    <3>2. worker' = [worker EXCEPT !.left = worker.left - 1]
      BY <1>20, <2>3 DEF WorkerSendN
    <3>3. worker.left - 1 \in Nat
      BY <1>1, <2>1 DEF WorkerStates
    <3>4. worker' \in WorkerStates /\ worker'.pc = "sendn"
      BY <1>1, <2>1, <3>2, <3>3 DEF WorkerStates
    <3>5. Does
      BY <1>1, <2>1, <3>4
    <3>6. QED
      BY <1>3, <2>1, <3>1, <3>5
  <2>4. QED
    BY <2>2, <2>3
<1>21. CASE WorkerSentN
  <2>1. worker.pc # "idle" /\ Moves
    BY <1>4, <1>7, <1>21 DEF WorkerSentN, WorkerAt
  <2>2. Does
    BY <1>5, <1>6, <1>21, <2>1, WorkerNumbers DEF WorkerSentN, WorkerAt
  <2>3. QED
    BY <1>3, <2>1, <2>2
<1>22. CASE WorkerRemove
  <2>1. worker.pc # "idle" /\ Moves
    BY <1>4, <1>7, <1>22 DEF WorkerRemove, WorkerOn, WorkerAt
  <2>2. Does
    BY <1>5, <1>6, <1>22, <2>1, WorkerNumbers DEF WorkerRemove, WorkerOn, WorkerAt
  <2>3. QED
    BY <1>3, <2>1, <2>2
<1>23. CASE WorkerCloseConnection
  <2>1. worker.pc # "idle" /\ Moves
    BY <1>4, <1>7, <1>23 DEF WorkerCloseConnection, WorkerOn, WorkerAt
  <2>2. Does
    BY <1>5, <1>6, <1>23, <2>1, WorkerNumbers DEF WorkerCloseConnection, WorkerOn, WorkerAt
  <2>3. QED
    BY <1>3, <2>1, <2>2
<1>24. CASE WorkerLeaves
  <2>1. worker.pc # "idle" /\ Moves
    BY <1>4, <1>7, <1>24 DEF WorkerLeaves, WorkerAt
  <2>2. Does
    BY <1>5, <1>6, <1>24, <2>1, WorkerNumbers DEF WorkerLeaves, WorkerAt
  <2>3. QED
    BY <1>3, <2>1, <2>2
<1>25. QED
  BY <1>8, <1>9, <1>10, <1>11, <1>12, <1>13, <1>14, <1>15, <1>16, <1>17,
     <1>18, <1>19, <1>20, <1>21, <1>22, <1>23, <1>24
     DEF WorkerStep

\* The types and the bookkeeping hold at first.
LEMMA TypesFirst == Init => TypeOK /\ Bookkeeping
<1> SUFFICES ASSUME Init PROVE TypeOK /\ Bookkeeping
  OBVIOUS
<1>1. program \in Seq(Calls)
  BY ProtocolAssumption DEF Init
<1>2. script \in Seq(Steps) /\ LengthNotLast(script)
  BY GoOns DEF Init
<1>3. ClientTypes
  BY <1>1, <1>2 DEF Init, ClientTypes, NoLocal, Locals, OK
<1>4. ServerTypes
  <2>1. thread \in Threads
    BY DEF Init, Reads, Threads
  <2>2. job \in Jobs
    BY DEF Init, NoJob, Jobs, INITED
  <2>3. worker \in WorkerStates
    BY DEF Init, At, WorkerStates
  <2>4. answers \in 0..2
    BY DEF Init
  <2>5. stale \in BOOLEAN
    BY Zenon DEF Init
  <2>6. QED
    BY <2>1, <2>2, <2>3, <2>4, <2>5 DEF ServerTypes
<1>5. WireTypes /\ OtherTypes
  BY DEF Init, WireTypes, OtherTypes
<1>6. Books
  BY DEF Init, Books, Resting, At, Reads
<1>7. QED
  BY <1>2, <1>3, <1>4, <1>5, <1>6, TypesAre DEF Bookkeeping

\* Every step keeps the types and the bookkeeping.
LEMMA TypesNext ==
  ASSUME TypeOK, Bookkeeping, [Next]_vars
  PROVE  TypeOK' /\ Bookkeeping'
<1>1. TypeOK' <=> ClientTypes' /\ ServerTypes' /\ WireTypes' /\ OtherTypes'
  BY TypesAre, PTL
<1>2. LengthNotLast(script) /\ (Running => Books) /\ ClientTypes /\ ServerTypes /\ WireTypes /\ OtherTypes
  BY TypesAre DEF Bookkeeping
<1>3. CASE ClientStep \/ HangUp
  <2>1. /\ ClientTypes' /\ WireTypes' /\ OtherTypes' /\ LengthNotLast(script')
        /\ UNCHANGED <<serverVars, run>>
    BY <1>2, <1>3, ClientTyped
  <2>2. ServerTypes' /\ (Running => Books)'
    BY <1>2, <2>1 DEF serverVars, ServerTypes, Books, Running, Resting
  <2>3. QED
    BY <1>1, <2>1, <2>2 DEF Bookkeeping
<1>4. CASE ThreadStep \/ WorkerStep
  <2>1. Running
    BY <1>4 DEF ThreadStep, ThreadOp, ThreadLength, ThreadBytes, ThreadFlags, ThreadAnswer,
                ThreadAnswerFreed, ThreadStatus, ThreadError, ThreadFree, ThreadWants,
                WorkerStep, WorkerOpen, WorkerClose, WorkerRead, WorkerCheck, WorkerSendFile,
                WorkerWrite, WorkerSize, WorkerLength, WorkerBytes, WorkerWrites, WorkerCount,
                WorkerHead, WorkerSendN, WorkerSentN, WorkerRemove, WorkerCloseConnection,
                WorkerLeaves, WorkerOn, WorkerAt
  <2>2. ServerTypes' /\ WireTypes' /\ OtherTypes' /\ (Running => Books)' /\ UNCHANGED clientVars
    BY <1>2, <1>4, <2>1, ThreadTyped, WorkerTyped
  <2>3. ClientTypes' /\ LengthNotLast(script')
    BY <1>2, <2>2 DEF clientVars, ClientTypes
  <2>4. QED
    BY <1>1, <2>2, <2>3 DEF Bookkeeping
<1>5. CASE Garble
  <2>1. run' = "garbled" /\ UNCHANGED <<clientVars, toServer, toClient, serverVars, strayed>>
    BY <1>5 DEF Garble
  <2>2. ClientTypes' /\ ServerTypes' /\ WireTypes' /\ OtherTypes' /\ LengthNotLast(script') /\ ~Running'
    BY <1>2, <2>1 DEF clientVars, serverVars, ClientTypes, ServerTypes, WireTypes, OtherTypes, Running
  <2>3. QED
    BY <1>1, <2>2 DEF Bookkeeping
<1>6. CASE UNCHANGED vars
  BY <1>1, <1>2, <1>6 DEF vars, ClientTypes, ServerTypes, WireTypes, OtherTypes, Bookkeeping, Books,
                          Running, Resting
<1>7. QED
  BY <1>3, <1>4, <1>5, <1>6 DEF Next

\* Every variable has its type for all programs, sizes and file counts, even
\* after the two sides have come apart: no script runs past its end, and a job
\* is answered twice at most.
THEOREM ProtocolTypes == Spec => [](TypeOK /\ Bookkeeping)
<1>1. Init => TypeOK /\ Bookkeeping
  BY TypesFirst
<1>2. TypeOK /\ Bookkeeping /\ [Next]_vars => (TypeOK /\ Bookkeeping)'
  BY TypesNext
<1>3. QED
  BY <1>1, <1>2, PTL DEF Spec

-----------------------------------------------------------------------------
(* The client's steps.                                                     *)

\* In step, some place is where the client will be.
LEMMA InStepIs ==
  InStep <=> /\ ~stale
             /\ call \in Calls <=> script # <<>>
             /\ \E q : Leads(Here, toClient, q) /\ Phase(q)
<1>1. \A q : Leads(Here, toClient, q) => q = Path(Here, toClient)[Len(toClient)]
  BY DEF Leads, LeadsBy
<1>2. QED
  BY <1>1 DEF InStep, Arrival

\* A step keeps step when it leads to some such place.
LEMMA StepsTo ==
  ASSUME NEW q, ~stale', (call \in Calls <=> script # <<>>)', Leads(Here', toClient', q), Phase(q)'
  PROVE  InStep'
<1>1. q = Arrival'
  BY DEF Arrival, Leads, LeadsBy
<1>2. QED
  BY <1>1 DEF InStep

\* The phases speak of the server, of what the client has sent, and of the call.
LEMMA PhaseStays ==
  ASSUME NEW q, Phase(q), UNCHANGED <<call, toServer, serverVars>>
  PROVE  Phase(q)'
<1>1. UNCHANGED <<call, toServer, thread, job, answers, stale, worker>>
  BY DEF serverVars
<1>2. Served(q) => Served(q)'
  BY <1>1 DEF Served, Resting, Answered
<1>3. Asked(q) => Asked(q)'
  BY <1>1 DEF Asked, Resting
<1>4. AtWork(q) => AtWork(q)'
  BY <1>1 DEF AtWork, Writing, Appending, ReadingFile, ReadingNFiles
<1>5. Answering(q) => Answering(q)'
  BY <1>1 DEF Answering, Answered
<1>6. QED
  BY <1>2, <1>3, <1>4, <1>5 DEF Phase

\* The client reads what comes first.
LEMMA ReadsFirst ==
  ASSUME TypeOK, InStep, toClient # <<>>
  PROVE  /\ Fits(Here, Head(toClient))
         /\ Head(toClient) \in Item
         /\ \E q : Leads(Reading(Here, Head(toClient)), Tail(toClient), q) /\ Phase(q)
<1>1. PICK q : Leads(Here, toClient, q) /\ Phase(q)
  BY InStepIs
<1>2. toClient \in Seq(Item)
  BY DEF TypeOK
<1>3. Fits(Here, Head(toClient)) /\ Leads(Reading(Here, Head(toClient)), Tail(toClient), q)
  BY <1>1, <1>2, LeadsRead
<1>4. Head(toClient) \in Item
  BY <1>2, TailTyped
<1>5. QED
  BY <1>1, <1>3, <1>4

\* Reading a number as what it is leaves the rest of the way as it was.
LEMMA ReadKeeps ==
  ASSUME TypeOK, InStep, toClient # <<>>, Head(toClient).as # "error",
         toClient' = Tail(toClient), Here' = Reading(Here, Head(toClient)),
         UNCHANGED <<call, toServer, serverVars>>
  PROVE  InStep'
<1>1. PICK q : Leads(Reading(Here, Head(toClient)), Tail(toClient), q) /\ Phase(q)
  BY ReadsFirst
<1>2. Leads(Here', toClient', q) /\ Phase(q)'
  BY <1>1, PhaseStays
<1>3. script' # <<>>
  <2>1. script' = ScriptAfter(Here, Head(toClient))
    BY DEF Here, Reading
  <2>2. QED
    BY <2>1, ReadsFirst DEF Fits
<1>4. ~stale' /\ (call \in Calls <=> script # <<>>)'
  <2>1. script # <<>>
    BY ReadsFirst DEF Fits, Here
  <2>2. ~stale /\ (call \in Calls <=> script # <<>>)
    BY InStepIs
  <2>3. QED
    BY <1>3, <2>1, <2>2 DEF serverVars
<1>5. QED
  BY <1>2, <1>4, StepsTo

\* Where the client has something to send nothing is on its way to it.
LEMMA SendsAlone ==
  ASSUME TypeOK, InStep, script = <<>> \/ Head(script) \notin Receives
  PROVE  toClient = <<>> /\ \E q : q = Here /\ Phase(q)
<1>1. toClient = <<>>
  BY ReadsFirst DEF Fits, Here
<1>2. PICK q : Leads(Here, toClient, q) /\ Phase(q)
  BY InStepIs
<1>3. q = Here
  BY <1>1, <1>2, EmptyLeads
<1>4. QED
  BY <1>1, <1>2, <1>3

\* A client that has sent something is where it has to be if nothing is on its way to it.
LEMMA SendKeeps ==
  ASSUME NEW q, q = Here', toClient' = <<>>, Phase(q)', ~stale', (call \in Calls <=> script # <<>>)'
  PROVE  InStep'
BY LeadsEmpty, StepsTo

\* What each read does to the place of the function.
LEMMA ContinueKeeps == ASSUME TypeOK, InStep, ClientContinue PROVE InStep'
<1>1. /\ script # <<>> /\ Head(script) = "continue" /\ toClient # <<>>
      /\ script' = IF Head(toClient).val = CONTINUE THEN Tail(script) ELSE GetResp
      /\ toClient' = Tail(toClient) /\ local' = local
      /\ UNCHANGED <<call, toServer, serverVars>>
  BY DEF ClientContinue, Arrives, Doing, ClientReads, Value
<1>2. Head(toClient).as = "continue"
  BY <1>1, ReadsFirst DEF Fits, Here
<1>3. script' = ScriptAfter(Here, Head(toClient))
  BY <1>1, <1>2 DEF ScriptAfter, Here
<1>4. Here' = Reading(Here, Head(toClient))
  BY <1>1, <1>2, <1>3 DEF Reading, Here
<1>5. QED
  BY <1>1, <1>2, <1>4, ReadKeeps

\* readNFiles reads how many files will come.
LEMMA CountKeeps == ASSUME TypeOK, InStep, ClientCount PROVE InStep'
<1>1. /\ script # <<>> /\ Head(script) = "count" /\ toClient # <<>>
      /\ Head(toClient).as = "count" /\ Head(toClient).val # 0
  BY ReadsFirst DEF Fits, Here, ClientCount, Arrives, Doing
<1>2. /\ script' = Tail(script)
      /\ toClient' = Tail(toClient) /\ local' = [local EXCEPT !.files = Head(toClient).val]
      /\ UNCHANGED <<call, toServer, serverVars>>
  BY <1>1 DEF ClientCount, ClientReads, Value
<1>3. local \in Locals
  BY TypesAre DEF ClientTypes
<1>4. script' = ScriptAfter(Here, Head(toClient))
  BY <1>1, <1>2 DEF ScriptAfter, Here
<1>5. Here' = Reading(Here, Head(toClient))
  BY <1>1, <1>2, <1>3, <1>4 DEF Reading, Here, Locals
<1>6. QED
  BY <1>1, <1>2, <1>5, ReadKeeps

\* recv_message reads the length ...
LEMMA LengthKeeps == ASSUME TypeOK, InStep, ClientLength PROVE InStep'
<1>1. /\ script # <<>> /\ Head(script) = "length" /\ toClient # <<>> /\ Head(toClient).as = "length"
  BY ReadsFirst DEF Fits, Here, ClientLength, Arrives, Doing
<1>2. /\ script' = IF Head(toClient).val = 0 THEN Tail(Tail(script)) ELSE Tail(script)
      /\ toClient' = Tail(toClient) /\ local' = [local EXCEPT !.length = Head(toClient).val]
      /\ UNCHANGED <<call, toServer, serverVars>>
  BY <1>1 DEF ClientLength, ClientReads, Value
<1>3. local \in Locals
  BY TypesAre DEF ClientTypes
<1>4. script' = ScriptAfter(Here, Head(toClient))
  BY <1>1, <1>2 DEF ScriptAfter, Here
<1>5. Here' = Reading(Here, Head(toClient))
  BY <1>1, <1>2, <1>3, <1>4 DEF Reading, Here, Locals
<1>6. QED
  BY <1>1, <1>2, <1>5, ReadKeeps

\* ... and then the bytes.
LEMMA BytesKeeps == ASSUME TypeOK, InStep, ClientBytes PROVE InStep'
<1>1. /\ script # <<>> /\ Head(script) = "bytes" /\ toClient # <<>> /\ Head(toClient).as = "bytes"
  BY ReadsFirst DEF Fits, Here, ClientBytes, Doing
<1>2. /\ script' = Tail(script) /\ toClient' = Tail(toClient) /\ local' = local
      /\ UNCHANGED <<call, toServer, serverVars>>
  BY <1>1 DEF ClientBytes, ClientReads
<1>3. script' = ScriptAfter(Here, Head(toClient))
  BY <1>1, <1>2 DEF ScriptAfter, Here
<1>4. Here' = Reading(Here, Head(toClient))
  BY <1>1, <1>2, <1>3 DEF Reading, Here
<1>5. QED
  BY <1>1, <1>2, <1>4, ReadKeeps

\* The break leaves the loop in step only where it ends anyway.
LEMMA SizeKeeps == ASSUME TypeOK, InStep, ClientSize, strayed' = {} PROVE InStep'
<1>1. /\ script # <<>> /\ Head(script) = "size" /\ toClient # <<>> /\ Head(toClient).as = "size"
  BY ReadsFirst DEF Fits, Here, ClientSize, Arrives, Doing
<1>2. /\ script' = NextFile /\ toClient' = Tail(toClient)
      /\ local' = [local EXCEPT !.size = Head(toClient).val,
                                !.files = IF local.files = 0 THEN 0 ELSE local.files - 1]
      /\ UNCHANGED <<call, toServer, serverVars>>
  BY <1>1 DEF ClientSize, ClientReads, Value, NextFile, Strays
<1>3. local \in Locals
  BY TypesAre DEF ClientTypes
<1>4. script' = ScriptAfter(Here, Head(toClient))
  BY <1>1, <1>2 DEF ScriptAfter, Here, NextFile
<1>5. Here' = Reading(Here, Head(toClient))
  BY <1>1, <1>2, <1>3, <1>4 DEF Reading, Here, Locals
<1>6. QED
  BY <1>1, <1>2, <1>5, ReadKeeps

\* get_resp reads the status.
LEMMA StatusKeeps == ASSUME TypeOK, InStep, ClientStatus PROVE InStep'
<1>1. /\ script # <<>> /\ Head(script) = "status" /\ toClient # <<>> /\ Head(toClient).as = "status"
  BY ReadsFirst DEF Fits, Here, ClientStatus, Arrives, Doing
<1>2. /\ script' = Tail(script)
      /\ toClient' = Tail(toClient) /\ local' = [local EXCEPT !.status = Head(toClient).val]
      /\ UNCHANGED <<call, toServer, serverVars>>
  BY <1>1 DEF ClientStatus, ClientReads, Value
<1>3. local \in Locals
  BY TypesAre DEF ClientTypes
<1>4. script' = ScriptAfter(Here, Head(toClient))
  BY <1>1, <1>2 DEF ScriptAfter, Here
<1>5. Here' = Reading(Here, Head(toClient))
  BY <1>1, <1>2, <1>3, <1>4 DEF Reading, Here, Locals
<1>6. QED
  BY <1>1, <1>2, <1>5, ReadKeeps

\* Where a call ends the answer is the one to this call.
LEMMA LastNumber ==
  ASSUME TypeOK, InStep, ClientError
  PROVE  \E q : /\ Served(q) /\ toClient' = <<>> /\ call \in Calls
                /\ q.status = local.status /\ q.errno = Value
<1>1. /\ script # <<>> /\ Head(script) = "error" /\ toClient # <<>> /\ Head(toClient).as = "error"
      /\ ScriptAfter(Here, Head(toClient)) = <<>>
  BY ReadsFirst DEF Fits, Here, ClientError, Arrives, Doing
<1> DEFINE r == Reading(Here, Head(toClient))
<1>2. PICK q : Leads(r, Tail(toClient), q) /\ Phase(q)
  BY <1>1, ReadsFirst
<1>3. /\ r.script = <<>> /\ r.status = local.status /\ r.errno = Value
  BY <1>1 DEF Reading, Here, Value
<1>4. Tail(toClient) \in Seq(Item)
  BY <1>1, TailTyped DEF TypeOK
<1> HIDE DEF r
<1>5. Tail(toClient) = <<>>
  BY <1>2, <1>3, <1>4, LeadsRead DEF Fits
<1>6. q = r
  BY <1>2, <1>5, EmptyLeads
<1>7. Served(q)
  <2>1. q.script = <<>>
    BY <1>3, <1>6
  <2>2. \A c \in Calls : Script[c] # <<>>
    BY ScriptTyped
  <2>3. ~Asked(q) /\ ~AtWork(q) /\ ~Answering(q)
    BY <2>1, <2>2 DEF Asked, AtWork, Answering, Writing, Appending, ReadingFile, ReadingNFiles
  <2>4. QED
    BY <1>2, <2>3 DEF Phase
<1>8. call \in Calls
  BY <1>1, InStepIs
<1>9. toClient' = <<>>
  BY <1>5 DEF ClientError
<1>10. QED
  BY <1>3, <1>6, <1>7, <1>8, <1>9

\* With the error number the call ends, and the server knows.
LEMMA ErrorKeeps == ASSUME TypeOK, InStep, ClientError PROVE InStep'
<1>1. PICK r : Served(r) /\ toClient' = <<>> /\ call \in Calls
  BY LastNumber
<1>2. PICK q : q = Here'
  OBVIOUS
<1>3. /\ script' = <<>> /\ UNCHANGED <<toServer, serverVars>>
      /\ call' = IF call = "closeConnection" THEN "gone" ELSE "none"
  BY DEF ClientError
<1>4. q.script = <<>>
  BY <1>2, <1>3 DEF Here
<1>5. /\ Resting /\ toServer = <<>> /\ job.op = Code[call]
      /\ thread.wants \in {"free", IF job.op = Code["closeConnection"] THEN "ended" ELSE "op"}
  BY <1>1 DEF Served
<1>6. call = "closeConnection" <=> job.op = Code["closeConnection"]
  BY <1>1, <1>5, CallsAre
<1>7. call' \notin Calls
  BY <1>3, CallsAre
<1>8. Served(q)'
  BY <1>3, <1>4, <1>5, <1>6, <1>7 DEF Served, Resting, serverVars
<1>9. ~stale' /\ (call \in Calls <=> script # <<>>)'
  BY <1>3, <1>7, InStepIs DEF serverVars
<1>10. QED
  BY <1>1, <1>2, <1>8, <1>9, SendKeeps DEF Phase

\* No function begins with a send, or ends at once.
LEMMA ScriptReceives ==
  ASSUME NEW c \in Calls
  PROVE  Head(Script[c]) \in {"status", "continue", "count"}
<1> DEFINE First(s) == Head(s) \in {"status", "continue", "count"}
<1>1. First(<<"status", "error">>)
  BY AnswerReads DEF Begins
<1>2. First(<<"continue", "continue", "size", "length", "bytes", "status", "error">>)
  BY FileReads DEF Begins
<1>3. First(<<"continue", "sendSize", "continue", "sendFile", "continue", "status", "error">>)
  BY WriteDoes DEF Begins
<1>4. First(<<"continue", "sendBoth", "status", "error">>)
  BY AppendDoes DEF Begins
<1>5. First(<<"count", "continue", "length", "bytes", "size", "status", "error">>)
  BY NFilesReads DEF Begins
<1> HIDE DEF First
<1>6. First(Script[c])
  BY <1>1, <1>2, <1>3, <1>4, <1>5, ScriptIs, CallsAre
<1>7. QED
  BY <1>6 DEF First

\* The request goes out when the last call has its answer.
LEMMA CallKeeps == ASSUME TypeOK, InStep, Call PROVE InStep'
<1> DEFINE c == Head(program)
<1>1. script = <<>> /\ ~stale
  BY CallsAre, InStepIs DEF Call
<1>2. PICK p : p = Here /\ Phase(p)
  BY <1>1, SendsAlone
<1>3. toClient = <<>>
  BY <1>1, SendsAlone
<1>4. c \in Calls
  BY HeadTailProperties DEF Call, TypeOK
<1>5. Served(p)
  <2>1. call \notin Calls
    BY CallsAre DEF Call
  <2>2. QED
    BY <1>2, <2>1 DEF Phase, Asked, AtWork, Answering
<1>6. PICK n \in NameLengths, f \in Flags :
        toServer' = toServer \o <<Number("op", Code[c])>> \o Message(n) \o <<Number("flags", f)>>
  BY DEF Call, Flags, Texts
<1>7. toServer' = <<Opening(c), Naming(n)[1], Naming(n)[2], Number("flags", f)>>
  <2>1. toServer = <<>>
    BY <1>5 DEF Served
  <2>2. Message(n) = <<Naming(n)[1], Naming(n)[2]>>
    BY MessageIs, ProtocolAssumption DEF Naming
  <2>3. <<>> \o <<Opening(c)>> = <<Opening(c)>>
    OBVIOUS
  <2>4. <<Opening(c)>> \o <<Naming(n)[1], Naming(n)[2]>> = <<Opening(c), Naming(n)[1], Naming(n)[2]>>
    BY OneTwo
  <2>5. <<Opening(c), Naming(n)[1], Naming(n)[2]>> \o <<Number("flags", f)>>
          = <<Opening(c), Naming(n)[1], Naming(n)[2], Number("flags", f)>>
    BY ThreeOne
  <2>6. toServer' = ((<<>> \o <<Opening(c)>>) \o <<Naming(n)[1], Naming(n)[2]>>) \o <<Number("flags", f)>>
    BY <1>6, <2>1, <2>2 DEF Opening
  <2>7. QED
    BY <2>3, <2>4, <2>5, <2>6
<1>8. PICK q : q = Here'
  OBVIOUS
<1>9. /\ call' = c /\ script' = Script[c] /\ local' = NoLocal
      /\ UNCHANGED <<toClient, serverVars>>
  BY DEF Call
<1>10. q.script = Script[c] /\ q.files = 0
  BY <1>8, <1>9 DEF Here, NoLocal
<1>11. Asked(q)'
  <2>1. /\ Resting
        /\ thread.wants = "op" \/ (thread.wants = "free" /\ job.op # Code["closeConnection"])
    <3>1. call = "none"
      BY DEF Call
    <3>2. QED
      BY <1>5, <3>1 DEF Served
  <2>2. Resting' /\ call' = c /\ thread' = thread /\ job' = job
    BY <1>9, <2>1 DEF Resting, serverVars
  <2>3. QED
    BY <1>4, <1>7, <1>9, <1>10, <2>1, <2>2 DEF Asked
<1>12. ~stale' /\ (call \in Calls <=> script # <<>>)'
  BY <1>1, <1>4, <1>9, ScriptTyped DEF serverVars
<1>13. QED
  BY <1>3, <1>8, <1>9, <1>11, <1>12, SendKeeps DEF Phase

\* A function that has something to send: the worker waits for it.
LEMMA WaitedFor ==
  ASSUME TypeOK, InStep, script # <<>>, Head(script) \in {"sendSize", "sendFile", "sendBoth"}
  PROVE  /\ toClient = <<>> /\ toServer = <<>> /\ call \in Calls /\ ~stale
         /\ thread.wants = "answer" /\ answers = 0 /\ job.op = Code[call]
         /\ \/ /\ Head(script) = "sendSize" /\ call = "writeFile" /\ worker.pc = "size"
               /\ script = <<"sendSize", "continue", "sendFile", "continue", "status", "error">>
            \/ /\ Head(script) = "sendFile" /\ call = "writeFile" /\ worker.pc = "length"
               /\ script = <<"sendFile", "continue", "status", "error">>
               /\ local.size = worker.size
            \/ /\ Head(script) = "sendBoth" /\ call = "appendToFile" /\ worker.pc = "size"
               /\ script = <<"sendBoth", "status", "error">>
<1>1. toClient = <<>> /\ \E q : q = Here /\ Phase(q)
  BY SendsAlone DEF Receives
<1>2. PICK q : q = Here /\ Phase(q)
  BY <1>1
<1>3. q.script = script /\ q.size = local.size
  BY <1>2 DEF Here
<1>4. ~Served(q)
  BY <1>3 DEF Served
<1>5. ~Asked(q)
  BY <1>3, ScriptReceives DEF Asked
<1>6. ~Answering(q)
  BY <1>3, AnswerReads DEF Answering, Begins
<1>7. AtWork(q)
  BY <1>2, <1>4, <1>5, <1>6 DEF Phase
<1>8. ~(worker.pc = "start" /\ q.script = Script[call])
  BY <1>3, <1>7, ScriptReceives DEF AtWork
<1>9. ~ReadingFile(q) /\ ~ReadingNFiles(q)
  <2>1. ~ReadingFile(q)
    BY <1>3, FileReads DEF ReadingFile, Begins
  <2>2. ~ReadingNFiles(q)
    BY <1>3, NFilesReads, AnswerReads DEF ReadingNFiles, Begins
  <2>3. QED
    BY <2>1, <2>2
<1>10. Writing(q) => \/ /\ Head(script) = "sendSize" /\ worker.pc = "size" /\ toServer = <<>>
                        /\ script = <<"sendSize", "continue", "sendFile", "continue", "status", "error">>
                     \/ /\ Head(script) = "sendFile" /\ worker.pc = "length" /\ toServer = <<>>
                        /\ script = <<"sendFile", "continue", "status", "error">>
                        /\ local.size = worker.size
  BY <1>3, WriteDoes DEF Writing, Begins
<1>11. Appending(q) => /\ Head(script) = "sendBoth" /\ worker.pc = "size" /\ toServer = <<>>
                       /\ script = <<"sendBoth", "status", "error">>
  BY <1>3, AppendDoes, AnswerReads DEF Appending, Begins
<1>12. /\ call \in Calls /\ thread.wants = "answer" /\ answers = 0 /\ job.op = Code[call]
       /\ (call = "writeFile" /\ Writing(q)) \/ (call = "appendToFile" /\ Appending(q))
  BY <1>7, <1>8, <1>9 DEF AtWork
<1>13. QED
  BY <1>1, <1>10, <1>11, <1>12, InStepIs

\* What it sends is what the worker waits for.
LEMMA UploadKeeps ==
  ASSUME TypeOK, InStep, strayed' = {}, ClientSendSize \/ ClientSendFile \/ ClientSendBoth
  PROVE  InStep'
<1>0. PICK q : q = Here'
  OBVIOUS
<1>1. /\ script # <<>> /\ Head(script) \in {"sendSize", "sendFile", "sendBoth"}
  BY DEF ClientSendSize, ClientSendFile, ClientSendBoth, Doing
<1>2. /\ toClient = <<>> /\ toServer = <<>> /\ call \in Calls /\ ~stale
      /\ thread.wants = "answer" /\ answers = 0 /\ job.op = Code[call]
  BY <1>1, WaitedFor
<1>3. ASSUME script' # <<>>, AtWork(q)', UNCHANGED <<call, toClient, serverVars>>
      PROVE  InStep'
  BY <1>0, <1>2, <1>3, SendKeeps DEF Phase, serverVars
<1>4. CASE ClientSendSize
  <2>1. /\ call = "writeFile" /\ worker.pc = "size"
        /\ script = <<"sendSize", "continue", "sendFile", "continue", "status", "error">>
    BY <1>1, <1>4, WaitedFor DEF ClientSendSize, Doing
  <2>2. PICK n \in Sizes : /\ ClientSends(Tail(script), <<Number("size", n)>>)
                           /\ local' = [local EXCEPT !.size = n]
    BY <1>4 DEF ClientSendSize, Strays
  <2>3. /\ script' = <<"continue", "sendFile", "continue", "status", "error">>
        /\ UNCHANGED <<call, toClient, serverVars>>
    BY <2>1, <2>2, WriteDoes DEF ClientSends, Begins
  <2>4. toServer' = <<Number("size", n)>>
    <3>1. <<>> \o <<Number("size", n)>> = <<Number("size", n)>>
      OBVIOUS
    <3>2. QED
      BY <1>2, <2>2, <3>1 DEF ClientSends
  <2>5. q.script = script' /\ q.size = n
    BY <1>0, <2>2, TypesAre DEF Here, ClientTypes, Locals
  <2>6. Writing(q)'
    BY <2>1, <2>3, <2>4, <2>5 DEF Writing, serverVars
  <2>7. AtWork(q)'
    BY <1>2, <2>1, <2>3, <2>6 DEF AtWork, serverVars
  <2>8. QED
    BY <1>3, <2>3, <2>7
<1>5. CASE ClientSendFile
  <2>1. /\ call = "writeFile" /\ worker.pc = "length"
        /\ script = <<"sendFile", "continue", "status", "error">> /\ local.size = worker.size
    BY <1>1, <1>5, WaitedFor DEF ClientSendFile, Doing
  <2>2. ClientSends(Tail(script), Message(local.size)) /\ local' = local
    BY <1>5 DEF ClientSendFile, Strays, FileContent
  <2>3. script' = <<"continue", "status", "error">> /\ UNCHANGED <<call, toClient, serverVars>>
    BY <2>1, <2>2, WriteDoes DEF ClientSends, Begins
  <2>4. toServer' = Message(worker.size)
    <3>1. Message(worker.size) \in Seq(Item)
      BY MessageIs, TypesAre DEF ServerTypes, WorkerStates
    <3>2. <<>> \o Message(worker.size) = Message(worker.size)
      BY <3>1, ConcatEmptySeq
    <3>3. QED
      BY <1>2, <2>1, <2>2, <3>2 DEF ClientSends
  <2>5. q.script = script'
    BY <1>0 DEF Here
  <2>6. Writing(q)'
    <3>1. worker' = worker
      BY <2>3 DEF serverVars
    <3>2. Message(worker.size)' = Message(worker.size)
      BY <3>1 DEF Message
    <3>3. QED
      BY <2>1, <2>3, <2>4, <2>5, <3>1, <3>2 DEF Writing
  <2>7. AtWork(q)'
    BY <1>2, <2>1, <2>3, <2>6 DEF AtWork, serverVars
  <2>8. QED
    BY <1>3, <2>3, <2>7
<1>6. CASE ClientSendBoth
  <2>1. call = "appendToFile" /\ worker.pc = "size" /\ script = <<"sendBoth", "status", "error">>
    BY <1>1, <1>6, WaitedFor DEF ClientSendBoth, Doing
  <2>2. PICK n \in Sizes : /\ ClientSends(Tail(script), <<Number("size", n)>> \o Message(n))
                           /\ local' = [local EXCEPT !.size = n]
    BY <1>6 DEF ClientSendBoth
  <2>3. script' = <<"status", "error">> /\ UNCHANGED <<call, toClient, serverVars>>
    BY <2>1, <2>2, AppendDoes DEF ClientSends, Begins
  <2>4. toServer' = <<Number("size", n)>> \o Message(n)
    <3>1. <<Number("size", n)>> \o Message(n) \in Seq(Item)
      BY MessageIs, WorkerNumbers, ConcatProperties, ProtocolAssumption
    <3>2. <<>> \o (<<Number("size", n)>> \o Message(n)) = <<Number("size", n)>> \o Message(n)
      BY <3>1, ConcatEmptySeq
    <3>3. QED
      BY <1>2, <2>2, <3>2 DEF ClientSends
  <2>5. q.script = script'
    BY <1>0 DEF Here
  <2>6. Appending(q)'
    BY <2>1, <2>3, <2>4, <2>5 DEF Appending, serverVars
  <2>7. AtWork(q)'
    BY <1>2, <2>1, <2>3, <2>6 DEF AtWork, serverVars
  <2>8. QED
    BY <1>3, <2>3, <2>7
<1>7. QED
  BY <1>4, <1>5, <1>6
-----------------------------------------------------------------------------
(* The client thread reads the request and sends the answer.               *)

\* What does not reach the client leaves it on its way to the same place.
LEMMA SamePlace ==
  ASSUME InStep, UNCHANGED <<clientVars, toClient>>, ~stale',
         NEW q, Leads(Here, toClient, q), Phase(q)'
  PROVE  InStep'
<1>1. Here' = Here /\ call' = call /\ script' = script /\ toClient' = toClient
  BY DEF Here, clientVars
<1>2. (call \in Calls <=> script # <<>>)'
  BY <1>1, InStepIs
<1>3. QED
  BY <1>1, <1>2, StepsTo

\* A number more on the way leads the client one step further.
LEMMA OneStepOn ==
  ASSUME TypeOK, InStep, UNCHANGED clientVars, ~stale',
         NEW q, Leads(Here, toClient, q),
         NEW item \in Item, toClient' = Append(toClient, item),
         Fits(q, item), Phase(Reading(q, item))'
  PROVE  InStep'
<1>1. Here' = Here /\ call' = call /\ script' = script
  BY DEF Here, clientVars
<1>2. (call \in Calls <=> script # <<>>)'
  BY <1>1, InStepIs
<1>3. toClient \in Seq(Item)
  BY DEF TypeOK
<1>4. Leads(Here, Append(toClient, item), Reading(q, item))
  BY <1>3, LeadsOn
<1>5. PICK r : r = Reading(q, item) /\ Phase(r)'
  OBVIOUS
<1>6. QED
  BY <1>1, <1>2, <1>4, <1>5, StepsTo

\* Where the thread reads a request, it is on its way: the client is not gone.
LEMMA RequestRead ==
  ASSUME TypeOK, InStep,
         thread.wants \in {"length", "bytes", "flags"} \/ (thread.wants = "op" /\ toServer # <<>>)
  PROVE  ~AtEnd /\ \E q : Leads(Here, toClient, q) /\ Asked(q)
<1>1. PICK q : Leads(Here, toClient, q) /\ Phase(q)
  BY InStepIs
<1>2. ~Served(q)
  BY DEF Served
<1>3. ~AtWork(q) /\ ~Answering(q)
  BY DEF AtWork, Answering
<1>4. Asked(q)
  BY <1>1, <1>2, <1>3 DEF Phase
<1>5. call # "gone"
  BY <1>4, CallsAre DEF Asked
<1>6. QED
  BY <1>1, <1>4, <1>5 DEF AtEnd

\* The operation, when there is one, is the first number of a request.
LEMMA OpHere ==
  ASSUME TypeOK, InStep, thread.wants = "op"
  PROVE  ~AtEnd
<1>1. CASE toServer # <<>>
  BY <1>1 DEF AtEnd
<1>2. CASE toServer = <<>>
  <2>1. PICK q : Phase(q)
    BY InStepIs
  <2>2. ~AtWork(q) /\ ~Answering(q)
    BY DEF AtWork, Answering
  <2>3. ~Asked(q)
    <3>1. \A f, n : <<Opening(call), Naming(n)[1], Naming(n)[2], Number("flags", f)>> # <<>>
      OBVIOUS
    <3>2. QED
      BY <1>2, <3>1 DEF Asked
  <2>4. Served(q)
    BY <2>1, <2>2, <2>3 DEF Phase
  <2>5. call # "gone"
    BY <2>4 DEF Served
  <2>6. QED
    BY <2>5 DEF AtEnd
<1>3. QED
  BY <1>1, <1>2

\* The parts of a request.
LEMMA RequestIs ==
  /\ \A n : Naming(n)[1] = Number("length", n) /\ Naming(n)[2] = Number("bytes", n)
  /\ \A a, b, c, d : /\ <<a, b, c, d>> # <<>> /\ Head(<<a, b, c, d>>) = a
                     /\ Tail(<<a, b, c, d>>) = <<b, c, d>>
  /\ \A a, b, c : /\ <<a, b, c>> # <<>> /\ Head(<<a, b, c>>) = a /\ Tail(<<a, b, c>>) = <<b, c>>
  /\ \A a, b : <<a, b>> # <<>> /\ Head(<<a, b>>) = a /\ Tail(<<a, b>>) = <<b>>
  /\ \A a : <<a>> # <<>> /\ Head(<<a>>) = a /\ Tail(<<a>>) = <<>>
<1>1. \A n : Naming(n)[1] = Number("length", n) /\ Naming(n)[2] = Number("bytes", n)
  BY DEF Naming
<1>2. \A a, b, c, d : /\ <<a, b, c, d>> # <<>> /\ Head(<<a, b, c, d>>) = a
                      /\ Tail(<<a, b, c, d>>) = <<b, c, d>>
  OBVIOUS
<1>3. \A a, b, c : /\ <<a, b, c>> # <<>> /\ Head(<<a, b, c>>) = a /\ Tail(<<a, b, c>>) = <<b, c>>
  OBVIOUS
<1>4. \A a, b : <<a, b>> # <<>> /\ Head(<<a, b>>) = a /\ Tail(<<a, b>>) = <<b>>
  OBVIOUS
<1>5. \A a : <<a>> # <<>> /\ Head(<<a>>) = a /\ Tail(<<a>>) = <<>>
  OBVIOUS
<1>6. QED
  BY <1>1, <1>2, <1>3, <1>4, <1>5

\* A thread that reads a number gets the one sent.
LEMMA NumberRead ==
  ASSUME ~AtEnd, NEW v \in Numbers, NEW as, NEW n, toServer # <<>> => Head(toServer) = Number(as, n)
  PROVE  toServer # <<>> /\ v = n
<1>1. toServer # <<>> /\ v = Head(toServer).val
  BY DEF Numbers
<1>2. Number(as, n).val = n
  BY DEF Number
<1>3. QED
  BY <1>1, <1>2

\* The operation is the first number of a request.
LEMMA OpKeeps == ASSUME TypeOK, InStep, ThreadOp PROVE InStep'
<1>1. PICK v \in Numbers : thread' = [thread EXCEPT !.wants = "length", !.op = v, !.null = FALSE]
  BY DEF ThreadOp
<1>2. ~AtEnd
  BY OpHere DEF ThreadOp, ThreadWants
<1>3. toServer # <<>>
  BY <1>2 DEF Numbers
<1>4. PICK q : Leads(Here, toClient, q) /\ Asked(q)
  BY <1>3, RequestRead DEF ThreadOp, ThreadWants
<1>5. PICK f \in Flags, n \in NameLengths :
        toServer = <<Opening(call), Naming(n)[1], Naming(n)[2], Number("flags", f)>>
  BY <1>4 DEF Asked, ThreadOp, ThreadWants
<1>6. v = Code[call]
  BY <1>2, <1>5, RequestIs, NumberRead DEF Opening
<1>7. toServer' = <<Naming(n)[1], Naming(n)[2], Number("flags", f)>>
  BY <1>3, <1>5, RequestIs DEF ThreadOp, Unread
<1>8. thread'.wants = "length" /\ thread'.op = Code[call] /\ ~thread'.null
  BY <1>1, <1>6, TypesAre DEF ServerTypes, Threads
<1>9. UNCHANGED <<clientVars, toClient, job, answers, stale, worker>>
  BY DEF ThreadOp
<1>10. Asked(q)'
  BY <1>4, <1>7, <1>8, <1>9 DEF Asked, Resting, clientVars
<1>11. QED
  BY <1>4, <1>9, <1>10, InStepIs, SamePlace DEF Phase

\* The length of the name comes after the operation.
LEMMA LengthReadKeeps == ASSUME TypeOK, InStep, ThreadLength PROVE InStep'
<1>1. PICK v \in Numbers :
        thread' = [thread EXCEPT !.wants = IF v = 0 THEN "flags" ELSE "bytes", !.length = v]
  BY DEF ThreadLength
<1>2. thread.wants = "length"
  BY DEF ThreadLength, ThreadWants
<1>3. ~AtEnd
  BY <1>2, RequestRead
<1>4. PICK q : Leads(Here, toClient, q) /\ Asked(q)
  BY <1>2, RequestRead
<1>5. PICK f \in Flags, n \in NameLengths : toServer = <<Naming(n)[1], Naming(n)[2], Number("flags", f)>>
  BY <1>2, <1>4 DEF Asked
<1>6. v = n /\ toServer # <<>>
  BY <1>3, <1>5, RequestIs, NumberRead
<1>7. toServer' = <<Naming(n)[2], Number("flags", f)>>
  BY <1>5, <1>6, RequestIs DEF ThreadLength, Unread
<1>8. /\ thread'.wants = "bytes" /\ thread'.length = n
      /\ thread'.op = thread.op /\ thread'.null = thread.null
  BY <1>1, <1>6, TypesAre, ProtocolAssumption DEF ServerTypes, Threads
<1>9. UNCHANGED <<clientVars, toClient, job, answers, stale, worker>>
  BY DEF ThreadLength
<1>10. Asked(q)'
  <2>1. thread.op = Code[call] /\ ~thread.null
    BY <1>2, <1>4 DEF Asked
  <2>2. ~thread'.null
    BY <1>8, <2>1
  <2>3. QED
    BY <1>4, <1>7, <1>8, <1>9, <2>1, <2>2 DEF Asked, Resting, clientVars
<1>11. QED
  BY <1>4, <1>9, <1>10, InStepIs, SamePlace DEF Phase

\* The name has the length that was announced.
LEMMA NameReadKeeps == ASSUME TypeOK, InStep, ThreadBytes PROVE InStep'
<1>1. thread.wants = "bytes" /\ thread' = [thread EXCEPT !.wants = "flags", !.null = AtEnd]
  BY DEF ThreadBytes, ThreadWants
<1>2. ~AtEnd
  BY <1>1, RequestRead
<1>3. PICK q : Leads(Here, toClient, q) /\ Asked(q)
  BY <1>1, RequestRead
<1>4. PICK f \in Flags, n \in NameLengths : toServer = <<Naming(n)[2], Number("flags", f)>>
  BY <1>1, <1>3 DEF Asked
<1>5. toServer' = <<Number("flags", f)>>
  BY <1>4, RequestIs DEF ThreadBytes, Unread
<1>6. thread'.wants = "flags" /\ thread'.op = thread.op /\ ~thread'.null
  BY <1>1, <1>2, TypesAre DEF ServerTypes, Threads
<1>7. UNCHANGED <<clientVars, toClient, job, answers, stale, worker>>
  BY DEF ThreadBytes
<1>8. Asked(q)'
  <2>1. thread.op = Code[call]
    BY <1>1, <1>3 DEF Asked
  <2>2. QED
    BY <1>3, <1>5, <1>6, <1>7, <2>1 DEF Asked, Resting, clientVars
<1>9. QED
  BY <1>3, <1>7, <1>8, InStepIs, SamePlace DEF Phase

\* With the flags the request is complete: a worker gets the job that the client waits for,
\* or the server ends.
LEMMA FlagsKeeps == ASSUME TypeOK, InStep, ThreadFlags, Running' PROVE InStep'
<1>1. thread.wants = "flags"
  BY DEF ThreadFlags, ThreadWants
<1>2. PICK q : Leads(Here, toClient, q) /\ Asked(q)
  BY <1>1, RequestRead
<1>3. thread.op = Code[call] /\ ~thread.null
  BY <1>1, <1>2 DEF Asked
<1>4. PICK v \in Numbers :
        /\ thread' = Reads("answer")
        /\ job' = [op |-> thread.op, flags |-> v, status |-> INITED, err |-> INITED]
        /\ worker' = [worker EXCEPT !.pc = "start"]
  BY <1>3 DEF ThreadFlags, Running
<1>5. PICK f \in Flags : toServer = <<Number("flags", f)>>
  BY <1>1, <1>2 DEF Asked
<1>6. toServer' = <<>>
  BY <1>5, RequestIs DEF ThreadFlags, Unread
<1>7. thread'.wants = "answer" /\ job'.op = Code[call] /\ worker'.pc = "start"
  BY <1>3, <1>4, TypesAre DEF ServerTypes, WorkerStates, Reads
<1>8. UNCHANGED <<clientVars, toClient, answers, stale>>
  BY DEF ThreadFlags
<1>9. AtWork(q)'
  BY <1>2, <1>6, <1>7, <1>8 DEF AtWork, Asked, Resting, clientVars
<1>10. QED
  BY <1>2, <1>8, <1>9, InStepIs, SamePlace DEF Phase

\* A thread that sends an answer.
LEMMA Answers ==
  ASSUME TypeOK, InStep, thread.wants \in {"status", "error"} \/ (thread.wants = "answer" /\ answers > 0)
  PROVE  call # "gone" /\ \E q : Leads(Here, toClient, q) /\ Answering(q)
<1>1. PICK q : Leads(Here, toClient, q) /\ Phase(q)
  BY InStepIs
<1>2. ~Served(q)
  BY DEF Served
<1>3. ~Asked(q)
  BY DEF Asked
<1>4. ~AtWork(q)
  BY DEF AtWork
<1>5. Answering(q)
  BY <1>1, <1>2, <1>3, <1>4 DEF Phase
<1>6. QED
  BY <1>1, <1>5, CallsAre DEF Answering

\* What a thread that goes on keeps.
LEMMA WantsNext ==
  ASSUME TypeOK, NEW next \in {"status", "error", "free", "ended", "op"}, ThreadGoesOn(next)
  PROVE  thread'.wants = next /\ UNCHANGED <<clientVars, toServer, worker>>
BY TypesAre DEF ServerTypes, Threads, ThreadGoesOn

\* The thread takes the one answer there is.
LEMMA AnswerKeeps == ASSUME TypeOK, InStep, ThreadAnswer PROVE InStep'
<1>1. thread.wants = "answer" /\ answers > 0 /\ answers' = answers - 1
  BY DEF ThreadAnswer, ThreadWants
<1>2. PICK q : Leads(Here, toClient, q) /\ Answering(q)
  BY <1>1, Answers
<1>3. answers' = 0 /\ q.script = <<"status", "error">>
  BY <1>1, <1>2 DEF Answering
<1>4. thread'.wants = "status" /\ UNCHANGED <<clientVars, toServer, worker, toClient, job, stale>>
  BY WantsNext DEF ThreadAnswer
<1>5. Answering(q)'
  BY <1>2, <1>3, <1>4 DEF Answering, Answered, clientVars
<1>6. QED
  BY <1>2, <1>4, <1>5, InStepIs, SamePlace DEF Phase

\* The status is the next number the client reads ...
LEMMA StatusSentKeeps == ASSUME TypeOK, InStep, ThreadStatus PROVE InStep'
<1> DEFINE item == Number("status", job.status)
<1>1. thread.wants = "status"
  BY DEF ThreadStatus, ThreadWants
<1>2. PICK q : Leads(Here, toClient, q) /\ Answering(q)
  BY <1>1, Answers
<1>3. call # "gone"
  BY <1>1, Answers
<1>4. q.script = <<"status", "error">> /\ answers = 0 /\ job.status \in {OK, NOT_OK}
  BY <1>1, <1>2 DEF Answering, Answered
<1>5. item \in Item /\ item.as = "status" /\ item.val = job.status
  BY <1>4, NumberTyped DEF OK, NOT_OK, Receives
<1>6. toClient' = Append(toClient, item)
  BY <1>3 DEF ThreadStatus, Reply
<1>7. thread'.wants = "error" /\ UNCHANGED <<clientVars, toServer, worker, job, answers, stale>>
  BY WantsNext DEF ThreadStatus
<1> HIDE DEF item
<1>8. ScriptAfter(q, item) = <<"error">> /\ <<"error">> # <<>>
  BY <1>4, <1>5, AnswerReads DEF ScriptAfter, Begins
<1>9. Fits(q, item)
  BY <1>4, <1>5, <1>8, AnswerReads DEF Fits, Begins, Receives
<1>10. PICK r : r = Reading(q, item)
  OBVIOUS
<1>11. r.script = <<"error">> /\ r.status = job.status
  BY <1>5, <1>8, <1>10 DEF Reading
<1>12. Answering(r)'
  BY <1>2, <1>4, <1>7, <1>11 DEF Answering, Answered, clientVars
<1>13. QED
  BY <1>2, <1>5, <1>6, <1>7, <1>9, <1>10, <1>12, InStepIs, OneStepOn DEF Phase

\* ... and the error number the last.
LEMMA ErrorSentKeeps == ASSUME TypeOK, InStep, ThreadError PROVE InStep'
<1> DEFINE item == Number("error", job.err)
<1>1. thread.wants = "error"
  BY DEF ThreadError, ThreadWants
<1>2. PICK q : Leads(Here, toClient, q) /\ Answering(q)
  BY <1>1, Answers
<1>3. call # "gone"
  BY <1>1, Answers
<1>4. q.script = <<"error">> /\ q.status = job.status /\ answers = 0 /\ call \in Calls
  BY <1>1, <1>2 DEF Answering
<1>5. item \in Item /\ item.as = "error" /\ item.val = job.err
  BY NumberTyped, TypesAre DEF Receives, ServerTypes, Jobs
<1>6. toClient' = Append(toClient, item)
  BY <1>3 DEF ThreadError, Reply
<1>7. thread'.wants = "free" /\ UNCHANGED <<clientVars, toServer, worker, job, answers, stale>>
  BY WantsNext DEF ThreadError
<1> HIDE DEF item
<1>8. ScriptAfter(q, item) = <<>>
  BY <1>4, <1>5, AnswerReads DEF ScriptAfter, Begins
<1>9. Fits(q, item)
  BY <1>4, <1>5, <1>8, AnswerReads DEF Fits, Begins, Receives
<1>10. PICK r : r = Reading(q, item)
  OBVIOUS
<1>11. r.script = <<>> /\ r.status = job.status /\ r.errno = job.err
  BY <1>4, <1>5, <1>8, <1>10 DEF Reading
<1>12. Served(r)'
  <2>1. call' = call /\ call # "none"
    BY <1>4, <1>7, CallsAre DEF clientVars
  <2>2. QED
    BY <1>2, <1>3, <1>4, <1>7, <1>11, <2>1 DEF Answering, Served, Resting, Answered
<1>13. QED
  BY <1>2, <1>5, <1>6, <1>7, <1>9, <1>10, <1>12, InStepIs, OneStepOn DEF Phase

\* Nobody has the job any more when it is freed.
LEMMA FreeKeeps == ASSUME TypeOK, InStep, ThreadFree PROVE InStep'
<1>1. thread.wants = "free"
  BY DEF ThreadFree, ThreadWants
<1>2. PICK q : Leads(Here, toClient, q) /\ Phase(q)
  BY InStepIs
<1>3. Served(q) \/ Asked(q)
  BY <1>1, <1>2 DEF Phase, AtWork, Answering
<1>4. Resting
  BY <1>3 DEF Served, Asked
<1>5. ~stale' /\ answers' = 0
  <2>1. ~stale
    BY InStepIs
  <2>2. ~(answers > 0)
    BY <1>4 DEF Resting
  <2>3. QED
    BY <2>1, <2>2 DEF ThreadFree
<1>6. /\ thread'.wants = IF job.op = Code["closeConnection"] THEN "ended" ELSE "op"
      /\ UNCHANGED <<clientVars, toServer, worker, toClient, job>>
  BY WantsNext DEF ThreadFree
<1>7. Phase(q)'
  <2>1. CASE Served(q)
    <3>1. Served(q)'
      BY <1>4, <1>5, <1>6, <2>1 DEF Served, Resting, Answered, clientVars
    <3>2. QED
      BY <3>1 DEF Phase
  <2>2. CASE Asked(q)
    <3>1. job.op # Code["closeConnection"]
      BY <1>1, <2>2 DEF Asked
    <3>2. PICK f \in Flags, n \in NameLengths : toServer = <<Opening(call), Naming(n)[1], Naming(n)[2], Number("flags", f)>>
      BY <1>1, <2>2 DEF Asked
    <3>3. Asked(q)'
      BY <1>4, <1>5, <1>6, <2>2, <3>1, <3>2 DEF Asked, Resting, clientVars
    <3>4. QED
      BY <3>3 DEF Phase
  <2>3. QED
    BY <1>3, <2>1, <2>2
<1>8. QED
  BY <1>2, <1>5, <1>6, <1>7, SamePlace

\* Every step of the client thread.
LEMMA ThreadKeeps == ASSUME TypeOK, InStep, ThreadStep, Running' PROVE InStep'
<1>1. ~ThreadAnswerFreed
  BY InStepIs DEF ThreadAnswerFreed
<1>2. QED
  BY <1>1, OpKeeps, LengthReadKeeps, NameReadKeeps, FlagsKeeps, AnswerKeeps, StatusSentKeeps,
     ErrorSentKeeps, FreeKeeps DEF ThreadStep

-----------------------------------------------------------------------------
(* The worker.                                                             *)

\* Where a worker is busy the client waits for what it sends.
LEMMA Busy ==
  ASSUME TypeOK, InStep, worker.pc # "idle"
  PROVE  /\ ~AtEnd /\ call \in Calls /\ call # "gone" /\ job.op = Code[call]
         /\ \E q : Leads(Here, toClient, q) /\ AtWork(q)
<1>1. PICK q : Leads(Here, toClient, q) /\ Phase(q)
  BY InStepIs
<1>2. ~Served(q)
  BY DEF Served, Resting
<1>3. ~Asked(q)
  BY DEF Asked, Resting
<1>4. ~Answering(q)
  BY DEF Answering
<1>5. AtWork(q)
  BY <1>1, <1>2, <1>3, <1>4 DEF Phase
<1>6. QED
  BY <1>1, <1>5, CallsAre DEF AtWork, AtEnd

\* The job that a worker has just taken is the call that runs.
LEMMA JustTaken ==
  ASSUME TypeOK, InStep, NEW f \in Calls, WorkerOn(f)
  PROVE  /\ call = f /\ call # "gone" /\ toServer = <<>>
         /\ \E q : Leads(Here, toClient, q) /\ AtWork(q) /\ q.script = Script[f] /\ q.files = 0
<1>1. worker.pc = "start" /\ job.op = Code[f]
  BY DEF WorkerOn, WorkerAt
<1>2. PICK q : Leads(Here, toClient, q) /\ AtWork(q)
  BY <1>1, Busy
<1>3. call = f /\ call # "gone"
  BY <1>1, Busy, CallsAre
<1>4. ~Writing(q) /\ ~Appending(q) /\ ~ReadingFile(q) /\ ~ReadingNFiles(q)
  BY <1>1 DEF Writing, Appending, ReadingFile, ReadingNFiles
<1>5. toServer = <<>> /\ q.script = Script[call] /\ q.files = 0
  BY <1>2, <1>4 DEF AtWork
<1>6. QED
  BY <1>2, <1>3, <1>5

\* A job that is answered, where the client waits for nothing but the answer.
LEMMA NowAnswering ==
  ASSUME TypeOK, NEW q, AtWork(q), NEW r, r.script = <<"status", "error">>,
         NEW status \in {OK, NOT_OK}, NEW err, status = OK => err = 0, Answer(status, err),
         toServer' = <<>>, UNCHANGED <<clientVars, thread>>
  PROVE  Answering(r)'
<1>1. job'.op = job.op /\ job'.status = status /\ job'.err = err /\ worker'.pc = "idle"
  BY TypesAre DEF ServerTypes, Jobs, Answer, At
<1>2. answers' = 1 /\ call' = call
  BY DEF AtWork, Answer, clientVars
<1>3. QED
  BY <1>1, <1>2 DEF AtWork, Answering, Answered

\* ... and nothing is sent but the answer.
LEMMA SilentAnswer ==
  ASSUME TypeOK, InStep, NEW q, Leads(Here, toClient, q), AtWork(q), q.script = <<"status", "error">>,
         NEW status \in {OK, NOT_OK}, NEW err, status = OK => err = 0, Answer(status, err),
         toServer = <<>>, SendsNothing, Elsewhere
  PROVE  InStep'
<1>1. UNCHANGED <<clientVars, toClient, toServer, thread, stale>>
  BY DEF SendsNothing, Elsewhere
<1>2. Answering(q)'
  BY <1>1, NowAnswering
<1>3. QED
  BY <1>1, <1>2, InStepIs, SamePlace DEF Phase

\* A number that the worker sends to a client that is there.
LEMMA OneSent ==
  ASSUME TypeOK, InStep, call # "gone", UNCHANGED <<clientVars, stale>>,
         NEW q, Leads(Here, toClient, q), NEW item \in Item, Sends(<<item>>),
         Fits(q, item), Phase(Reading(q, item))'
  PROVE  InStep'
<1>1. toClient' = toClient \o <<item>>
  BY DEF Sends
<1>2. toClient \in Seq(Item)
  BY DEF TypeOK
<1>3. toClient \o <<item>> = Append(toClient, item)
  BY <1>2
<1>4. ~stale'
  BY InStepIs
<1>5. QED
  BY <1>1, <1>3, <1>4, OneStepOn

\* What a function has read after CONTINUE or the number that stands for it.
LEMMA ContinueReads ==
  ASSUME NEW q, q.script # <<>>, Head(q.script) = "continue",
         NEW rest, Tail(q.script) = rest, rest # <<>>,
         NEW item, item = Number("continue", CONTINUE)
  PROVE  /\ item \in Item /\ Fits(q, item)
         /\ Reading(q, item).script = rest
         /\ Reading(q, item).size = q.size /\ Reading(q, item).files = q.files
<1>1. item \in Item /\ item.as = "continue" /\ item.val = CONTINUE
  BY NumberTyped, WorkerNumbers DEF Receives
<1>2. ScriptAfter(q, item) = rest
  BY <1>1 DEF ScriptAfter
<1>3. QED
  BY <1>1, <1>2 DEF Fits, Receives, Reading

\* ... and after any other number.
LEMMA RefusalReads ==
  ASSUME NEW q, q.script # <<>>, Head(q.script) = "continue", NEW v \in Nat, v # CONTINUE,
         NEW item, item = Number("continue", v)
  PROVE  item \in Item /\ Fits(q, item) /\ Reading(q, item).script = <<"status", "error">>
<1>1. item \in Item /\ item.as = "continue" /\ item.val = v
  BY NumberTyped DEF Receives
<1>2. ScriptAfter(q, item) = <<"status", "error">> /\ <<"status", "error">> # <<>>
  BY <1>1, AnswerReads DEF ScriptAfter, GetResp, Begins
<1>3. QED
  BY <1>1, <1>2 DEF Fits, Receives, Reading

\* A worker that refuses says so, and the function waits for the answer.
LEMMA RefusalKeeps ==
  ASSUME TypeOK, InStep, NEW q, Leads(Here, toClient, q), AtWork(q),
         q.script # <<>>, Head(q.script) = "continue",
         NEW v \in Nat, v # CONTINUE, Sends(<<Number("continue", v)>>),
         NEW err, Answer(NOT_OK, err), toServer' = <<>>, UNCHANGED <<clientVars, thread, stale>>
  PROVE  InStep'
<1>1. PICK item : item = Number("continue", v)
  OBVIOUS
<1>2. /\ item \in Item /\ Fits(q, item)
      /\ Reading(q, item).script = <<"status", "error">>
  BY <1>1, RefusalReads
<1>3. PICK r : r = Reading(q, item)
  OBVIOUS
<1>4. Answering(r)'
  BY <1>2, <1>3, NowAnswering DEF OK, NOT_OK
<1>5. call # "gone"
  BY CallsAre DEF AtWork
<1>6. QED
  BY <1>1, <1>2, <1>3, <1>4, <1>5, OneSent DEF Phase

\* A worker that goes on says so, and is there where the function then is.
LEMMA ConsentKeeps ==
  ASSUME TypeOK, InStep, NEW q, Leads(Here, toClient, q), call # "gone",
         NEW rest, Tail(q.script) = rest, rest # <<>>, q.script # <<>>, Head(q.script) = "continue",
         Sends(<<Number("continue", CONTINUE)>>), UNCHANGED <<clientVars, stale>>,
         \A r : r.script = rest /\ r.size = q.size /\ r.files = q.files => Phase(r)'
  PROVE  InStep'
<1>1. PICK item : item = Number("continue", CONTINUE)
  OBVIOUS
<1>2. /\ item \in Item /\ Fits(q, item) /\ Reading(q, item).script = rest
      /\ Reading(q, item).size = q.size /\ Reading(q, item).files = q.files
  BY <1>1, ContinueReads
<1>3. PICK r : r = Reading(q, item)
  OBVIOUS
<1>4. Phase(r)'
  BY <1>2, <1>3
<1>5. QED
  BY <1>1, <1>2, <1>3, <1>4, OneSent

\* What a worker that goes on keeps.
LEMMA NextPlace ==
  ASSUME TypeOK,
         NEW pc \in {"start", "again", "check", "announced", "size", "length", "bytes",
                     "write", "head", "sendn", "left"},
         WorkerGoesOn(pc)
  PROVE  /\ worker'.pc = pc /\ worker'.size = worker.size /\ worker'.length = worker.length
         /\ worker'.left = worker.left
         /\ UNCHANGED <<job, answers>>
BY TypesAre DEF ServerTypes, WorkerStates, WorkerGoesOn

\* The operations that only answer.
LEMMA PlainKeeps ==
  ASSUME TypeOK, InStep, strayed' = {},
         WorkerOpen \/ WorkerClose \/ WorkerRemove \/ WorkerCloseConnection
  PROVE  InStep'
<1>1. PICK f \in {"openFile", "closeFile", "removeFile", "closeConnection"} :
        WorkerOn(f) /\ \E status \in {OK, NOT_OK}, err \in Nat :
                          (status = OK => err = 0) /\ Answer(status, err) /\ SendsNothing /\ Elsewhere
  <2>1. CASE WorkerOpen
    <3>1. WorkerOn("openFile") /\ SendsNothing /\ Elsewhere
          /\ \/ Answer(OK, 0)
             \/ Answer(NOT_OK, IF job.flags = O_CREATE THEN Errno.EEXIST ELSE Errno.ENOENT)
      BY <2>1 DEF WorkerOpen
    <3>2. OK # NOT_OK /\ (IF job.flags = O_CREATE THEN Errno.EEXIST ELSE Errno.ENOENT) \in Nat /\ 0 \in Nat
      BY WorkerNumbers DEF OK, NOT_OK
    <3>3. QED
      BY <3>1, <3>2
  <2>2. CASE WorkerClose
    <3>1. WorkerOn("closeFile") /\ SendsNothing /\ Elsewhere /\ Answer(NOT_OK, Errno.ENOENT)
      BY <2>2 DEF WorkerClose, Strays
    <3>2. OK # NOT_OK /\ Errno.ENOENT \in Nat
      BY WorkerNumbers DEF OK, NOT_OK
    <3>3. QED
      BY <3>1, <3>2
  <2>3. CASE WorkerRemove
    <3>1. WorkerOn("removeFile") /\ SendsNothing /\ Elsewhere
          /\ (Answer(OK, 0) \/ Answer(NOT_OK, Errno.ENOENT))
      BY <2>3 DEF WorkerRemove
    <3>2. OK # NOT_OK /\ Errno.ENOENT \in Nat /\ 0 \in Nat
      BY WorkerNumbers DEF OK, NOT_OK
    <3>3. QED
      BY <3>1, <3>2
  <2>4. CASE WorkerCloseConnection
    <3>1. WorkerOn("closeConnection") /\ SendsNothing /\ Elsewhere /\ Answer(OK, 0)
      BY <2>4 DEF WorkerCloseConnection
    <3>2. QED
      BY <3>1
  <2>5. QED
    BY <2>1, <2>2, <2>3, <2>4
<1>2. PICK status \in {OK, NOT_OK}, err \in Nat :
        (status = OK => err = 0) /\ Answer(status, err) /\ SendsNothing /\ Elsewhere
  BY <1>1
<1>3. f \in Calls
  BY CallsAre
<1>4. toServer = <<>>
  BY <1>1, <1>3, JustTaken
<1>5. PICK q : Leads(Here, toClient, q) /\ AtWork(q) /\ q.script = Script[f]
  BY <1>1, <1>3, JustTaken
<1>6. q.script = <<"status", "error">>
  BY <1>5, ScriptIs
<1>7. QED
  BY <1>2, <1>4, <1>5, <1>6, SilentAnswer

\* READ_FILE finds the file, or not.
LEMMA FileFoundKeeps == ASSUME TypeOK, InStep, WorkerRead PROVE InStep'
<1>1. WorkerOn("readFile")
  <2>1. worker.pc # "again"
    <3>1. ASSUME worker.pc = "again" PROVE FALSE
      <4>1. PICK q : AtWork(q)
        BY <3>1, Busy
      <4>2. QED
        BY <3>1, <4>1 DEF AtWork, Writing, Appending, ReadingFile, ReadingNFiles
    <3>2. QED
      BY <3>1
  <2>2. QED
    BY <2>1 DEF WorkerRead, WorkerAt
<1>2. call = "readFile" /\ call # "gone" /\ toServer = <<>>
  BY <1>1, JustTaken, CallsAre
<1>3. PICK q : Leads(Here, toClient, q) /\ AtWork(q) /\ q.script = Script["readFile"] /\ q.files = 0
  BY <1>1, JustTaken, CallsAre
<1> DEFINE rest == <<"continue", "size", "length", "bytes", "status", "error">>
<1>4. q.script # <<>> /\ Head(q.script) = "continue" /\ Tail(q.script) = rest /\ rest # <<>>
  BY <1>3, ScriptIs, FileReads DEF Begins
<1>5. UNCHANGED <<clientVars, thread, stale, toServer>>
  BY DEF WorkerRead, Elsewhere
<1>6. CASE Sends(<<Number("continue", NO_CONTINUE)>>) /\ Answer(NOT_OK, Errno.ENOENT)
  <2>1. NO_CONTINUE \in Nat /\ NO_CONTINUE # CONTINUE /\ toServer' = <<>>
    BY <1>2, <1>5 DEF NO_CONTINUE, CONTINUE
  <2>2. QED
    BY <1>3, <1>4, <1>5, <1>6, <2>1, RefusalKeeps
<1>7. CASE Sends(<<Number("continue", CONTINUE)>>) /\ WorkerGoesOn("check")
  <2>1. worker'.pc = "check" /\ UNCHANGED <<job, answers>>
    BY <1>7, NextPlace
  <2>2. ASSUME NEW r, r.script = rest, r.files = q.files PROVE Phase(r)'
    <3>1. ReadingFile(r)'
      BY <1>2, <1>3, <1>5, <2>1, <2>2 DEF ReadingFile
    <3>2. AtWork(r)'
      BY <1>2, <1>3, <1>5, <2>1, <3>1 DEF AtWork, clientVars
    <3>3. QED
      BY <3>2 DEF Phase
  <2> HIDE DEF rest
  <2>3. QED
    BY <1>2, <1>3, <1>4, <1>5, <1>7, <2>2, ConsentKeeps
<1>8. QED
  BY <1>6, <1>7 DEF WorkerRead

-----------------------------------------------------------------------------
(* The worker sends a file, or takes one.                                  *)

\* What is sent leads the client on, where the worker takes it to be.
LEMMA FurtherOn ==
  ASSUME InStep, UNCHANGED <<clientVars, stale>>, NEW r, Leads(Here, toClient', r), Phase(r)'
  PROVE  InStep'
<1>1. Here' = Here /\ call' = call /\ script' = script
  BY DEF Here, clientVars
<1>2. ~stale' /\ (call \in Calls <=> script # <<>>)'
  BY <1>1, InStepIs
<1>3. QED
  BY <1>1, <1>2, StepsTo

\* A size leads on, and in readNFiles to the next file.
LEMMA SizeLeads ==
  ASSUME NEW p, NEW ch \in Seq(Item), NEW q, Leads(p, ch, q), NEW n \in Nat,
         q.script # <<>>, Head(q.script) = "size",
         NEW rest, rest # <<>>, ScriptAfter(q, Number("size", n)) = rest
  PROVE  /\ Leads(p, Append(ch, Number("size", n)), Reading(q, Number("size", n)))
         /\ Reading(q, Number("size", n)).script = rest
<1>1. PICK item : item = Number("size", n)
  OBVIOUS
<1>2. item \in Item /\ item.as = "size" /\ item.val = n
  BY <1>1, NumberTyped DEF Receives
<1>3. ScriptAfter(q, item) = rest
  BY <1>1
<1>4. Fits(q, item)
  BY <1>2, <1>3 DEF Fits, Receives
<1>5. PICK r : r = Reading(q, item)
  OBVIOUS
<1>6. r.script = rest
  BY <1>3, <1>5 DEF Reading
<1>7. Leads(p, Append(ch, item), r)
  BY <1>2, <1>4, <1>5, LeadsOn
<1>8. QED
  BY <1>1, <1>5, <1>6, <1>7

\* Where a function is when it has read a message: an empty one has no bytes.
ReadingMessage(q, n) ==
  LET r == Reading(q, Number("length", n))
  IN  IF n = 0 THEN r ELSE Reading(r, Number("bytes", n))

\* Such a message leads on to what follows it.
LEMMA MessageLeads ==
  ASSUME NEW p, NEW ch \in Seq(Item), NEW q, Leads(p, ch, q), NEW n \in Nat,
         q.script # <<>>, Head(q.script) = "length",
         Tail(q.script) # <<>>, Head(Tail(q.script)) = "bytes", Tail(Tail(q.script)) # <<>>
  PROVE  /\ ch \o Message(n) \in Seq(Item)
         /\ Leads(p, ch \o Message(n), ReadingMessage(q, n))
         /\ ReadingMessage(q, n).script = Tail(Tail(q.script))
         /\ ReadingMessage(q, n).files = q.files
<1> DEFINE s == Tail(q.script)
           rest == Tail(s)
<1>1. PICK a : a = Number("length", n)
  OBVIOUS
<1>2. a \in Item /\ a.as = "length" /\ a.val = n
  BY <1>1, NumberTyped DEF Receives
<1>3. ScriptAfter(q, a) = IF n = 0 THEN rest ELSE s
  BY <1>2 DEF ScriptAfter
<1>4. Fits(q, a)
  BY <1>2, <1>3 DEF Fits, Receives
<1>5. PICK q1 : q1 = Reading(q, a)
  OBVIOUS
<1>6. q1.script = (IF n = 0 THEN rest ELSE s) /\ q1.files = q.files /\ q1.length = n
  BY <1>2, <1>3, <1>5 DEF Reading
<1>7. Leads(p, Append(ch, a), q1) /\ Append(ch, a) \in Seq(Item)
  BY <1>2, <1>4, <1>5, LeadsOn
<1>8. CASE n = 0
  <2>1. Message(n) = <<a>>
    BY <1>1, <1>8, MessageIs
  <2>2. ch \o <<a>> = Append(ch, a)
    BY <1>2
  <2>3. q1 = ReadingMessage(q, n)
    BY <1>1, <1>5, <1>8 DEF ReadingMessage
  <2>4. QED
    BY <1>6, <1>7, <1>8, <2>1, <2>2, <2>3
<1>9. CASE n # 0
  <2>1. PICK b : b = Number("bytes", n)
    OBVIOUS
  <2>2. b \in Item /\ b.as = "bytes" /\ b.val = n
    BY <2>1, NumberTyped DEF Receives
  <2>3. ScriptAfter(q1, b) = rest
    BY <1>6, <1>9, <2>2 DEF ScriptAfter
  <2>4. Fits(q1, b)
    BY <1>6, <1>9, <2>2, <2>3 DEF Fits, Receives
  <2>5. PICK r : r = Reading(q1, b)
    OBVIOUS
  <2>6. r.script = rest /\ r.files = q.files
    BY <1>6, <2>2, <2>3, <2>5 DEF Reading
  <2>7. Leads(p, Append(Append(ch, a), b), r) /\ Append(Append(ch, a), b) \in Seq(Item)
    <3>1. PICK d : d = Append(ch, a)
      OBVIOUS
    <3>2. d \in Seq(Item) /\ Leads(p, d, q1)
      BY <1>7, <3>1
    <3>3. Leads(p, Append(d, b), r)
      BY <2>2, <2>4, <2>5, <3>2, LeadsOn
    <3>4. Append(d, b) \in Seq(Item)
      BY <2>2, <3>2
    <3>5. QED
      BY <3>1, <3>3, <3>4
  <2>8. Message(n) = <<a, b>>
    BY <1>1, <1>9, <2>1, MessageIs
  <2>9. ch \o <<a, b>> = Append(Append(ch, a), b)
    BY <1>2, <2>2
  <2>10. r = ReadingMessage(q, n)
    BY <1>1, <1>5, <1>9, <2>1, <2>5 DEF ReadingMessage
  <2>11. QED
    BY <2>6, <2>7, <2>8, <2>9, <2>10
<1>10. QED
  BY <1>8, <1>9

\* A worker that reads a file out has the call and the phase of readFile.
LEMMA ReadingHere ==
  ASSUME TypeOK, InStep, worker.pc \in {"check", "announced"}
  PROVE  /\ call = "readFile" /\ call # "gone" /\ toServer = <<>>
         /\ \E q : Leads(Here, toClient, q) /\ AtWork(q) /\ ReadingFile(q)
<1>1. PICK q : Leads(Here, toClient, q) /\ AtWork(q)
  BY Busy
<1>2. ~Writing(q) /\ ~Appending(q) /\ ~ReadingNFiles(q)
  BY DEF Writing, Appending, ReadingNFiles
<1>3. call = "readFile" /\ ReadingFile(q)
  BY <1>1, <1>2 DEF AtWork
<1>4. toServer = <<>>
  BY <1>3 DEF ReadingFile
<1>5. QED
  BY <1>1, <1>3, <1>4

\* The size is announced with CONTINUE: two numbers for the client.
LEMMA CheckKeeps == ASSUME TypeOK, InStep, WorkerCheck PROVE InStep'
<1>1. worker.pc = "check"
  BY DEF WorkerCheck, WorkerAt
<1>2. call = "readFile" /\ call # "gone" /\ toServer = <<>>
  BY <1>1, ReadingHere
<1>3. PICK q : Leads(Here, toClient, q) /\ AtWork(q) /\ ReadingFile(q)
  BY <1>1, ReadingHere
<1> DEFINE s1 == <<"size", "length", "bytes", "status", "error">>
           s2 == <<"length", "bytes", "status", "error">>
<1>4. q.script = <<"continue", "size", "length", "bytes", "status", "error">> /\ q.files = 0
  BY <1>1, <1>3 DEF ReadingFile
<1>5. q.script # <<>> /\ Head(q.script) = "continue" /\ Tail(q.script) = s1
  BY <1>4, FileReads DEF Begins
<1>6. s1 # <<>> /\ Head(s1) = "size" /\ Tail(s1) = s2 /\ s2 # <<>>
  BY FileReads DEF Begins
<1>7. UNCHANGED <<clientVars, thread, stale, toServer>>
  BY DEF WorkerCheck, Elsewhere
<1>8. CASE Sends(<<Number("continue", NO_CONTINUE)>>) /\ Answer(NOT_OK, Errno.EACCES)
  <2>1. NO_CONTINUE \in Nat /\ NO_CONTINUE # CONTINUE /\ toServer' = <<>>
    BY <1>2, <1>7 DEF NO_CONTINUE, CONTINUE
  <2>2. QED
    BY <1>3, <1>5, <1>7, <1>8, <2>1, RefusalKeeps
<1>9. ASSUME NEW n \in Sizes, Sends(<<Number("continue", CONTINUE), Number("size", n)>>),
             WorkerGoesOn("announced")
      PROVE  InStep'
  <2>1. worker'.pc = "announced" /\ UNCHANGED <<job, answers>>
    BY <1>9, NextPlace
  <2>2. ASSUME NEW r, r.script = s2 PROVE Phase(r)'
    <3>1. ReadingFile(r)'
      BY <1>2, <1>7, <2>1, <2>2 DEF ReadingFile
    <3>2. AtWork(r)'
      BY <1>2, <1>3, <1>7, <2>1, <3>1 DEF AtWork, clientVars
    <3>3. QED
      BY <3>2 DEF Phase
  <2>3. PICK a, b : a = Number("continue", CONTINUE) /\ b = Number("size", n)
    OBVIOUS
  <2>4. n \in Nat
    BY ProtocolAssumption
  <2> HIDE DEF s1, s2
  <2>5. /\ a \in Item /\ Fits(q, a)
        /\ Reading(q, a).script = s1 /\ Reading(q, a).files = 0
    <3>1. /\ a \in Item /\ Fits(q, a)
          /\ Reading(q, a).script = s1 /\ Reading(q, a).files = q.files
      BY <1>5, <1>6, <2>3, ContinueReads
    <3>2. QED
      BY <1>4, <3>1
  <2>6. PICK q1 : q1 = Reading(q, a)
    OBVIOUS
  <2>7. toClient \in Seq(Item)
    BY DEF TypeOK
  <2>8. Leads(Here, Append(toClient, a), q1) /\ Append(toClient, a) \in Seq(Item)
    BY <1>3, <2>5, <2>6, <2>7, LeadsOn
  <2>9. PICK r : Leads(Here, Append(Append(toClient, a), b), r) /\ r.script = s2
    <3>1. q1.script # <<>> /\ Head(q1.script) = "size" /\ Tail(q1.script) = s2
      BY <1>6, <2>5, <2>6
    <3>2. ScriptAfter(q1, Number("size", n)) = s2
      BY <2>5, <2>6, <3>1, NumberTyped DEF ScriptAfter, Number
    <3>3. PICK d : d = Append(toClient, a)
      OBVIOUS
    <3>4. d \in Seq(Item) /\ Leads(Here, d, q1)
      BY <2>8, <3>3
    <3>5. /\ Leads(Here, Append(d, Number("size", n)), Reading(q1, Number("size", n)))
          /\ Reading(q1, Number("size", n)).script = s2
      BY <1>6, <2>4, <3>1, <3>2, <3>4, SizeLeads
    <3>6. QED
      BY <2>3, <3>3, <3>5
  <2>10. toClient' = Append(Append(toClient, a), b)
    <3>1. b \in Item
      BY <2>3, <2>4, NumberTyped DEF Receives
    <3>2. toClient \o <<a, b>> = Append(Append(toClient, a), b)
      BY <2>5, <2>7, <3>1
    <3>3. QED
      BY <1>2, <1>9, <2>3, <3>2 DEF Sends
  <2>11. QED
    BY <1>7, <2>2, <2>9, <2>10, FurtherOn
<1>10. QED
  BY <1>8, <1>9 DEF WorkerCheck

\* The file is sent, whatever its length is by then, and the job answered.
LEMMA SendFileKeeps == ASSUME TypeOK, InStep, WorkerSendFile PROVE InStep'
<1>1. worker.pc = "announced"
  BY DEF WorkerSendFile, WorkerAt
<1>2. call # "gone" /\ toServer = <<>>
  BY <1>1, ReadingHere
<1>3. PICK q : Leads(Here, toClient, q) /\ AtWork(q) /\ ReadingFile(q)
  BY <1>1, ReadingHere
<1> DEFINE s1 == <<"bytes", "status", "error">>
           s2 == <<"status", "error">>
<1>4. q.script = <<"length", "bytes", "status", "error">>
  BY <1>1, <1>3 DEF ReadingFile
<1>5. q.script # <<>> /\ Head(q.script) = "length" /\ Tail(q.script) = s1
  BY <1>4, FileReads DEF Begins
<1>6. s1 # <<>> /\ Head(s1) = "bytes" /\ Tail(s1) = s2 /\ s2 # <<>>
  BY FileReads, AnswerReads DEF Begins
<1>7. UNCHANGED <<clientVars, thread, stale, toServer>> /\ Answer(OK, 0)
  BY DEF WorkerSendFile, Elsewhere
<1>8. PICK n \in Nat : toClient' = toClient \o Message(n)
  BY <1>2, ProtocolAssumption DEF WorkerSendFile, Sends
<1>9. toClient \in Seq(Item)
  BY DEF TypeOK
<1>10. PICK r : Leads(Here, toClient \o Message(n), r) /\ r.script = s2
  <2> HIDE DEF s1, s2
  <2>1. Leads(Here, toClient, q)
    BY <1>3
  <2>2. QED
    <3>1. q.script # <<>> /\ Head(q.script) = "length"
      BY <1>5
    <3>2. Tail(q.script) # <<>> /\ Head(Tail(q.script)) = "bytes" /\ Tail(Tail(q.script)) # <<>>
      BY <1>5, <1>6
    <3>3. n \in Nat
      BY <1>8
    <3>4. /\ Leads(Here, toClient \o Message(n), ReadingMessage(q, n))
          /\ ReadingMessage(q, n).script = Tail(Tail(q.script))
      BY <1>9, <2>1, <3>1, <3>2, <3>3, MessageLeads
    <3>5. QED
      BY <1>5, <1>6, <3>4
<1>11. Answering(r)'
  <2>1. toServer' = <<>>
    BY <1>2, <1>7
  <2>2. QED
    BY <1>3, <1>7, <1>10, <2>1, NowAnswering
<1>12. QED
  BY <1>7, <1>8, <1>10, <1>11, FurtherOn DEF Phase

\* WRITE_FILE and APPEND_FILE find the file, or not.
LEMMA WriteKeeps == ASSUME TypeOK, InStep, WorkerWrite PROVE InStep'
<1>1. PICK f \in {"writeFile", "appendToFile"} : WorkerOn(f)
  BY DEF WorkerWrite
<1>2. f \in Calls
  BY CallsAre
<1>3. call = f /\ call # "gone" /\ toServer = <<>>
  BY <1>1, <1>2, JustTaken
<1>4. PICK q : Leads(Here, toClient, q) /\ AtWork(q) /\ q.script = Script[f]
  BY <1>1, <1>2, JustTaken
<1>5. PICK rest : /\ rest # <<>>
                  /\ q.script # <<>> /\ Head(q.script) = "continue" /\ Tail(q.script) = rest
                  /\ \/ /\ f = "writeFile"
                        /\ rest = <<"sendSize", "continue", "sendFile", "continue", "status", "error">>
                     \/ f = "appendToFile" /\ rest = <<"sendBoth", "status", "error">>
  <2>1. CASE f = "writeFile"
    BY <1>4, <2>1, ScriptIs, WriteDoes DEF Begins
  <2>2. CASE f = "appendToFile"
    BY <1>4, <2>2, ScriptIs, AppendDoes DEF Begins
  <2>3. QED
    BY <2>1, <2>2
<1>6. UNCHANGED <<clientVars, thread, stale, toServer>>
  BY DEF WorkerWrite, Elsewhere
<1>7. CASE Sends(<<Number("continue", NOT_OK)>>) /\ Answer(NOT_OK, Errno.ENONET)
  <2>1. NOT_OK \in Nat /\ NOT_OK # CONTINUE /\ toServer' = <<>>
    BY <1>3, <1>6 DEF NOT_OK, CONTINUE
  <2>2. QED
    BY <1>4, <1>5, <1>6, <1>7, <2>1, RefusalKeeps
<1>8. CASE Sends(<<Number("continue", CONTINUE)>>) /\ WorkerGoesOn("size")
  <2>1. worker'.pc = "size" /\ UNCHANGED <<job, answers>>
    BY <1>8, NextPlace
  <2>2. ASSUME NEW r, r.script = rest PROVE Phase(r)'
    <3>1. (f = "writeFile" /\ Writing(r)') \/ (f = "appendToFile" /\ Appending(r)')
      BY <1>3, <1>5, <1>6, <2>1, <2>2 DEF Writing, Appending
    <3>2. AtWork(r)'
      BY <1>3, <1>4, <1>6, <2>1, <3>1 DEF AtWork, clientVars
    <3>3. QED
      BY <3>2 DEF Phase
  <2>3. QED
    BY <1>3, <1>4, <1>5, <1>6, <1>8, <2>2, ConsentKeeps
<1>9. QED
  BY <1>7, <1>8 DEF WorkerWrite

\* A worker that takes a file has the call and the phase of writing or appending.
LEMMA TakingHere ==
  ASSUME TypeOK, InStep, worker.pc \in {"size", "length", "bytes", "write"}
  PROVE  /\ call # "gone" /\ ~AtEnd
         /\ \E q : /\ Leads(Here, toClient, q) /\ AtWork(q)
                   /\ \/ call = "writeFile" /\ job.op = Code["writeFile"] /\ Writing(q)
                      \/ call = "appendToFile" /\ job.op = Code["appendToFile"] /\ Appending(q)
<1>1. PICK q : Leads(Here, toClient, q) /\ AtWork(q)
  BY Busy
<1>2. ~ReadingFile(q) /\ ~ReadingNFiles(q)
  BY DEF ReadingFile, ReadingNFiles
<1>3. \/ call = "writeFile" /\ job.op = Code["writeFile"] /\ Writing(q)
      \/ call = "appendToFile" /\ job.op = Code["appendToFile"] /\ Appending(q)
  BY <1>1, <1>2 DEF AtWork
<1>4. QED
  BY <1>1, <1>3, Busy

\* The two operations that take a file are told apart.
LEMMA WriteOrAppend == Code["writeFile"] # Code["appendToFile"]
BY CallsAre

\* The worker takes the size the client has sent, and refuses or goes on.
LEMMA SizeTakenKeeps == ASSUME TypeOK, InStep, WorkerSize, strayed' = {} PROVE InStep'
<1>1. worker.pc = "size"
  BY DEF WorkerSize, WorkerAt
<1>2. call # "gone" /\ ~AtEnd
  BY <1>1, TakingHere
<1>3. PICK q : /\ Leads(Here, toClient, q) /\ AtWork(q)
               /\ \/ call = "writeFile" /\ job.op = Code["writeFile"] /\ Writing(q)
                  \/ call = "appendToFile" /\ job.op = Code["appendToFile"] /\ Appending(q)
  BY <1>1, TakingHere
<1>4. PICK n \in Numbers :
        \/ /\ n > MaxMemory
           /\ Sends(<<Number("continue", NO_CONTINUE)>>)
           /\ Answer(NOT_OK, Errno.E2BIG)
           /\ job.op # Code["appendToFile"]
        \/ /\ n <= MaxMemory
           /\ IF job.op = Code["writeFile"] THEN Sends(<<Number("continue", CONTINUE)>>) ELSE SendsNothing
           /\ worker' = [worker EXCEPT !.pc = "length", !.size = n]
           /\ UNCHANGED <<job, answers>>
  <2>1. ~Strays("APPEND_FILE refused")
    BY DEF Strays
  <2>2. QED
    BY <2>1 DEF WorkerSize
<1>5. UNCHANGED <<clientVars, thread, stale>> /\ toServer' = Unread
  BY DEF WorkerSize
<1>6. toServer # <<>>
  BY <1>2 DEF Numbers
<1>7. CASE call = "writeFile"
  <2>1. job.op = Code["writeFile"] /\ Writing(q)
    BY <1>3, <1>7
  <2> DEFINE rest == <<"sendFile", "continue", "status", "error">>
  <2>2. /\ q.script = <<"continue", "sendFile", "continue", "status", "error">>
        /\ toServer = <<Number("size", q.size)>>
    BY <1>1, <1>6, <2>1 DEF Writing
  <2>3. q.script # <<>> /\ Head(q.script) = "continue" /\ Tail(q.script) = rest /\ rest # <<>>
    BY <2>2, WriteDoes DEF Begins
  <2>4. n = q.size
    BY <1>2, <2>2, RequestIs, NumberRead
  <2>5. toServer' = <<>>
    BY <1>5, <2>2, RequestIs DEF Unread
  <2>6. CASE Sends(<<Number("continue", NO_CONTINUE)>>) /\ Answer(NOT_OK, Errno.E2BIG)
    <3>1. NO_CONTINUE \in Nat /\ NO_CONTINUE # CONTINUE
      BY DEF NO_CONTINUE, CONTINUE
    <3>2. QED
      BY <1>3, <1>5, <2>3, <2>5, <2>6, <3>1, RefusalKeeps
  <2>7. CASE /\ Sends(<<Number("continue", CONTINUE)>>)
             /\ worker' = [worker EXCEPT !.pc = "length", !.size = n]
             /\ UNCHANGED <<job, answers>>
    <3>1. worker'.pc = "length" /\ worker'.size = q.size
      BY <2>4, <2>7, TypesAre DEF ServerTypes, WorkerStates
    <3>2. ASSUME NEW r, r.script = rest, r.size = q.size PROVE Phase(r)'
      <4>1. Writing(r)'
        BY <2>5, <3>1, <3>2 DEF Writing
      <4>2. AtWork(r)'
        BY <1>3, <1>5, <1>7, <2>5, <2>7, <4>1 DEF AtWork, clientVars
      <4>3. QED
        BY <4>2 DEF Phase
    <3> HIDE DEF rest
    <3>3. QED
      BY <1>2, <1>3, <1>5, <2>3, <2>7, <3>2, ConsentKeeps
  <2>8. QED
    BY <1>4, <2>1, <2>6, <2>7
<1>8. CASE call = "appendToFile"
  <2>1. job.op = Code["appendToFile"] /\ Appending(q)
    BY <1>3, <1>8
  <2>2. PICK m \in Sizes : q.script = <<"status", "error">> /\ toServer = <<Number("size", m)>> \o Message(m)
    BY <1>1, <1>6, <2>1 DEF Appending
  <2>3. m \in Nat
    BY ProtocolAssumption
  <2>4. Head(toServer) = Number("size", m) /\ Tail(toServer) = Message(m)
    <3>1. CASE m = 0
      <4>1. toServer = <<Number("size", m), Number("length", 0)>>
        BY <2>2, <2>3, <3>1, MessageIs, OneOne
      <4>2. QED
        BY <2>3, <3>1, <4>1, RequestIs, MessageIs
    <3>2. CASE m # 0
      <4>1. toServer = <<Number("size", m), Number("length", m), Number("bytes", m)>>
        BY <2>2, <2>3, <3>2, MessageIs, OneTwo
      <4>2. QED
        BY <2>3, <3>2, <4>1, RequestIs, MessageIs
    <3>3. QED
      BY <3>1, <3>2
  <2>5. n = m
    BY <1>2, <2>4, NumberRead
  <2>6. /\ worker' = [worker EXCEPT !.pc = "length", !.size = n]
        /\ UNCHANGED <<job, answers, toClient>>
    BY <1>4, <2>1, WriteOrAppend DEF SendsNothing
  <2>7. worker'.pc = "length" /\ worker'.size = m
    BY <2>5, <2>6, TypesAre DEF ServerTypes, WorkerStates
  <2>8. toServer' = Message(m)
    BY <1>5, <1>6, <2>4 DEF Unread
  <2>9. Message(worker.size)' = Message(m)
    BY <2>7 DEF Message
  <2>10. Appending(q)'
    BY <2>2, <2>7, <2>8, <2>9 DEF Appending
  <2>11. AtWork(q)'
    BY <1>3, <1>5, <1>8, <2>6, <2>10 DEF AtWork, clientVars
  <2>12. QED
    BY <1>3, <1>5, <2>6, <2>11, InStepIs, SamePlace DEF Phase
<1>9. QED
  BY <1>3, <1>7, <1>8

\* A worker that takes the data sends nothing meanwhile.
LEMMA StillTaking ==
  ASSUME TypeOK, InStep, NEW q, Leads(Here, toClient, q), AtWork(q),
         UNCHANGED <<clientVars, toClient, thread, job, answers, stale>>,
         (call = "writeFile" /\ Writing(q)') \/ (call = "appendToFile" /\ Appending(q)')
  PROVE  InStep'
<1>1. AtWork(q)'
  BY DEF AtWork, clientVars
<1>2. QED
  BY <1>1, InStepIs, SamePlace DEF Phase

\* The length of the data is the size that was announced.
LEMMA LengthTakenKeeps == ASSUME TypeOK, InStep, WorkerLength PROVE InStep'
<1>1. worker.pc = "length"
  BY DEF WorkerLength, WorkerAt
<1>2. ~AtEnd
  BY <1>1, TakingHere
<1>3. PICK q : /\ Leads(Here, toClient, q) /\ AtWork(q)
               /\ \/ call = "writeFile" /\ job.op = Code["writeFile"] /\ Writing(q)
                  \/ call = "appendToFile" /\ job.op = Code["appendToFile"] /\ Appending(q)
  BY <1>1, TakingHere
<1>4. PICK n \in Numbers :
        worker' = [worker EXCEPT !.pc = IF n = 0 THEN "write" ELSE "bytes", !.length = n]
  BY DEF WorkerLength
<1>5. toServer # <<>>
  BY <1>2, <1>4 DEF Numbers
<1>6. /\ toServer = Message(worker.size)
      /\ \/ call = "writeFile" /\ q.script = <<"continue", "status", "error">>
         \/ call = "appendToFile" /\ q.script = <<"status", "error">>
  <2>1. Writing(q) => toServer = Message(worker.size) /\ q.script = <<"continue", "status", "error">>
    BY <1>1, <1>5 DEF Writing
  <2>2. Appending(q) => toServer = Message(worker.size) /\ q.script = <<"status", "error">>
    BY <1>1 DEF Appending
  <2>3. QED
    BY <1>3, <2>1, <2>2
<1>7. worker.size \in Nat
  BY TypesAre DEF ServerTypes, WorkerStates
<1>8. /\ Head(toServer) = Number("length", worker.size)
      /\ Tail(toServer) = IF worker.size = 0 THEN <<>> ELSE <<Number("bytes", worker.size)>>
  <2>1. CASE worker.size = 0
    BY <1>6, <1>7, <2>1, MessageIs, RequestIs
  <2>2. CASE worker.size # 0
    <3>1. toServer = <<Number("length", worker.size), Number("bytes", worker.size)>>
      BY <1>6, <1>7, <2>2, MessageIs
    <3>2. QED
      BY <2>2, <3>1, RequestIs
  <2>3. QED
    BY <2>1, <2>2
<1>9. n = worker.size
  BY <1>2, <1>8, NumberRead
<1>10. /\ worker'.pc = (IF worker.size = 0 THEN "write" ELSE "bytes")
       /\ worker'.length = worker.size /\ worker'.size = worker.size
  BY <1>4, <1>9, TypesAre DEF ServerTypes, WorkerStates
<1>11. toServer' = IF worker.size = 0 THEN <<>> ELSE <<Number("bytes", worker'.size)>>
  BY <1>5, <1>8, <1>10 DEF WorkerLength, Unread
<1>12. q.script = <<"continue", "status", "error">> => Writing(q)'
  BY <1>10, <1>11 DEF Writing
<1>13. q.script = <<"status", "error">> => Appending(q)'
  BY <1>10, <1>11 DEF Appending
<1>14. UNCHANGED <<clientVars, toClient, thread, job, answers, stale>>
  BY DEF WorkerLength
<1>15. (call = "writeFile" /\ Writing(q)') \/ (call = "appendToFile" /\ Appending(q)')
  BY <1>6, <1>12, <1>13
<1>16. QED
  BY <1>3, <1>14, <1>15, StillTaking

\* The data has that length.
LEMMA BytesTakenKeeps == ASSUME TypeOK, InStep, WorkerBytes PROVE InStep'
<1>1. worker.pc = "bytes"
  BY DEF WorkerBytes, WorkerAt
<1>2. ~AtEnd
  BY <1>1, TakingHere
<1>3. PICK q : /\ Leads(Here, toClient, q) /\ AtWork(q)
               /\ \/ call = "writeFile" /\ job.op = Code["writeFile"] /\ Writing(q)
                  \/ call = "appendToFile" /\ job.op = Code["appendToFile"] /\ Appending(q)
  BY <1>1, TakingHere
<1>4. WorkerGoesOn("write")
  BY <1>2 DEF WorkerBytes
<1>5. /\ toServer = <<Number("bytes", worker.size)>> /\ worker.length = worker.size
      /\ \/ call = "writeFile" /\ q.script = <<"continue", "status", "error">>
         \/ call = "appendToFile" /\ q.script = <<"status", "error">>
  <2>1. Writing(q) => /\ toServer = <<Number("bytes", worker.size)>> /\ worker.length = worker.size
                      /\ q.script = <<"continue", "status", "error">>
    BY <1>1 DEF Writing
  <2>2. Appending(q) => /\ toServer = <<Number("bytes", worker.size)>> /\ worker.length = worker.size
                        /\ q.script = <<"status", "error">>
    BY <1>1 DEF Appending
  <2>3. QED
    BY <1>3, <2>1, <2>2
<1>6. toServer' = <<>>
  BY <1>5, RequestIs DEF WorkerBytes, Unread
<1>7. /\ worker'.pc = "write" /\ worker'.size = worker.size /\ worker'.length = worker.length
      /\ UNCHANGED <<job, answers>>
  BY <1>4, NextPlace
<1>8. q.script = <<"continue", "status", "error">> => Writing(q)'
  BY <1>5, <1>6, <1>7 DEF Writing
<1>9. q.script = <<"status", "error">> => Appending(q)'
  BY <1>5, <1>6, <1>7 DEF Appending
<1>10. (call = "writeFile" /\ Writing(q)') \/ (call = "appendToFile" /\ Appending(q)')
  BY <1>5, <1>8, <1>9
<1>11. UNCHANGED <<clientVars, toClient, thread, job, answers, stale>>
  BY <1>7 DEF WorkerBytes, SendsNothing
<1>12. QED
  BY <1>3, <1>10, <1>11, StillTaking

\* The data is stored, and the job answered.
LEMMA StoredKeeps == ASSUME TypeOK, InStep, WorkerWrites PROVE InStep'
<1>1. worker.pc = "write"
  BY DEF WorkerWrites, WorkerAt
<1>2. call # "gone"
  BY <1>1, TakingHere
<1>3. PICK q : /\ Leads(Here, toClient, q) /\ AtWork(q)
               /\ \/ call = "writeFile" /\ job.op = Code["writeFile"] /\ Writing(q)
                  \/ call = "appendToFile" /\ job.op = Code["appendToFile"] /\ Appending(q)
  BY <1>1, TakingHere
<1>4. Elsewhere /\ UNCHANGED <<clientVars, toServer, thread, stale>>
  BY DEF WorkerWrites, Elsewhere
<1>5. /\ toServer = <<>>
      /\ \/ job.op = Code["writeFile"] /\ q.script = <<"continue", "status", "error">>
         \/ job.op = Code["appendToFile"] /\ q.script = <<"status", "error">>
  <2>1. Writing(q) => toServer = <<>> /\ q.script = <<"continue", "status", "error">>
    BY <1>1 DEF Writing
  <2>2. Appending(q) => toServer = <<>> /\ q.script = <<"status", "error">>
    BY <1>1 DEF Appending
  <2>3. QED
    BY <1>3, <2>1, <2>2
<1>6. toServer' = <<>>
  BY <1>4, <1>5
<1>7. CASE job.op = Code["appendToFile"] /\ SendsNothing /\ Answer(OK, 0)
  <2>1. q.script = <<"status", "error">>
    BY <1>5, <1>7, WriteOrAppend
  <2>2. OK \in {OK, NOT_OK}
    OBVIOUS
  <2>3. QED
    BY <1>3, <1>4, <1>5, <1>7, <2>1, <2>2, SilentAnswer
<1>8. ASSUME job.op = Code["writeFile"]
      PROVE  /\ q.script # <<>> /\ Head(q.script) = "continue" /\ Tail(q.script) = <<"status", "error">>
             /\ Tail(q.script) # <<>>
  <2>1. q.script = <<"continue", "status", "error">>
    BY <1>5, <1>8, WriteOrAppend
  <2>2. QED
    BY <2>1, WriteDoes, AnswerReads DEF Begins
<1>9. CASE /\ job.op = Code["writeFile"]
           /\ Sends(<<Number("continue", NOT_OK)>>) /\ Answer(NOT_OK, Errno.ENOENT)
  <2>1. NOT_OK \in Nat /\ NOT_OK # CONTINUE
    BY DEF NOT_OK, CONTINUE
  <2>2. QED
    BY <1>3, <1>4, <1>6, <1>8, <1>9, <2>1, RefusalKeeps
<1>10. CASE /\ job.op = Code["writeFile"]
            /\ Reply("continue", CONTINUE) /\ Answer(OK, 0)
  <2>1. PICK item : item = Number("continue", CONTINUE)
    OBVIOUS
  <2>2. PICK rest : rest = <<"status", "error">> /\ Tail(q.script) = rest /\ rest # <<>>
    BY <1>8, <1>10
  <2>3. item \in Item /\ Fits(q, item) /\ Reading(q, item).script = rest
    <3>1. q.script # <<>> /\ Head(q.script) = "continue"
      BY <1>8, <1>10
    <3>2. Tail(q.script) = rest /\ rest # <<>>
      BY <2>2
    <3>3. QED
      BY <2>1, <3>1, <3>2, ContinueReads
  <2>4. toClient' = Append(toClient, item)
    BY <1>2, <1>10, <2>1 DEF Reply
  <2>5. PICK r : r = Reading(q, item)
    OBVIOUS
  <2>6. OK \in {OK, NOT_OK} /\ r.script = <<"status", "error">>
    BY <2>2, <2>3, <2>5
  <2>7. Answering(r)'
    BY <1>3, <1>4, <1>6, <1>10, <2>6, NowAnswering
  <2>8. QED
    BY <1>3, <1>4, <2>3, <2>4, <2>5, <2>7, InStepIs, OneStepOn DEF Phase
<1>11. QED
  BY <1>7, <1>9, <1>10 DEF WorkerWrites

\* READN_FILE says how many files will come.
LEMMA CountSentKeeps == ASSUME TypeOK, InStep, WorkerCount, strayed' = {} PROVE InStep'
<1>1. WorkerOn("readNFiles")
  BY DEF WorkerCount
<1>2. call = "readNFiles" /\ call # "gone" /\ toServer = <<>>
  BY <1>1, JustTaken, CallsAre
<1>3. PICK q : Leads(Here, toClient, q) /\ AtWork(q) /\ q.script = Script["readNFiles"] /\ q.files = 0
  BY <1>1, JustTaken, CallsAre
<1>4. PICK n \in Nat : /\ n # 0 /\ Sends(<<Number("count", n)>>)
                       /\ worker' = [worker EXCEPT !.pc = "head", !.left = n]
                       /\ UNCHANGED <<job, answers>>
  <2>1. PICK files \in 0..MaxFiles :
          LET n == IF job.flags > files \/ job.flags = 0 THEN files ELSE job.flags
          IN  IF files = 0
              THEN /\ Sends(<<Number("continue", NO_CONTINUE)>>)
                   /\ Answer(NOT_OK, Errno.ENODATA)
                   /\ Strays("READN_FILE of an empty store")
              ELSE /\ Sends(<<Number("count", n)>>)
                   /\ worker' = [worker EXCEPT !.pc = "head", !.left = n]
                   /\ UNCHANGED <<job, answers, strayed>>
    BY DEF WorkerCount
  <2>2. ~Strays("READN_FILE of an empty store")
    BY DEF Strays
  <2>3. PICK flags : flags = job.flags /\ flags \in Nat
    BY TypesAre DEF ServerTypes, Jobs
  <2>4. PICK n : n = IF flags > files \/ flags = 0 THEN files ELSE flags
    OBVIOUS
  <2>5. files # 0 /\ files \in Nat
    <3>1. files # 0
      BY <2>1, <2>2, Zenon
    <3>2. \A k \in 0..MaxFiles : k \in Nat
      BY ProtocolAssumption
    <3>3. QED
      BY <2>1, <3>1, <3>2, Zenon
  <2>6. n \in Nat /\ n # 0
    BY <2>3, <2>4, <2>5
  <2>7. /\ Sends(<<Number("count", n)>>)
        /\ worker' = [worker EXCEPT !.pc = "head", !.left = n]
        /\ UNCHANGED <<job, answers, strayed>>
    BY <2>1, <2>3, <2>4, <2>5
  <2>8. QED
    BY <2>6, <2>7
<1>5. UNCHANGED <<clientVars, thread, stale, toServer>>
  BY DEF WorkerCount, Elsewhere
<1> DEFINE rest == <<"continue", "length", "bytes", "size", "status", "error">>
<1>6. q.script # <<>> /\ Head(q.script) = "count" /\ Tail(q.script) = rest /\ rest # <<>>
  BY <1>3, ScriptIs, NFilesReads DEF Begins
<1>7. PICK item : item = Number("count", n)
  OBVIOUS
<1>8. item \in Item /\ item.as = "count" /\ item.val = n
  BY <1>7, NumberTyped DEF Receives
<1>9. ScriptAfter(q, item) = rest
  BY <1>6, <1>8 DEF ScriptAfter
<1>10. Fits(q, item)
  BY <1>4, <1>6, <1>8, <1>9 DEF Fits, Receives
<1>11. PICK r : r = Reading(q, item)
  OBVIOUS
<1>12. r.script = rest /\ r.files = n
  BY <1>8, <1>9, <1>11 DEF Reading
<1>13. worker'.pc = "head" /\ worker'.left = n /\ worker'.left > 0
  <2>1. worker'.pc = "head" /\ worker'.left = n
    BY <1>4, TypesAre DEF ServerTypes, WorkerStates
  <2>2. n > 0
    BY <1>4
  <2>3. QED
    BY <2>1, <2>2
<1>14. ReadingNFiles(r)'
  BY <1>2, <1>5, <1>12, <1>13 DEF ReadingNFiles
<1>15. AtWork(r)'
  BY <1>2, <1>3, <1>4, <1>5, <1>14 DEF AtWork, clientVars
<1>16. QED
  BY <1>2, <1>3, <1>4, <1>5, <1>7, <1>8, <1>10, <1>11, <1>15, OneSent DEF Phase

\* A worker that sends files has the call and the phase of reading them.
LEMMA SendingHere ==
  ASSUME TypeOK, InStep, worker.pc \in {"head", "sendn"}
  PROVE  /\ call = "readNFiles" /\ call # "gone" /\ toServer = <<>>
         /\ \E q : Leads(Here, toClient, q) /\ AtWork(q) /\ ReadingNFiles(q)
<1>1. PICK q : Leads(Here, toClient, q) /\ AtWork(q)
  BY Busy
<1>2. ~Writing(q) /\ ~Appending(q) /\ ~ReadingFile(q)
  BY DEF Writing, Appending, ReadingFile
<1>3. call = "readNFiles" /\ ReadingNFiles(q)
  BY <1>1, <1>2 DEF AtWork
<1>4. toServer = <<>>
  BY <1>3 DEF ReadingNFiles
<1>5. QED
  BY <1>1, <1>3, <1>4

\* A file is announced, or the store is empty by now.
LEMMA HeadKeeps == ASSUME TypeOK, InStep, WorkerHead PROVE InStep'
<1>1. worker.pc = "head"
  BY DEF WorkerHead, WorkerAt
<1>2. call = "readNFiles" /\ call # "gone" /\ toServer = <<>>
  BY <1>1, SendingHere
<1>3. PICK q : Leads(Here, toClient, q) /\ AtWork(q) /\ ReadingNFiles(q)
  BY <1>1, SendingHere
<1> DEFINE rest == <<"length", "bytes", "size", "status", "error">>
<1>4. /\ q.script = <<"continue", "length", "bytes", "size", "status", "error">>
      /\ q.files = worker.left /\ worker.left > 0
  BY <1>1, <1>3 DEF ReadingNFiles
<1>5. q.script # <<>> /\ Head(q.script) = "continue" /\ Tail(q.script) = rest /\ rest # <<>>
  BY <1>4, NFilesReads DEF Begins
<1>6. UNCHANGED <<clientVars, thread, stale, toServer>>
  BY DEF WorkerHead, Elsewhere
<1>7. CASE Sends(<<Number("continue", NO_CONTINUE)>>) /\ Answer(NOT_OK, Errno.ENODATA)
  <2>1. NO_CONTINUE \in Nat /\ NO_CONTINUE # CONTINUE /\ toServer' = <<>>
    BY <1>2, <1>6 DEF NO_CONTINUE, CONTINUE
  <2>2. QED
    BY <1>3, <1>5, <1>6, <1>7, <2>1, RefusalKeeps
<1>8. CASE Sends(<<Number("continue", CONTINUE)>>) /\ WorkerGoesOn("sendn")
  <2>1. worker'.pc = "sendn" /\ worker'.left = worker.left /\ UNCHANGED <<job, answers>>
    BY <1>8, NextPlace
  <2>2. ASSUME NEW r, r.script = rest, r.files = q.files PROVE Phase(r)'
    <3>1. ReadingNFiles(r)'
      BY <1>2, <1>4, <1>6, <2>1, <2>2 DEF ReadingNFiles
    <3>2. AtWork(r)'
      BY <1>2, <1>3, <1>6, <2>1, <3>1 DEF AtWork, clientVars
    <3>3. QED
      BY <3>2 DEF Phase
  <2> HIDE DEF rest
  <2>3. QED
    BY <1>2, <1>3, <1>5, <1>6, <1>8, <2>2, ConsentKeeps
<1>9. QED
  BY <1>7, <1>8 DEF WorkerHead

\* One file of READN_FILE: the client reads the next one, or waits for the answer.
LEMMA FileSentKeeps == ASSUME TypeOK, InStep, WorkerSendN, Running' PROVE InStep'
<1>1. worker.pc = "sendn" /\ worker.left > 0
  BY DEF WorkerSendN, WorkerAt
<1>2. call = "readNFiles" /\ call # "gone" /\ toServer = <<>>
  BY <1>1, SendingHere
<1>3. PICK q : Leads(Here, toClient, q) /\ AtWork(q) /\ ReadingNFiles(q)
  BY <1>1, SendingHere
<1>4. PICK m \in Sizes, n \in Sizes : Sends(Message(m) \o <<Number("size", n)>>)
  BY DEF WorkerSendN, Running
<1>5. m \in Nat /\ n \in Nat
  BY ProtocolAssumption
<1>6. worker' = [worker EXCEPT !.left = worker.left - 1]
  BY DEF WorkerSendN, Running
<1>7. UNCHANGED <<clientVars, thread, stale, toServer, job, answers>>
  BY DEF WorkerSendN, Elsewhere
<1>8. PICK k : k = worker.left /\ k \in Nat /\ k > 0
  BY <1>1, TypesAre DEF ServerTypes, WorkerStates
<1>9. worker'.pc = "sendn" /\ worker'.left = k - 1
  BY <1>1, <1>6, <1>8, TypesAre DEF ServerTypes, WorkerStates
<1>10. q.script = <<"length", "bytes", "size", "status", "error">> /\ q.files = k
  <2>1. worker.left # 0
    BY <1>8
  <2>2. QED
    BY <1>1, <1>3, <1>8, <2>1 DEF ReadingNFiles
<1>11. toClient \in Seq(Item)
  BY DEF TypeOK
<1> DEFINE q1 == ReadingMessage(q, m)
           ch == toClient \o Message(m)
           s1 == <<"size", "status", "error">>
           s2 == <<"status", "error">>
           more == <<"length", "bytes", "size", "status", "error">>
           item == Number("size", n)
<1>12. /\ q.script # <<>> /\ Head(q.script) = "length"
       /\ Tail(q.script) # <<>> /\ Head(Tail(q.script)) = "bytes" /\ Tail(Tail(q.script)) = s1
  BY <1>10, NFilesReads DEF Begins
<1>13. s1 # <<>> /\ Head(s1) = "size" /\ Tail(s1) = s2 /\ s2 # <<>>
  BY NFilesReads, AnswerReads DEF Begins
<1>14. <<"length", "bytes", "size">> \o s2 = more
  BY ThreeTwo
<1>15. more # <<>>
  BY NFilesReads DEF Begins
<1> HIDE DEF s1, s2, more
<1>16. /\ ch \in Seq(Item) /\ Leads(Here, ch, q1)
       /\ q1.script = s1 /\ q1.files = k
  <2>1. Tail(Tail(q.script)) # <<>>
    BY <1>12, <1>13
  <2>2. Leads(Here, toClient, q)
    BY <1>3
  <2>3. /\ ch \in Seq(Item) /\ Leads(Here, ch, q1)
        /\ q1.script = Tail(Tail(q.script)) /\ q1.files = q.files
    BY <1>5, <1>11, <1>12, <2>1, <2>2, MessageLeads
  <2>4. QED
    BY <1>10, <1>12, <2>3
<1>17. item.as = "size" /\ item \in Item
  BY <1>5, NumberTyped DEF Receives
<1>18. toClient' = Append(ch, item)
  <2>1. <<item>> \in Seq(Item) /\ Message(m) \in Seq(Item)
    BY <1>5, <1>17, MessageIs
  <2>2. toClient' = toClient \o (Message(m) \o <<item>>)
    BY <1>2, <1>4 DEF Sends
  <2>3. toClient \o (Message(m) \o <<item>>) = ch \o <<item>>
    BY <1>11, <2>1, ConcatAssociative
  <2> HIDE DEF ch, item
  <2>4. ch \o <<item>> = Append(ch, item)
    BY <1>16, <1>17
  <2>5. QED
    BY <2>2, <2>3, <2>4
<1>19. PICK rest : /\ rest # <<>>
                   /\ (k > 1 /\ rest = more) \/ (~(k > 1) /\ rest = s2)
  BY <1>13, <1>15
<1> HIDE DEF q1, ch, item
<1>20. ScriptAfter(q1, item) = rest
  <2>1. ScriptAfter(q1, item) = IF k > 1 THEN <<"length", "bytes", "size">> \o Tail(q1.script)
                                ELSE Tail(q1.script)
    BY <1>16, <1>17 DEF ScriptAfter
  <2>2. Tail(q1.script) = s2
    BY <1>13, <1>16
  <2>3. QED
    BY <1>14, <1>19, <2>1, <2>2
<1>21. Fits(q1, item)
  BY <1>13, <1>16, <1>17, <1>19, <1>20 DEF Fits, Receives
<1>22. PICK r : r = Reading(q1, item)
  OBVIOUS
<1>23. r.script = rest /\ r.files = k - 1
  BY <1>8, <1>16, <1>17, <1>20, <1>22 DEF Reading
<1>24. Leads(Here, toClient', r)
  BY <1>16, <1>17, <1>18, <1>21, <1>22, LeadsOn
<1>25. ReadingNFiles(r)'
  <2>1. toServer' = <<>> /\ r.files = worker'.left
    BY <1>2, <1>7, <1>9, <1>23
  <2>2. CASE k > 1
    <3>1. k - 1 > 0
      BY <1>8, <2>2
    <3>2. worker'.left > 0
      BY <1>9, <3>1
    <3>3. r.script = <<"length", "bytes", "size", "status", "error">>
      BY <1>19, <1>23, <2>2 DEF more
    <3>4. QED
      BY <1>9, <2>1, <3>2, <3>3 DEF ReadingNFiles
  <2>3. CASE ~(k > 1)
    <3>1. k - 1 = 0
      BY <1>8, <2>3
    <3>2. worker'.left = 0
      BY <1>9, <3>1
    <3>3. r.script = <<"status", "error">>
      BY <1>19, <1>23, <2>3 DEF s2
    <3>4. QED
      BY <1>9, <2>1, <3>2, <3>3 DEF ReadingNFiles
  <2>4. QED
    BY <2>2, <2>3
<1>26. AtWork(r)'
  BY <1>2, <1>3, <1>7, <1>9, <1>25 DEF AtWork, clientVars
<1>27. QED
  BY <1>7, <1>24, <1>26, FurtherOn DEF Phase

\* When no file is left the client waits for the answer as well.
LEMMA AllSentKeeps == ASSUME TypeOK, InStep, WorkerSentN PROVE InStep'
<1>1. worker.pc = "sendn" /\ worker.left = 0
  BY DEF WorkerSentN, WorkerAt
<1>2. toServer = <<>>
  BY <1>1, SendingHere
<1>3. PICK q : Leads(Here, toClient, q) /\ AtWork(q) /\ ReadingNFiles(q)
  BY <1>1, SendingHere
<1>4. q.script = <<"status", "error">>
  BY <1>1, <1>3 DEF ReadingNFiles
<1>5. OK \in {OK, NOT_OK} /\ Answer(OK, 0) /\ SendsNothing /\ Elsewhere
  BY DEF WorkerSentN
<1>6. QED
  BY <1>2, <1>3, <1>4, <1>5, SilentAnswer

\* Every step of a worker that does not make the two sides come apart.
LEMMA WorkerKeeps == ASSUME TypeOK, InStep, WorkerStep, InTouch' PROVE InStep'
<1>1. strayed' = {} /\ Running'
  BY DEF InTouch
<1>2. ~WorkerLeaves
  <2>1. ASSUME WorkerLeaves PROVE FALSE
    <3>1. worker.pc = "start" /\ \A f \in Calls : job.op # Code[f]
      BY <2>1 DEF WorkerLeaves, WorkerAt
    <3>2. QED
      BY <3>1, Busy
  <2>2. QED
    BY <2>1
<1>3. QED
  BY <1>1, <1>2, PlainKeeps, FileFoundKeeps, CheckKeeps, SendFileKeeps, WriteKeeps, SizeTakenKeeps,
     LengthTakenKeeps, BytesTakenKeeps, StoredKeeps, CountSentKeeps, HeadKeeps, FileSentKeeps,
     AllSentKeeps DEF WorkerStep

-----------------------------------------------------------------------------
(* The whole system.                                                       *)

\* Once they have come apart the two sides stay so.
LEMMA TouchGoes == ASSUME [Next]_vars, InTouch' PROVE InTouch
<1>1. \A way : Strays(way) => strayed' # {}
  BY DEF Strays
<1>2. strayed' = {}
  BY DEF InTouch
<1>3. ASSUME ClientStep PROVE Running /\ strayed' = strayed
  <2>1. Call => Running /\ strayed' = strayed
    BY DEF Call
  <2>2. ClientContinue => Running /\ strayed' = strayed
    BY DEF ClientContinue, Arrives, Doing
  <2>3. ClientCount => Running /\ strayed' = strayed
    BY DEF ClientCount, Arrives, Doing
  <2>4. ClientLength => Running /\ strayed' = strayed
    BY DEF ClientLength, Arrives, Doing
  <2>5. ClientBytes => Running /\ strayed' = strayed
    BY DEF ClientBytes, Doing
  <2>6. ClientSize => Running /\ strayed' = strayed
    BY <1>1, <1>2, Zenon DEF ClientSize, Arrives, Doing
  <2>7. ClientSendSize => Running /\ strayed' = strayed
    BY <1>1, <1>2, Zenon DEF ClientSendSize, Doing
  <2>8. ClientSendFile => Running /\ strayed' = strayed
    BY <1>1, <1>2, Zenon DEF ClientSendFile, Doing
  <2>9. ClientSendBoth => Running /\ strayed' = strayed
    BY DEF ClientSendBoth, Doing
  <2>10. ClientStatus => Running /\ strayed' = strayed
    BY DEF ClientStatus, Arrives, Doing
  <2>11. ClientError => Running /\ strayed' = strayed
    BY DEF ClientError, Arrives, Doing
  <2>12. ~ProgramEnds
    BY <1>1, <1>2, Zenon DEF ProgramEnds
  <2>13. QED
    BY <1>3, <2>1, <2>2, <2>3, <2>4, <2>5, <2>6, <2>7, <2>8, <2>9, <2>10, <2>11, <2>12 DEF ClientStep
<1>4. ASSUME ThreadStep PROVE Running /\ strayed' = strayed
  BY <1>4 DEF ThreadStep, ThreadOp, ThreadLength, ThreadBytes, ThreadFlags, ThreadAnswer,
              ThreadAnswerFreed, ThreadStatus, ThreadError, ThreadFree, ThreadWants, ThreadGoesOn
<1>5. ASSUME WorkerStep PROVE Running /\ strayed' = strayed
  <2>1. WorkerClose => Running /\ strayed' = strayed
    BY <1>1, <1>2, Zenon DEF WorkerClose, WorkerOn, WorkerAt
  <2>2. WorkerSize => Running /\ strayed' = strayed
    BY <1>1, <1>2, Zenon DEF WorkerSize, WorkerAt
  <2>3. WorkerCount => Running /\ strayed' = strayed
    BY <1>1, <1>2, Zenon DEF WorkerCount, WorkerOn, WorkerAt
  <2>4. WorkerOpen \/ WorkerRead \/ WorkerCheck \/ WorkerSendFile \/ WorkerWrite
          => Running /\ strayed' = strayed
    BY DEF WorkerOpen, WorkerRead, WorkerCheck, WorkerSendFile, WorkerWrite, WorkerOn, WorkerAt
  <2>5. WorkerLength \/ WorkerBytes \/ WorkerWrites \/ WorkerHead \/ WorkerSendN \/ WorkerSentN
          => Running /\ strayed' = strayed
    BY DEF WorkerLength, WorkerBytes, WorkerWrites, WorkerHead, WorkerSendN, WorkerSentN, WorkerAt
  <2>6. WorkerRemove \/ WorkerCloseConnection \/ WorkerLeaves => Running /\ strayed' = strayed
    BY DEF WorkerRemove, WorkerCloseConnection, WorkerLeaves, WorkerOn, WorkerAt
  <2>7. QED
    BY <1>5, <2>1, <2>2, <2>3, <2>4, <2>5, <2>6 DEF WorkerStep
<1>6. ~HangUp
  BY <1>1, <1>2, Zenon DEF HangUp
<1>7. ~Garble
  BY DEF Garble, InTouch, Running
<1>8. CASE UNCHANGED vars
  BY <1>8 DEF vars, InTouch, Running
<1>9. QED
  BY <1>2, <1>3, <1>4, <1>5, <1>6, <1>7, <1>8 DEF InTouch, Next

\* At first nobody has said anything.
LEMMA InStepFirst == ASSUME Init PROVE InStep
<1>1. PICK q : q = Here
  OBVIOUS
<1>2. q.script = <<>>
  BY <1>1 DEF Here, Init
<1>3. Served(q)
  BY <1>2, CallsAre DEF Init, Served, Resting, At, Reads, NoJob
<1>4. Leads(Here, toClient, q)
  BY <1>1, LeadsEmpty DEF Init
<1>5. ~stale /\ (call \in Calls <=> script # <<>>)
  BY CallsAre DEF Init
<1>6. QED
  BY <1>3, <1>4, <1>5, InStepIs DEF Phase

\* Every step leaves the two sides in step, or makes them come apart.
LEMMA InStepNext ==
  ASSUME TypeOK, InStepInv, [Next]_vars
  PROVE  InStepInv'
<1> SUFFICES ASSUME InTouch' PROVE InStep'
  BY DEF InStepInv
<1>1. InStep /\ strayed' = {}
  BY TouchGoes DEF InStepInv, InTouch
<1>2. \A way : Strays(way) => strayed' # {}
  BY DEF Strays
<1>3. CASE ClientStep
  <2>1. ~ProgramEnds
    BY <1>1, <1>2, Zenon DEF ProgramEnds
  <2>2. QED
    BY <1>1, <1>3, <2>1, CallKeeps, ContinueKeeps, CountKeeps, LengthKeeps, BytesKeeps, SizeKeeps,
       UploadKeeps, StatusKeeps, ErrorKeeps DEF ClientStep
<1>4. CASE ThreadStep
  <2>1. Running'
    BY DEF InTouch
  <2>2. QED
    BY <1>1, <1>4, <2>1, ThreadKeeps
<1>5. CASE WorkerStep
  BY <1>1, <1>5, WorkerKeeps
<1>6. ~HangUp
  BY <1>1, <1>2, Zenon DEF HangUp
<1>7. ~Garble
  BY DEF Garble, InTouch, Running
<1>8. CASE UNCHANGED vars
  <2>1. UNCHANGED <<clientVars, toClient, toServer, serverVars, call, stale>>
    BY <1>8 DEF vars, clientVars, serverVars
  <2>2. PICK q : Leads(Here, toClient, q) /\ Phase(q)
    BY <1>1, InStepIs
  <2>3. Phase(q)'
    BY <2>1, <2>2, PhaseStays
  <2>4. ~stale'
    BY <1>1, <2>1, InStepIs
  <2>5. QED
    BY <1>1, <2>1, <2>2, <2>3, <2>4, SamePlace
<1>9. QED
  BY <1>3, <1>4, <1>5, <1>6, <1>7, <1>8 DEF Next

\* The inductive invariant.
THEOREM DialogueInvariant == Spec => []PInv
<1>1. Init => PInv
  BY TypesFirst, InStepFirst DEF PInv, InStepInv
<1>2. PInv /\ [Next]_vars => PInv'
  BY TypesNext, InStepNext DEF PInv
<1>3. QED
  BY <1>1, <1>2, PTL DEF Spec

-----------------------------------------------------------------------------
(* What follows for the dialogue.                                          *)

\* Whoever reads next finds what it waits for, with the length it was told.
THEOREM AlwaysReadAsSent == Spec => []ReadAsSent
<1>1. PInv => ReadAsSent
  <2> SUFFICES ASSUME PInv, InTouch PROVE ReadAsSent
    BY DEF ReadAsSent
  <2>0. TypeOK /\ InStep
    BY DEF PInv, InStepInv
  <2>1. ASSUME script # <<>>, Head(script) \in Receives, toClient # <<>>
        PROVE  /\ Head(toClient).as = Head(script)
               /\ Head(script) = "bytes" => Head(toClient).val = local.length
    BY <2>0, <2>1, ReadsFirst DEF Fits, Here
  <2>2. ASSUME thread.wants \in {"op", "length", "bytes", "flags"}, toServer # <<>>
        PROVE  /\ Head(toServer).as = thread.wants
               /\ thread.wants = "bytes" => Head(toServer).val = thread.length
    <3>1. PICK q : Asked(q)
      BY <2>0, <2>2, RequestRead
    <3>2. PICK f \in Flags, n \in NameLengths :
            \/ /\ thread.wants = "op"
               /\ toServer = <<Opening(call), Naming(n)[1], Naming(n)[2], Number("flags", f)>>
            \/ thread.wants = "length" /\ toServer = <<Naming(n)[1], Naming(n)[2], Number("flags", f)>>
            \/ /\ thread.wants = "bytes" /\ thread.length = n
               /\ toServer = <<Naming(n)[2], Number("flags", f)>>
            \/ thread.wants = "flags" /\ toServer = <<Number("flags", f)>>
      BY <2>2, <3>1 DEF Asked
    <3>3. /\ thread.wants = "op" => Head(toServer) = Opening(call)
          /\ thread.wants = "length" => Head(toServer) = Naming(n)[1]
          /\ thread.wants = "bytes" => Head(toServer) = Naming(n)[2] /\ thread.length = n
          /\ thread.wants = "flags" => Head(toServer) = Number("flags", f)
      BY <3>2, RequestIs
    <3>4. Naming(n)[1] = Number("length", n) /\ Naming(n)[2] = Number("bytes", n)
      BY RequestIs
    <3>5. /\ Naming(n)[1].as = "length" /\ Naming(n)[2].as = "bytes" /\ Naming(n)[2].val = n
          /\ Opening(call).as = "op" /\ Number("flags", f).as = "flags"
      BY <3>4 DEF Opening, Number
    <3>6. QED
      BY <2>2, <3>3, <3>5
  <2>3. ASSUME worker.pc \in {"size", "length", "bytes"}, toServer # <<>>
        PROVE  /\ Head(toServer).as = worker.pc
               /\ worker.pc = "bytes" => Head(toServer).val = worker.length
    <3>1. PICK q : Writing(q) \/ Appending(q)
      BY <2>0, <2>3, TakingHere
    <3>2. worker.size \in Nat /\ Sizes \subseteq Nat
      BY <2>0, TypesAre, ProtocolAssumption DEF ServerTypes, WorkerStates
    <3>3. \A n \in Nat : Head(Message(n)) = Number("length", n)
      BY MessageIs, RequestIs
    <3>4. \A n \in Nat : Head(<<Number("size", n)>> \o Message(n)) = Number("size", n)
      <4>1. ASSUME NEW n \in Nat, n = 0 PROVE Head(<<Number("size", n)>> \o Message(n)) = Number("size", n)
        <5>1. <<Number("size", n)>> \o Message(n) = <<Number("size", n), Number("length", 0)>>
          BY <4>1, MessageIs, OneOne
        <5>2. QED
          BY <5>1, RequestIs
      <4>2. ASSUME NEW n \in Nat, n # 0 PROVE Head(<<Number("size", n)>> \o Message(n)) = Number("size", n)
        <5>1. <<Number("size", n)>> \o Message(n)
                = <<Number("size", n), Number("length", n), Number("bytes", n)>>
          BY <4>2, MessageIs, OneTwo
        <5>2. QED
          BY <5>1, RequestIs
      <4>3. QED
        BY <4>1, <4>2
    <3>5. CASE worker.pc = "size"
      <4>1. PICK n : \/ toServer = <<Number("size", n)>>
                     \/ n \in Nat /\ toServer = <<Number("size", n)>> \o Message(n)
        BY <2>3, <3>1, <3>2, <3>5 DEF Writing, Appending
      <4>2. Head(toServer) = Number("size", n)
        BY <3>4, <4>1, RequestIs
      <4>3. QED
        BY <3>5, <4>2 DEF Number
    <3>6. CASE worker.pc = "length"
      <4>1. Head(toServer) = Number("length", worker.size)
        BY <2>3, <3>1, <3>2, <3>3, <3>6 DEF Writing, Appending
      <4>2. QED
        BY <3>6, <4>1 DEF Number
    <3>7. CASE worker.pc = "bytes"
      <4>1. Head(toServer) = Number("bytes", worker.size) /\ worker.length = worker.size
        BY <2>3, <3>1, <3>7, RequestIs DEF Writing, Appending
      <4>2. QED
        BY <3>7, <4>1 DEF Number
    <3>8. QED
      BY <2>3, <3>5, <3>6, <3>7
  <2>4. QED
    BY <2>1, <2>2, <2>3 DEF ReadAsSent
<1>2. QED
  BY <1>1, DialogueInvariant, PTL

\* Between two calls the client's end and the server's are both at rest.
THEOREM AlwaysCleanBetweenCalls == Spec => []CleanBetweenCalls
<1>1. PInv => CleanBetweenCalls
  <2> SUFFICES ASSUME PInv, InTouch, script = <<>>
               PROVE  /\ toServer = <<>> /\ toClient = <<>> /\ answers = 0 /\ ~stale
                      /\ worker.pc = "idle"
                      /\ thread.wants \in IF call = "gone" THEN {"free", "ended"} ELSE {"free", "op"}
    BY DEF CleanBetweenCalls
  <2>1. TypeOK /\ InStep
    BY DEF PInv, InStepInv
  <2>2. toClient = <<>> /\ ~stale /\ call \notin Calls
    BY <2>1, SendsAlone, InStepIs
  <2>3. PICK q : Phase(q)
    BY <2>1, InStepIs
  <2>4. Served(q)
    BY <2>2, <2>3 DEF Phase, Asked, AtWork, Answering
  <2>5. call \in {"none", "gone"}
    BY <2>1, <2>2 DEF TypeOK
  <2>6. QED
    BY <2>2, <2>4, <2>5 DEF Served, Resting
<1>2. QED
  BY <1>1, DialogueInvariant, PTL

\* write_to_file is called with the size that was announced and a message of
\* just that length.
THEOREM AlwaysWritesWhatCame == Spec => []WritesWhatCame
<1>1. PInv => WritesWhatCame
  <2> SUFFICES ASSUME PInv, InTouch, worker.pc = "write" PROVE worker.size = worker.length
    BY DEF WritesWhatCame
  <2>1. TypeOK /\ InStep
    BY DEF PInv, InStepInv
  <2>2. PICK q : Writing(q) \/ Appending(q)
    BY <2>1, TakingHere
  <2>3. QED
    BY <2>2 DEF Writing, Appending
<1>2. QED
  BY <1>1, DialogueInvariant, PTL

\* A call returns the status and the error number a worker has set for it.
THEOREM AlwaysOwnAnswer == Spec => OwnAnswer
<1> DEFINE Own == InTouch /\ script # <<>> /\ script' = <<>> /\ strayed' = {} =>
                    /\ job.op = Code[call]
                    /\ job.status \in {OK, NOT_OK}
                    /\ result' = [status |-> job.status, errno |-> job.err]
<1>1. PInv /\ [Next]_vars => [Own]_vars
  <2> SUFFICES ASSUME PInv, [Next]_vars, InTouch, script # <<>>, script' = <<>>, strayed' = {}
               PROVE  /\ job.op = Code[call]
                      /\ job.status \in {OK, NOT_OK}
                      /\ result' = [status |-> job.status, errno |-> job.err]
    OBVIOUS
  <2>1. TypeOK /\ InStep
    BY DEF PInv, InStepInv
  <2>2. ClientError
    <3>1. \A way : Strays(way) => strayed' # {}
      BY DEF Strays
    <3>2. ~HangUp /\ ~ProgramEnds
      BY <3>1, Zenon DEF HangUp, ProgramEnds
    <3>3. ~(GivesUp /\ Strays("return in writeFile"))
      BY <3>1, Zenon
    <3>4. ClientStep
      <4>1. ASSUME ThreadStep \/ WorkerStep \/ Garble \/ UNCHANGED vars PROVE FALSE
        <5>1. Running /\ Books
          BY DEF InTouch, PInv, Bookkeeping
        <5>2. ThreadStep \/ WorkerStep => UNCHANGED clientVars
          BY <2>1, <5>1, ThreadTyped, WorkerTyped
        <5>3. Garble \/ UNCHANGED vars => script' = script
          BY DEF Garble, vars, clientVars
        <5>4. QED
          BY <4>1, <5>2, <5>3 DEF clientVars
      <4>2. QED
        BY <3>2, <4>1 DEF Next
    <3>5. call' # call
      <4>1. run' = run
        BY <2>1, <3>4, ClientTyped DEF PInv, Bookkeeping
      <4>2. InTouch'
        BY <4>1 DEF InTouch, Running
      <4>3. InStep'
        BY <4>2, InStepNext DEF PInv, InStepInv
      <4>4. call' \notin Calls
        BY <4>3 DEF InStep
      <4>5. call \in Calls
        BY <2>1, InStepIs
      <4>6. QED
        BY <4>4, <4>5
    <3>6. ~Call
      BY <2>1, InStepIs, CallsAre DEF Call
    <3>7. ClientCount => call' = call
      <4>1. ClientCount => Head(toClient).val # 0
        BY <2>1, ReadsFirst DEF Fits, Here, ClientCount, Arrives, Doing
      <4>2. QED
        BY <4>1 DEF ClientCount, ClientReads, Value
    <3>8. ClientContinue \/ ClientLength \/ ClientBytes \/ ClientSize \/ ClientStatus => call' = call
      BY DEF ClientContinue, ClientLength, ClientBytes, ClientSize, ClientStatus, ClientReads
    <3>9. ClientSendSize => call' = call
      BY <3>3, Zenon DEF ClientSendSize, ClientSends
    <3>10. ClientSendFile => call' = call
      BY <3>3, Zenon DEF ClientSendFile, ClientSends
    <3>11. ClientSendBoth => call' = call
      BY DEF ClientSendBoth, ClientSends
    <3>12. QED
      BY <3>2, <3>4, <3>5, <3>6, <3>7, <3>8, <3>9, <3>10, <3>11 DEF ClientStep
  <2>3. PICK q : Served(q) /\ call \in Calls /\ q.status = local.status /\ q.errno = Value
    BY <2>1, <2>2, LastNumber
  <2>4. job.op = Code[call] /\ Answered /\ local.status = job.status /\ Value = job.err
    BY <2>3 DEF Served
  <2>5. result' = [status |-> IF local.status = OK /\ Value # 0 THEN -1 ELSE local.status,
                   errno |-> Value]
    BY <2>2 DEF ClientError
  <2>6. ~(local.status = OK /\ Value # 0)
    BY <2>4 DEF Answered
  <2>7. QED
    BY <2>4, <2>5, <2>6 DEF Answered
<1>2. QED
  BY <1>1, DialogueInvariant, PTL DEF OwnAnswer, Spec

=============================================================================
