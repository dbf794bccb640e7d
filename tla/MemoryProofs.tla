---------------------------- MODULE MemoryProofs ----------------------------
(***************************************************************************)
(* What the list operations of Memory.tla do to a list: the length, the    *)
(* set of files and the absence of repetitions after an insertion at the   *)
(* head, a pop at either end, and policy_routine's move to the head.       *)
(***************************************************************************)
EXTENDS Memory, SequenceTheorems, FiniteSetTheorems, TLAPS

\* An insertion at the head (add_file_to_memory).
LEMMA PushedList ==
  ASSUME NEW S, NEW s \in Seq(S), NEW f \in S
  PROVE  /\ <<f>> \o s \in Seq(S)
         /\ Len(<<f>> \o s) = Len(s) + 1
         /\ Range(<<f>> \o s) = Range(s) \cup {f}
         /\ IsInjective(s) /\ f \notin Range(s) => IsInjective(<<f>> \o s)
<1> DEFINE t == <<f>> \o s
<1>1. /\ t \in Seq(S)
      /\ Len(t) = Len(s) + 1
      /\ \A i \in 1..(Len(s) + 1) : t[i] = IF i = 1 THEN f ELSE s[i - 1]
  BY ConcatProperties, <<f>> \in Seq(S), Len(<<f>>) = 1, <<f>>[1] = f
<1>2. /\ DOMAIN s = 1..Len(s)
      /\ DOMAIN t = 1..(Len(s) + 1)
      /\ Len(s) \in Nat
  BY <1>1, LenProperties
<1> HIDE DEF t
<1>3. \A x \in Range(t) : x \in Range(s) \cup {f}
  BY <1>1, <1>2 DEF Range
<1>4. \A i \in DOMAIN s : i + 1 \in DOMAIN t /\ t[i + 1] = s[i]
  BY <1>1, <1>2
<1>5. 1 \in DOMAIN t /\ t[1] = f
  BY <1>1, <1>2
<1>6. Range(t) = Range(s) \cup {f}
  BY <1>3, <1>4, <1>5 DEF Range
<1>7. ASSUME IsInjective(s), f \notin Range(s)
      PROVE  IsInjective(t)
  <2>1. \A k \in DOMAIN t : k # 1 => k - 1 \in DOMAIN s /\ t[k] = s[k - 1] /\ t[k] # f
    BY <1>1, <1>2, <1>7 DEF Range
  <2>2. SUFFICES ASSUME NEW i \in DOMAIN t, NEW j \in DOMAIN t, t[i] = t[j]
                 PROVE  i = j
    BY DEF IsInjective
  <2>3. CASE i = 1 \/ j = 1
    BY <1>5, <2>1, <2>2, <2>3
  <2>4. CASE i # 1 /\ j # 1
    <3>1. s[i - 1] = s[j - 1] /\ i - 1 \in DOMAIN s /\ j - 1 \in DOMAIN s
      BY <2>1, <2>2, <2>4
    <3>2. i - 1 = j - 1
      BY <1>7, <3>1 DEF IsInjective
    <3>3. QED
      BY <1>2, <3>2
  <2>5. QED
    BY <2>3, <2>4
<1>8. QED
  BY <1>1, <1>6, <1>7 DEF t

\* A list of one file.
LEMMA SingleList ==
  ASSUME NEW S, NEW f \in S
  PROVE  /\ <<f>> \in Seq(S)
         /\ Len(<<f>>) = 1
         /\ Range(<<f>>) = {f}
         /\ IsInjective(<<f>>)
BY DEF Range, IsInjective

\* A pop from the tail (pop_from_tail).
LEMMA PoppedTailList ==
  ASSUME NEW S, NEW s \in Seq(S), s # <<>>, IsInjective(s)
  PROVE  LET t == SubSeq(s, 1, Len(s) - 1)
         IN  /\ t \in Seq(S)
             /\ Len(t) = Len(s) - 1
             /\ s[Len(s)] \in Range(s)
             /\ Range(t) = Range(s) \ {s[Len(s)]}
             /\ IsInjective(t)
<1> DEFINE t == SubSeq(s, 1, Len(s) - 1)
<1>1. /\ DOMAIN s = 1..Len(s)
      /\ Len(s) \in Nat \ {0}
      /\ \A i \in 1..Len(s) : s[i] \in S
  BY LenProperties, EmptySeq
<1>2. /\ t \in Seq(S)
      /\ Len(t) = Len(s) - 1
      /\ \A i \in 1..(Len(s) - 1) : t[i] = s[i]
  <2>1. \A i \in 1..(Len(s) - 1) : s[i] \in S
    BY <1>1
  <2>2. Len(t) = IF 1 <= Len(s) - 1 THEN (Len(s) - 1) - 1 + 1 ELSE 0
    BY <1>1, <2>1, SubSeqProperties
  <2>3. /\ t \in Seq(S)
        /\ \A i \in 1..((Len(s) - 1) - 1 + 1) : t[i] = s[1 + i - 1]
    BY <1>1, <2>1, SubSeqProperties
  <2>4. QED
    BY <1>1, <2>2, <2>3
<1>3. DOMAIN t = 1..(Len(s) - 1)
  BY <1>2, LenProperties
<1> HIDE DEF t
<1>4. IsInjective(t)
  BY <1>1, <1>2, <1>3 DEF IsInjective
<1>5. \A x \in Range(t) : x \in Range(s) /\ x # s[Len(s)]
  BY <1>1, <1>2, <1>3 DEF Range, IsInjective
<1>6. \A i \in DOMAIN s : i # Len(s) => i \in DOMAIN t /\ t[i] = s[i]
  BY <1>1, <1>2, <1>3
<1>7. Range(t) = Range(s) \ {s[Len(s)]}
  BY <1>5, <1>6 DEF Range
<1>8. s[Len(s)] \in Range(s)
  BY <1>1 DEF Range
<1>9. QED
  BY <1>2, <1>4, <1>7, <1>8 DEF t

\* A pop from the head (pop_from_head).
LEMMA PoppedHeadList ==
  ASSUME NEW S, NEW s \in Seq(S), s # <<>>, IsInjective(s)
  PROVE  /\ Tail(s) \in Seq(S)
         /\ Len(Tail(s)) = Len(s) - 1
         /\ Head(s) \in Range(s)
         /\ Range(Tail(s)) = Range(s) \ {Head(s)}
         /\ IsInjective(Tail(s))
<1> DEFINE t == Tail(s)
<1>1. /\ DOMAIN s = 1..Len(s)
      /\ Len(s) \in Nat \ {0}
      /\ Head(s) = s[1]
  BY LenProperties, EmptySeq
<1>2. /\ t \in Seq(S)
      /\ Len(t) = Len(s) - 1
      /\ \A i \in 1..Len(t) : t[i] = s[i + 1]
  BY HeadTailProperties
<1>3. DOMAIN t = 1..(Len(s) - 1)
  BY <1>2, LenProperties
<1> HIDE DEF t
<1>4. \A k \in DOMAIN t : k + 1 \in DOMAIN s /\ t[k] = s[k + 1]
  BY <1>1, <1>2, <1>3
<1>5. IsInjective(t)
  <2> SUFFICES ASSUME NEW i \in DOMAIN t, NEW j \in DOMAIN t, t[i] = t[j]
               PROVE  i = j
    BY DEF IsInjective
  <2>1. i + 1 = j + 1
    BY <1>4 DEF IsInjective
  <2>2. QED
    BY <1>3, <2>1
<1>6. \A x \in Range(t) : x \in Range(s) /\ x # s[1]
  <2> SUFFICES ASSUME NEW k \in DOMAIN t
               PROVE  t[k] \in Range(s) /\ t[k] # s[1]
    BY DEF Range
  <2>1. k + 1 # 1 /\ 1 \in DOMAIN s
    BY <1>1, <1>3
  <2>2. s[k + 1] # s[1]
    BY <1>4, <2>1 DEF IsInjective
  <2>3. QED
    BY <1>4, <2>2 DEF Range
<1>7. \A i \in DOMAIN s : i # 1 => i - 1 \in DOMAIN t /\ t[i - 1] = s[i]
  BY <1>1, <1>2, <1>3
<1>8. Range(t) = Range(s) \ {s[1]}
  <2>1. ASSUME NEW x \in Range(s), x # s[1]
        PROVE  x \in Range(t)
    <3>1. PICK i \in DOMAIN s : x = s[i]
      BY DEF Range
    <3>2. i - 1 \in DOMAIN t /\ t[i - 1] = x
      BY <1>7, <2>1, <3>1
    <3>3. QED
      BY <3>2 DEF Range
  <2>2. QED
    BY <1>6, <2>1
<1>9. s[1] \in Range(s)
  BY <1>1 DEF Range
<1>10. QED
  BY <1>1, <1>2, <1>5, <1>8, <1>9 DEF t

\* policy_routine reorders the list and loses nothing.
LEMMA MovedList ==
  ASSUME NEW S, NEW s \in Seq(S), NEW i \in DOMAIN s, IsInjective(s)
  PROVE  /\ MovedToFront(s, i) \in Seq(S)
         /\ Len(MovedToFront(s, i)) = Len(s)
         /\ Range(MovedToFront(s, i)) = Range(s)
         /\ IsInjective(MovedToFront(s, i))
<1> DEFINE t == MovedToFront(s, i)
<1>1. /\ DOMAIN s = 1..Len(s)
      /\ Len(s) \in Nat
      /\ \A k \in 1..Len(s) : s[k] \in S
      /\ i \in 1..Len(s)
  BY LenProperties
<1>2. /\ DOMAIN t = 1..Len(s)
      /\ \A k \in 1..Len(s) :
           t[k] = IF k = 1 THEN s[i] ELSE IF k <= i THEN s[k - 1] ELSE s[k]
  BY DEF MovedToFront
<1> HIDE DEF t
<1>3. \A k \in 1..Len(s) : t[k] \in S
  BY <1>1, <1>2
<1>4. t \in Seq(S) /\ Len(t) = Len(s)
  <2>1. t \in [1..Len(s) -> S]
    BY <1>2, <1>3 DEF t, MovedToFront
  <2>2. QED
    BY <1>1, <2>1
<1>5. IsInjective(t)
  BY <1>1, <1>2 DEF IsInjective
<1>6. \A x \in Range(t) : x \in Range(s)
  BY <1>1, <1>2 DEF Range
<1>7. \A k \in DOMAIN s : \E j \in DOMAIN t : t[j] = s[k]
  <2> SUFFICES ASSUME NEW k \in DOMAIN s
               PROVE  \E j \in DOMAIN t : t[j] = s[k]
    OBVIOUS
  <2>1. CASE k = i
    BY <1>1, <1>2, <2>1
  <2>2. CASE k < i
    <3>1. k + 1 \in DOMAIN t /\ t[k + 1] = s[k]
      BY <1>1, <1>2, <2>2
    <3>2. QED
      BY <3>1
  <2>3. CASE k > i
    BY <1>1, <1>2, <2>3
  <2>4. QED
    BY <1>1, <2>1, <2>2, <2>3
<1>8. Range(t) = Range(s)
  BY <1>6, <1>7 DEF Range
<1>9. QED
  BY <1>4, <1>5, <1>8 DEF t

=============================================================================
