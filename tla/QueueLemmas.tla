------------------------------ MODULE QueueLemmas ------------------------------
(***************************************************************************)
(* What push() and pop() of a SynchronousQueue do to the set of its        *)
(* entries, and to the sequence of all that went through it: what has been *)
(* dealt with, what is in the consumer's hand, and what waits.  And what   *)
(* moving bytes from one sequence to the next leaves as it is.             *)
(***************************************************************************)
EXTENDS Naturals, Sequences, Functions, SequenceTheorems, TLAPS

LEMMA EmptyLemma == DOMAIN <<>> = {} /\ Range(<<>>) = {} /\ IsInjective(<<>>)
<1>1. <<>> \in Seq({}) /\ Len(<<>>) = 0
  BY EmptySeq
<1>2. DOMAIN <<>> = {}
  BY <1>1, LenProperties
<1> QED
  BY <1>2 DEF Range, IsInjective

\* push() adds one element at the end; a new one keeps the queue injective.
LEMMA PushLemma ==
  ASSUME NEW S, NEW q \in Seq(S), NEW e \in S
  PROVE  /\ Append(q, e) \in Seq(S)
         /\ Range(Append(q, e)) = Range(q) \union {e}
         /\ IsInjective(q) /\ e \notin Range(q) => IsInjective(Append(q, e))
<1>1. /\ Append(q, e) \in Seq(S)
      /\ DOMAIN q = 1 .. Len(q)
      /\ DOMAIN Append(q, e) = 1 .. Len(q) + 1
      /\ \A i \in 1 .. Len(q) : Append(q, e)[i] = q[i]
      /\ Append(q, e)[Len(q) + 1] = e
      /\ Len(q) \in Nat
  OBVIOUS
<1>2. Range(Append(q, e)) = Range(q) \union {e}
  BY <1>1 DEF Range
<1>3. ASSUME IsInjective(q), e \notin Range(q)
      PROVE  IsInjective(Append(q, e))
  BY <1>1, <1>3 DEF IsInjective, Range
<1> QED
  BY <1>1, <1>2, <1>3

\* pop() of a non-empty queue takes one element away from the front; in an
\* injective queue it is gone.
LEMMA PopLemma ==
  ASSUME NEW S, NEW q \in Seq(S), q # <<>>, IsInjective(q)
  PROVE  /\ Head(q) \in S /\ Tail(q) \in Seq(S)
         /\ Head(q) \in Range(q)
         /\ Range(Tail(q)) = Range(q) \ {Head(q)}
         /\ IsInjective(Tail(q))
<1>1. /\ Head(q) \in S /\ Tail(q) \in Seq(S)
      /\ DOMAIN q = 1 .. Len(q)
      /\ DOMAIN Tail(q) = 1 .. Len(q) - 1
      /\ \A i \in 1 .. Len(q) - 1 : Tail(q)[i] = q[i + 1]
      /\ Head(q) = q[1]
      /\ Len(q) \in Nat \ {0}
  BY HeadTailProperties, EmptySeq
<1>2. Head(q) \in Range(q)
  BY <1>1 DEF Range
<1>3. Range(Tail(q)) \subseteq Range(q) \ {Head(q)}
  BY <1>1 DEF Range, IsInjective
<1>4. ASSUME NEW x \in Range(q) \ {Head(q)}
      PROVE  x \in Range(Tail(q))
  <2>1. PICK i \in 1 .. Len(q) : q[i] = x
    BY <1>1, <1>4 DEF Range
  <2>2. i # 1 /\ i - 1 \in 1 .. Len(q) - 1
    BY <1>1, <1>4, <2>1
  <2>3. Tail(q)[i - 1] = x
    BY <1>1, <2>1, <2>2
  <2> QED
    BY <1>1, <2>2, <2>3 DEF Range
<1>5. IsInjective(Tail(q))
  BY <1>1 DEF IsInjective
<1> QED
  BY <1>1, <1>2, <1>3, <1>4, <1>5

-------------------------------------------------------------------------------
(* All that was pushed: dealt with, in hand, waiting                       *)

\* A push adds one element at the end.
LEMMA AppendToPushed ==
  ASSUME NEW S, NEW f \in Seq(S), NEW t \in Seq(S), NEW q \in Seq(S), NEW p \in S
  PROVE  f \o t \o Append(q, p) = Append(f \o t \o q, p)
<1>1. f \o t \in Seq(S)
  BY ConcatProperties
<1>2. Append(q, p) = q \o <<p>> /\ <<p>> \in Seq(S)
  BY AppendIsConcat
<1>3. Append(f \o t \o q, p) = f \o t \o q \o <<p>>
  BY <1>1, AppendIsConcat, ConcatProperties
<1> QED
  BY <1>1, <1>2, <1>3, ConcatAssociative

\* A pop takes the first one in hand.
LEMMA HeadOfPushed ==
  ASSUME NEW S, NEW f \in Seq(S), NEW q \in Seq(S), q # <<>>
  PROVE  f \o <<>> \o q = f \o <<Head(q)>> \o Tail(q)
<1>1. q = <<Head(q)>> \o Tail(q) /\ Head(q) \in S /\ Tail(q) \in Seq(S)
  BY HeadTailProperties
<1>2. f \o <<>> = f
  BY ConcatEmptySeq
<1> QED
  BY <1>1, <1>2, ConcatAssociative

\* What was in hand has been dealt with.
LEMMA WrittenOfPushed ==
  ASSUME NEW S, NEW f \in Seq(S), NEW p \in S, NEW q \in Seq(S)
  PROVE  /\ (f \o <<p>>) \o <<>> \o q = f \o <<p>> \o q
         /\ Append(f, p) \o <<>> \o q = f \o <<p>> \o q
         /\ Len(f) < Len(f \o <<p>> \o q)
         /\ f \o <<p>> = Append(f, (f \o <<p>> \o q)[Len(f) + 1])
<1>1. <<p>> \in Seq(S) /\ f \o <<p>> \in Seq(S) /\ f \o <<p>> = Append(f, p)
  BY ConcatProperties, AppendIsConcat
<1>2. f \o <<p>> \o <<>> = f \o <<p>>
  BY <1>1, ConcatEmptySeq
<1>3. Len(f \o <<p>> \o q) = Len(f) + 1 + Len(q)
  BY <1>1, ConcatProperties
<1>4. (f \o <<p>> \o q)[Len(f) + 1] = p
  BY <1>1, ConcatProperties
<1> QED
  BY <1>1, <1>2, <1>3, <1>4, LenProperties

-------------------------------------------------------------------------------
(* Bytes that are moved from one sequence to the next                      *)

\* One sequence behind another, and the two parts of one: as operators, for lemmas
\* about them to be instantiated by the provers.
Cat(r, s)    == r \o s
FirstOf(u, n) == SubSeq(u, 1, n)
RestOf(u, n)  == SubSeq(u, n + 1, Len(u))

LEMMA Associative ==
  ASSUME NEW S
  PROVE  /\ \A r, s, t \in Seq(S) : (r \o s) \o t = r \o (s \o t)
         /\ \A r, s \in Seq(S) : r \o s \in Seq(S)
<1>1. \A r, s, t \in Seq(S) : (r \o s) \o t = r \o (s \o t)
  BY ConcatAssociative, Z3
<1> QED
  BY <1>1, ConcatProperties

\* Taking n elements from one sequence to the end of another changes nothing of the two.
LEMMA MovedBytes ==
  ASSUME NEW S
  PROVE  \A p, a, u, d \in Seq(S) : \A n \in 0 .. Len(u) :
           /\ FirstOf(u, n) \in Seq(S) /\ Len(FirstOf(u, n)) = n
           /\ RestOf(u, n) \in Seq(S) /\ Len(RestOf(u, n)) = Len(u) - n
           /\ n = Len(u) => FirstOf(u, n) = u
           /\ Cat(a, FirstOf(u, n)) \in Seq(S)
           /\ Len(Cat(a, FirstOf(u, n))) = Len(a) + n
           /\ Cat(Cat(a, FirstOf(u, n)), RestOf(u, n)) = Cat(a, u)
           /\ Cat(Cat(p, Cat(a, FirstOf(u, n))), RestOf(u, n)) = Cat(Cat(p, a), u)
           /\ Cat(Cat(p, Cat(a, FirstOf(u, n))), Cat(RestOf(u, n), d)) = Cat(Cat(p, a), Cat(u, d))
<1>1. /\ \A r, s, t \in Seq(S) : Cat(Cat(r, s), t) = Cat(r, Cat(s, t))
      /\ \A r, s \in Seq(S) : Cat(r, s) \in Seq(S)
  BY Associative DEF Cat
\* The end of one sequence or the beginning of the next: it is the same bytes.
<1>2. ASSUME NEW q \in Seq(S), NEW b \in Seq(S), NEW v \in Seq(S), NEW w \in Seq(S),
             NEW e \in Seq(S)
      PROVE  /\ Cat(Cat(b, v), w) = Cat(b, Cat(v, w))
             /\ Cat(Cat(q, Cat(b, v)), w) = Cat(Cat(q, b), Cat(v, w))
             /\ Cat(Cat(q, Cat(b, v)), Cat(w, e)) = Cat(Cat(q, b), Cat(Cat(v, w), e))
  <2> DEFINE r == Cat(q, b)
             s == Cat(w, e)
  <2>1. r \in Seq(S) /\ s \in Seq(S) /\ Cat(q, Cat(b, v)) = Cat(r, v)
    BY <1>1
  <2>2. Cat(Cat(v, w), e) = Cat(v, s) /\ Cat(Cat(b, v), w) = Cat(b, Cat(v, w))
    BY <1>1
  <2> HIDE DEF r, s
  <2>3. Cat(Cat(r, v), w) = Cat(r, Cat(v, w)) /\ Cat(Cat(r, v), s) = Cat(r, Cat(v, s))
    BY <1>1, <2>1
  <2> QED
    BY <2>1, <2>2, <2>3 DEF r, s
<1> TAKE p, a, u, d \in Seq(S)
<1> TAKE n \in 0 .. Len(u)
<1> DEFINE x == SubSeq(u, 1, n)
           y == SubSeq(u, n + 1, Len(u))
<1>3. Len(u) \in Nat /\ n \in Nat /\ n <= Len(u) /\ \A i \in 1 .. Len(u) : u[i] \in S
  BY ElementOfSeq
<1>4. x \in Seq(S) /\ Len(x) = n
  <2>1. \A i \in 1 .. n : u[i] \in S
    BY <1>3
  <2>2. x \in Seq(S) /\ Len(x) = IF 1 <= n THEN n - 1 + 1 ELSE 0
    BY <1>3, <2>1, SubSeqProperties
  <2> HIDE DEF x
  <2> QED
    BY <1>3, <2>2
<1>5. y \in Seq(S) /\ Len(y) = Len(u) - n
  <2>1. \A i \in n + 1 .. Len(u) : u[i] \in S
    BY <1>3
  <2>2. y \in Seq(S) /\ Len(y) = IF n + 1 <= Len(u) THEN Len(u) - (n + 1) + 1 ELSE 0
    BY <1>3, <2>1, SubSeqProperties
  <2> HIDE DEF y
  <2> QED
    BY <1>3, <2>2
<1>6. x \o y = u
  <2>1. 1 \in 1 .. Len(u) + 1 /\ n \in 1 - 1 .. Len(u) /\ Len(u) \in n .. Len(u)
    BY <1>3
  <2>2. x \o y = SubSeq(u, 1, Len(u))
    BY <2>1, ConcatAdjacentSubSeq
  <2>3. SubSeq(u, 1, Len(u)) = u
    BY SubSeqFull
  <2> QED
    BY <2>2, <2>3
<1>7. n = Len(u) => x = u
  BY SubSeqFull
<1> HIDE DEF x, y
<1>8. Cat(a, x) \in Seq(S) /\ Len(Cat(a, x)) = Len(a) + n
  BY <1>4, ConcatProperties DEF Cat
<1>9. /\ Cat(Cat(a, x), y) = Cat(a, u)
      /\ Cat(Cat(p, Cat(a, x)), y) = Cat(Cat(p, a), u)
      /\ Cat(Cat(p, Cat(a, x)), Cat(y, d)) = Cat(Cat(p, a), Cat(u, d))
  <2>1. Cat(x, y) = u
    BY <1>6 DEF Cat
  <2>2. /\ Cat(Cat(a, x), y) = Cat(a, Cat(x, y))
        /\ Cat(Cat(p, Cat(a, x)), y) = Cat(Cat(p, a), Cat(x, y))
        /\ Cat(Cat(p, Cat(a, x)), Cat(y, d)) = Cat(Cat(p, a), Cat(Cat(x, y), d))
    BY <1>2, <1>4, <1>5
  <2> QED
    BY <2>1, <2>2
<1> QED
  BY <1>4, <1>5, <1>7, <1>8, <1>9 DEF x, y, FirstOf, RestOf
===============================================================================
