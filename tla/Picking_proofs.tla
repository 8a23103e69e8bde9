---------------------------- MODULE Picking_proofs ----------------------------
(* Induction over the naturals for a set instead of a predicate, which the    *)
(* provers can use, and with it what Picked computes for every sequence.      *)
EXTENDS Picking, Integers, SequenceTheorems, WellFoundedInduction, TLAPS

-----------------------------------------------------------------------------
(* Induction.                                                                 *)

LEMMA Smallest ==
  ASSUME NEW T \in SUBSET Nat, T # {}
  PROVE  \E x \in T : \A y \in T : x <= y
<1> DEFINE Below == {pair \in Nat \X Nat : pair[1] < pair[2]}
<1>1. IsWellFoundedOn(Below, Nat)
  BY NatLessThanWellFounded DEF OpToRel
<1> HIDE DEF Below
<1>2. PICK x \in T : \A y \in T : <<y, x>> \notin Below
  BY <1>1, WFMin
<1>3. ASSUME NEW y \in T PROVE x <= y
  <2>1. x \in Nat /\ y \in Nat
    OBVIOUS
  <2>2. <<y, x>> \in Nat \X Nat /\ <<y, x>>[1] = y /\ <<y, x>>[2] = x
    BY <2>1
  <2>3. ~(y < x)
    BY <1>2, <2>2 DEF Below
  <2> QED
    BY <2>1, <2>3
<1> QED
  BY <1>3

LEMMA SetInduction ==
  ASSUME NEW T \in SUBSET Nat, 0 \in T, \A n \in T : n + 1 \in T
  PROVE  T = Nat
<1>1. SUFFICES ASSUME Nat \ T # {} PROVE FALSE
  OBVIOUS
<1>2. PICK x \in Nat \ T : \A y \in Nat \ T : x <= y
  BY <1>1, Smallest
<1>3. x # 0 /\ x - 1 \in Nat
  BY <1>2
<1>4. x - 1 \in T /\ x - 1 + 1 = x
  BY <1>2, <1>3
<1> QED
  BY <1>2, <1>4

-----------------------------------------------------------------------------

(* What Picked picks.                                                         *)

Grows(f, seq, wanted, m) ==
  f = [n \in 0 .. m |->
        IF n = 0 THEN <<>>
        ELSE IF seq[n] \in wanted THEN Append(f[n - 1], seq[n])
        ELSE f[n - 1]]

LEMMA GrowsExists ==
  ASSUME NEW seq, NEW wanted, NEW m \in Nat
  PROVE  \E f : Grows(f, seq, wanted, m)
<1> DEFINE T == {k \in Nat : \E f : Grows(f, seq, wanted, k)}
<1>1. 0 \in T
  <2> DEFINE g == [n \in 0 .. 0 |-> <<>>]
  <2>1. Grows(g, seq, wanted, 0)
    BY DEF Grows
  <2> QED
    BY <2>1
<1>2. ASSUME NEW k \in T PROVE k + 1 \in T
  <2>1. PICK g : Grows(g, seq, wanted, k)
    OBVIOUS
  <2> DEFINE top == IF seq[k + 1] \in wanted THEN Append(g[k], seq[k + 1]) ELSE g[k]
             h == [n \in 0 .. k + 1 |-> IF n = k + 1 THEN top ELSE g[n]]
             step(n) == IF n = 0 THEN <<>>
                        ELSE IF seq[n] \in wanted THEN Append(h[n - 1], seq[n])
                        ELSE h[n - 1]
  <2>2. ASSUME NEW n \in 0 .. k + 1 PROVE h[n] = step(n)
    <3>1. CASE n = k + 1
      <4>1. n # 0 /\ n - 1 = k /\ h[n] = top /\ h[k] = g[k]
        BY <3>1
      <4> QED
        BY <4>1, <3>1
    <3>2. CASE n = 0
      BY <3>2, <2>1 DEF Grows
    <3>3. CASE n # k + 1 /\ n # 0
      <4>1. n \in 0 .. k /\ n - 1 \in 0 .. k /\ n # k + 1 /\ n - 1 # k + 1
        BY <3>3
      <4>2. h[n] = g[n] /\ h[n - 1] = g[n - 1]
        BY <4>1
      <4>3. g[n] = IF seq[n] \in wanted THEN Append(g[n - 1], seq[n]) ELSE g[n - 1]
        BY <2>1, <4>1, <3>3 DEF Grows
      <4> HIDE DEF h
      <4> QED
        BY <4>2, <4>3, <3>3
    <3> QED
      BY <3>1, <3>2, <3>3
  <2>3. h = [n \in 0 .. k + 1 |-> step(n)]
    <3>1. h = [n \in 0 .. k + 1 |-> h[n]]
      OBVIOUS
    <3> HIDE DEF h
    <3> QED
      BY <3>1, <2>2
  <2>4. Grows(h, seq, wanted, k + 1)
    <3> HIDE DEF h
    <3> QED
      BY <2>3 DEF Grows
  <2> HIDE DEF h
  <2> QED
    BY <2>4
<1>3. T = Nat
  <2> HIDE DEF T
  <2>1. T \in SUBSET Nat
    BY DEF T
  <2> QED
    BY <1>1, <1>2, <2>1, SetInduction
<1> QED
  BY <1>3

LEMMA PickedGrows ==
  ASSUME NEW seq, NEW wanted, Len(seq) \in Nat
  PROVE  \E f : Grows(f, seq, wanted, Len(seq)) /\ Picked(seq, wanted) = f[Len(seq)]
<1> DEFINE f == CHOOSE f : Grows(f, seq, wanted, Len(seq))
<1>1. Grows(f, seq, wanted, Len(seq))
  BY GrowsExists
<1>2. Picked(seq, wanted) = f[Len(seq)]
  BY DEF Picked, Grows
<1> QED
  BY <1>1, <1>2

\* `part` holds what is wanted of the first m elements: its i-th element is
\* the at[i]-th of seq, later ones come from later places, and none is missed.
PickedOf(seq, wanted, m, part, at) ==
  /\ at \in [1 .. Len(part) -> 1 .. m]
  /\ \A i \in 1 .. Len(part) : part[i] = seq[at[i]] /\ part[i] \in wanted
  /\ \A i, j \in 1 .. Len(part) : i < j => at[i] < at[j]
  /\ \A k \in 1 .. m : seq[k] \in wanted => \E i \in 1 .. Len(part) : at[i] = k

PickedAt(seq, wanted, part, at) == PickedOf(seq, wanted, Len(seq), part, at)

\* Picked keeps exactly the wanted elements, in their order, for every list.
THEOREM PickedProperties ==
  ASSUME NEW S, NEW seq \in Seq(S), NEW wanted
  PROVE  /\ Picked(seq, wanted) \in Seq(S)
         /\ \E at : PickedAt(seq, wanted, Picked(seq, wanted), at)
<1>0. Len(seq) \in Nat /\ DOMAIN seq = 1 .. Len(seq)
  BY LenProperties
<1>1. PICK f : Grows(f, seq, wanted, Len(seq)) /\ Picked(seq, wanted) = f[Len(seq)]
  BY <1>0, PickedGrows
<1> DEFINE Good(n) == f[n] \in Seq(S) /\ \E at : PickedOf(seq, wanted, n, f[n], at)
           T == {n \in Nat : n <= Len(seq) => Good(n)}
<1>2. 0 \in T
  <2>1. f[0] = <<>>
    BY <1>0, <1>1 DEF Grows
  <2> DEFINE none == [i \in 1 .. 0 |-> 0]
  <2>2. PickedOf(seq, wanted, 0, <<>>, none)
    BY EmptySeq DEF PickedOf
  <2> HIDE DEF none
  <2>3. <<>> \in Seq(S)
    BY EmptySeq
  <2> QED
    BY <2>1, <2>2, <2>3
<1>3. ASSUME NEW n \in T PROVE n + 1 \in T
  <2>1. SUFFICES ASSUME n + 1 <= Len(seq) PROVE Good(n + 1)
    OBVIOUS
  <2> DEFINE x == seq[n + 1]
             part == f[n]
  <2>2. part \in Seq(S) /\ \E at : PickedOf(seq, wanted, n, part, at)
    BY <2>1, <1>0
  <2>3. PICK at : PickedOf(seq, wanted, n, part, at)
    BY <2>2
  <2>4. f[n + 1] = IF x \in wanted THEN Append(part, x) ELSE part
    <3>1. n + 1 \in 0 .. Len(seq) /\ n + 1 # 0 /\ n + 1 - 1 = n
      BY <2>1, <1>0
    <3>2. \A k \in 0 .. Len(seq) :
            f[k] = IF k = 0 THEN <<>>
                   ELSE IF seq[k] \in wanted THEN Append(f[k - 1], seq[k])
                   ELSE f[k - 1]
      BY <1>1 DEF Grows
    <3>3. f[n + 1] = IF seq[n + 1] \in wanted
                     THEN Append(f[n + 1 - 1], seq[n + 1]) ELSE f[n + 1 - 1]
      BY <3>1, <3>2
    <3> QED
      BY <3>1, <3>3
  <2>5. x \in S
    BY <1>0, <2>1, ElementOfSeq
  <2>6. Len(part) \in Nat /\ n \in Nat
    BY <2>2, LenProperties
  <2> HIDE DEF part, T
  <2>7. CASE x \notin wanted
    <3>1. PickedOf(seq, wanted, n + 1, part, at)
      <4>1. at \in [1 .. Len(part) -> 1 .. n + 1]
        BY <2>3, <2>6 DEF PickedOf
      <4>2. \A k \in 1 .. n + 1 : seq[k] \in wanted => k \in 1 .. n
        BY <2>6, <2>7
      <4> QED
        BY <2>3, <4>1, <4>2 DEF PickedOf
    <3> QED
      BY <2>2, <2>4, <2>7, <3>1
  <2>8. CASE x \in wanted
    <3> DEFINE more == Append(part, x)
               to == [i \in 1 .. Len(part) + 1 |-> IF i = Len(part) + 1 THEN n + 1 ELSE at[i]]
    <3>1. /\ more \in Seq(S) /\ Len(more) = Len(part) + 1
          /\ \A i \in 1 .. Len(part) : more[i] = part[i]
          /\ more[Len(part) + 1] = x
      BY <2>2, <2>5, AppendProperties
    <3>2. \A i \in 1 .. Len(part) : to[i] = at[i] /\ at[i] \in 1 .. n
      BY <2>3, <2>6 DEF PickedOf
    <3>3. to[Len(part) + 1] = n + 1
      BY <2>6
    <3>4. \A i \in 1 .. Len(part) + 1 : i \in 1 .. Len(part) \/ i = Len(part) + 1
      BY <2>6
    <3>5. to \in [1 .. Len(part) + 1 -> 1 .. n + 1]
      <4>1. \A i \in 1 .. Len(part) + 1 : to[i] \in 1 .. n + 1
        <5> HIDE DEF to
        <5> QED
          BY <2>6, <3>2, <3>3, <3>4
      <4> QED
        BY <4>1
    <3> HIDE DEF more, to
    <3>6. \A i \in 1 .. Len(part) + 1 : more[i] = seq[to[i]] /\ more[i] \in wanted
      BY <2>3, <2>8, <3>1, <3>2, <3>3, <3>4 DEF PickedOf
    <3>7. \A i, j \in 1 .. Len(part) + 1 : i < j => to[i] < to[j]
      <4>1. SUFFICES ASSUME NEW i \in 1 .. Len(part) + 1, NEW j \in 1 .. Len(part) + 1, i < j
                     PROVE  to[i] < to[j]
        OBVIOUS
      <4>2. i \in 1 .. Len(part)
        BY <2>6, <4>1
      <4>3. CASE j \in 1 .. Len(part)
        BY <2>3, <3>2, <4>1, <4>2, <4>3 DEF PickedOf
      <4>4. CASE j = Len(part) + 1
        BY <2>6, <3>2, <3>3, <4>2, <4>4
      <4> QED
        BY <3>4, <4>3, <4>4
    <3>8. \A k \in 1 .. n + 1 : seq[k] \in wanted => \E i \in 1 .. Len(part) + 1 : to[i] = k
      <4>1. SUFFICES ASSUME NEW k \in 1 .. n + 1, seq[k] \in wanted
                     PROVE  \E i \in 1 .. Len(part) + 1 : to[i] = k
        OBVIOUS
      <4>2. CASE k = n + 1
        BY <2>6, <3>3, <4>2
      <4>3. CASE k # n + 1
        <5>1. PICK i \in 1 .. Len(part) : at[i] = k
          BY <2>3, <2>6, <4>1, <4>3 DEF PickedOf
        <5> QED
          BY <2>6, <3>2, <5>1
      <4> QED
        BY <4>2, <4>3
    <3>9. PickedOf(seq, wanted, n + 1, more, to)
      BY <3>1, <3>5, <3>6, <3>7, <3>8 DEF PickedOf
    <3> QED
      BY <2>4, <2>8, <3>1, <3>9 DEF more
  <2> QED
    BY <2>7, <2>8
<1>4. T = Nat
  <2> HIDE DEF T
  <2>1. T \in SUBSET Nat
    BY DEF T
  <2> QED
    BY <1>2, <1>3, <2>1, SetInduction
<1>5. Good(Len(seq))
  <2> HIDE DEF Good
  <2> QED
    BY <1>0, <1>4
<1> QED
  BY <1>1, <1>5 DEF PickedAt
=============================================================================
