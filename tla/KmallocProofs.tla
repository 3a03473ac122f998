--------------------------- MODULE KmallocProofs ---------------------------
(***************************************************************************)
(* The safety properties of Kmalloc, for every set of pages, page, header  *)
(* and split size and every set of requests.                               *)
(***************************************************************************)
EXTENDS Kmalloc, SequenceTheorems, WellFoundedInduction, TLAPS

USE SMTT(30), ZenonT(30)

\* A non-empty set of naturals has a least element.
LEMMA LeastNatural ==
  ASSUME NEW T \in SUBSET Nat, T # {}
  PROVE  \E n \in T : \A m \in T : n <= m
<1>1. \E n \in T : \A m \in T : ~(<<m, n>> \in OpToRel(<, Nat))
  BY NatLessThanWellFounded, WFMin, Zenon
<1>2. PICK n \in T : \A m \in T : ~(<<m, n>> \in OpToRel(<, Nat))
  BY <1>1, Zenon
<1>3. ASSUME NEW m \in T PROVE n <= m
  <2>1. ~(m < n)
    BY <1>2, Zenon DEF OpToRel
  <2>2. QED BY <2>1
<1>4. QED BY <1>3

Block == [addr : Nat, size : Nat, free : BOOLEAN]

\* The blocks of a list lie one behind the other.
Sorted(h) == \A i, j \in DOMAIN h : i < j => End(h[i]) <= h[j].addr

LEMMA Sizes ==
  /\ BLOCK_HEADER_SIZE \in Nat /\ BLOCK_HEADER_SIZE > 0 /\ MIN_SPLIT_SIZE \in Nat
  /\ PAGE_SIZE \in Nat /\ PAGE_SIZE > BLOCK_HEADER_SIZE
BY HeapAssumption

LEMMA EndFacts ==
  ASSUME NEW b \in Block
  PROVE  b.addr \in Nat /\ b.size \in Nat /\ End(b) \in Nat /\ b.addr < End(b)
BY HeapAssumption DEF Block, End

----------------------------------------------------------------------------
(* coalesce *)

\* Where a block of acc ends and the next one begins, one of the first m blocks
\* of h ends and the next one begins.
Linked(acc, h, m) ==
  \A i \in 1..(Len(acc) - 1) :
    \E k \in 1..m : End(acc[i]) = End(h[k]) /\ acc[i + 1].addr = h[k + 1].addr

\* No two neighbours can be merged.
Settled(acc) == \A i \in 1..(Len(acc) - 1) : ~Mergeable(acc[i], acc[i + 1])

\* The used ones of the first n blocks of h are blocks of acc.
UsedKept(acc, h, n) == \A j \in 1..n : ~h[j].free => \E i \in DOMAIN acc : acc[i] = h[j]

\* A block of acc is one of the first n blocks of h, longer at most if it is free.
Stems(b, c) ==
  /\ b.addr = c.addr /\ b.free = c.free /\ b.size >= c.size
  /\ ~b.free => b = c

AllStem(acc, h, n) == \A i \in DOMAIN acc : \E j \in 1..n : Stems(acc[i], h[j])

\* The list acc is what the pass has made of the first n blocks of h.
Passed(acc, h, n) ==
  /\ acc \in Seq(Block) /\ Len(acc) >= 1
  /\ Sorted(acc)
  /\ acc[1].addr = h[1].addr
  /\ End(acc[Len(acc)]) = End(h[n]) /\ acc[Len(acc)].free = h[n].free
  /\ Linked(acc, h, n - 1)
  /\ Settled(acc)
  /\ UsedKept(acc, h, n)
  /\ AllStem(acc, h, n)

LEMMA PassFirst ==
  ASSUME NEW h \in Seq(Block), Len(h) >= 1
  PROVE  Passed(Absorb(<<>>, h[1]), h, 1)
<1>1. h[1] \in Block
  OBVIOUS
<1>2. PICK acc : acc = Append(<<>>, h[1])
  BY Zenon
<1>3. acc \in Seq(Block) /\ Len(acc) = 1 /\ acc[1] = h[1] /\ DOMAIN acc = {1}
  BY <1>1, <1>2
<1>4. Absorb(<<>>, h[1]) = acc
  BY <1>2, Zenon DEF Absorb
<1>5. h[1].size \in Nat
  BY <1>1 DEF Block
<1>6. Passed(acc, h, 1)
  BY <1>1, <1>3, <1>5 DEF Passed, Sorted, Linked, Settled, UsedKept, AllStem, Stems
<1> QED BY <1>4, <1>6

LEMMA PassAppend ==
  ASSUME NEW h \in Seq(Block), Sorted(h), NEW n \in 1..(Len(h) - 1), NEW acc, Passed(acc, h, n),
         ~Mergeable(acc[Len(acc)], h[n + 1])
  PROVE  Passed(Append(acc, h[n + 1]), h, n + 1)
<1> DEFINE l == Len(acc)
           b == h[n + 1]
<1>1. PICK new : new = Append(acc, b)
  BY Zenon
<1>2. b \in Block /\ h[n] \in Block /\ n \in DOMAIN h /\ n + 1 \in DOMAIN h
  OBVIOUS
<1>3. acc \in Seq(Block) /\ l \in Nat /\ l >= 1
  BY DEF Passed
<1>4. /\ new \in Seq(Block) /\ Len(new) = l + 1
      /\ \A i \in 1..l : new[i] = acc[i]
      /\ new[l + 1] = b /\ DOMAIN new = 1..(l + 1) /\ DOMAIN acc = 1..l
  BY <1>1, <1>2, <1>3
<1> HIDE DEF l, b
<1>5. Sorted(new)
  <2>1. End(h[n]) <= b.addr
    BY <1>2 DEF Sorted, b
  <2>2. ASSUME NEW i \in 1..l PROVE End(acc[i]) <= End(h[n])
    <3>1. acc[i] \in Block /\ acc[l] \in Block
      BY <1>3, <1>4
    <3>2. i = l \/ End(acc[i]) <= acc[l].addr
      <4>1. i # l => i \in DOMAIN acc /\ l \in DOMAIN acc /\ i < l
        BY <1>3, <1>4
      <4>2. Sorted(acc)
        BY Zenon DEF Passed
      <4> QED BY <4>1, <4>2, Zenon DEF Sorted
    <3>3. End(acc[l]) = End(h[n])
      BY DEF Passed, l
    <3> QED BY <1>2, <3>1, <3>2, <3>3, EndFacts
  <2>3. ASSUME NEW i \in 1..l PROVE End(acc[i]) <= b.addr
    <3>1. acc[i] \in Block
      BY <1>3, <1>4
    <3>2. End(acc[i]) \in Nat /\ End(h[n]) \in Nat /\ b.addr \in Nat
      BY <1>2, <3>1, EndFacts, Zenon
    <3> QED BY <2>1, <2>2, <3>2
  <2>4. \A i, j \in 1..l : i < j => End(acc[i]) <= acc[j].addr
    <3>1. Sorted(acc)
      BY Zenon DEF Passed
    <3> QED BY <1>4, <3>1, Zenon DEF Sorted
  <2> QED BY <1>3, <1>4, <2>3, <2>4 DEF Sorted
<1>6. new[1].addr = h[1].addr
  BY <1>3, <1>4 DEF Passed
<1>7. Linked(new, h, n)
  <2> SUFFICES ASSUME NEW i \in 1..l
               PROVE  \E k \in 1..n : End(new[i]) = End(h[k]) /\ new[i + 1].addr = h[k + 1].addr
    BY <1>3, <1>4 DEF Linked
  <2>1. CASE i = l
    BY <1>3, <1>4, <2>1 DEF Passed, l, b
  <2>2. CASE i # l
    <3>1. PICK k \in 1..(n - 1) : End(acc[i]) = End(h[k]) /\ acc[i + 1].addr = h[k + 1].addr
      <4>1. i \in 1..(Len(acc) - 1)
        BY <1>3, <2>2 DEF l
      <4> QED BY <4>1, Zenon DEF Passed, Linked
    <3> QED BY <1>3, <1>4, <2>2, <3>1
  <2> QED BY <2>1, <2>2
<1>8. Settled(new)
  <2> SUFFICES ASSUME NEW i \in 1..l PROVE ~Mergeable(new[i], new[i + 1])
    BY <1>3, <1>4 DEF Settled
  <2>1. CASE i = l
    BY <1>3, <1>4, <2>1 DEF l, b
  <2>2. CASE i # l
    <3>1. i \in 1..(Len(acc) - 1) /\ i + 1 \in 1..l
      BY <1>3, <2>2 DEF l
    <3> QED BY <1>4, <3>1 DEF Passed, Settled
  <2> QED BY <2>1, <2>2
<1>9. UsedKept(new, h, n + 1)
  <2> SUFFICES ASSUME NEW j \in 1..(n + 1), ~h[j].free
               PROVE  \E i \in DOMAIN new : new[i] = h[j]
    BY DEF UsedKept
  <2>1. CASE j = n + 1
    BY <1>3, <1>4, <2>1 DEF b
  <2>2. CASE j # n + 1
    <3>1. j \in 1..n
      BY <2>2
    <3>2. PICK i \in DOMAIN acc : acc[i] = h[j]
      BY <3>1 DEF Passed, UsedKept
    <3> QED BY <1>3, <1>4, <3>2
  <2> QED BY <2>1, <2>2
<1>10. AllStem(new, h, n + 1)
  <2> SUFFICES ASSUME NEW i \in 1..(l + 1)
               PROVE  \E j \in 1..(n + 1) : Stems(new[i], h[j])
    BY <1>4 DEF AllStem
  <2>1. CASE i = l + 1
    <3>1. n + 1 \in 1..(n + 1) /\ new[i] = h[n + 1] /\ new[i].size >= h[n + 1].size
      BY <1>2, <1>4, <2>1 DEF b, Block
    <3> QED BY <3>1 DEF Stems
  <2>2. CASE i # l + 1
    <3>1. i \in DOMAIN acc /\ new[i] = acc[i]
      BY <1>3, <1>4, <2>2
    <3>2. PICK j \in 1..n : Stems(acc[i], h[j])
      BY <3>1, Zenon DEF Passed, AllStem
    <3>3. j \in 1..(n + 1)
      OBVIOUS
    <3> QED BY <3>1, <3>2, <3>3, Zenon
  <2> QED BY <2>1, <2>2
<1>11. (n + 1) - 1 = n /\ new \in Seq(Block) /\ Len(new) >= 1
  BY <1>3, <1>4
<1>12. End(new[Len(new)]) = End(h[n + 1]) /\ new[Len(new)].free = h[n + 1].free
  BY <1>4 DEF b
<1>13. Passed(new, h, n + 1)
  BY <1>5, <1>6, <1>7, <1>8, <1>9, <1>10, <1>11, <1>12 DEF Passed
<1> QED BY <1>1, <1>13 DEF b

LEMMA PassMerge ==
  ASSUME NEW h \in Seq(Block), Sorted(h), NEW n \in 1..(Len(h) - 1), NEW acc, Passed(acc, h, n),
         Mergeable(acc[Len(acc)], h[n + 1])
  PROVE  Passed([acc EXCEPT ![Len(acc)].size = @ + BLOCK_HEADER_SIZE + h[n + 1].size], h, n + 1)
<1> DEFINE l == Len(acc)
           b == h[n + 1]
<1>1. PICK new : new = [acc EXCEPT ![l].size = @ + BLOCK_HEADER_SIZE + b.size]
  BY Zenon
<1>2. b \in Block /\ h[n] \in Block /\ n \in DOMAIN h /\ n + 1 \in DOMAIN h
  OBVIOUS
<1>3. acc \in Seq(Block) /\ l \in Nat /\ l >= 1 /\ DOMAIN acc = 1..l /\ acc[l] \in Block
  BY DEF Passed
<1>4. acc[l].free /\ b.free /\ End(acc[l]) = b.addr
  BY DEF Mergeable
<1> HIDE DEF l, b
<1>5. PICK grown \in Nat : grown = acc[l].size + BLOCK_HEADER_SIZE + b.size /\ grown >= acc[l].size
  <2>1. acc[l].size \in Nat /\ b.size \in Nat
    BY <1>2, <1>3, EndFacts, Zenon
  <2>2. PICK x \in Nat, y \in Nat : x = acc[l].size /\ y = b.size
    BY <2>1
  <2>3. x + BLOCK_HEADER_SIZE + y \in Nat /\ x + BLOCK_HEADER_SIZE + y >= x
    BY Sizes
  <2> QED BY <2>2, <2>3, Zenon
<1>6. PICK last : last = [acc[l] EXCEPT !.size = grown]
  BY Zenon
<1>7. last \in Block /\ last.addr = acc[l].addr /\ last.size = grown /\ last.free = acc[l].free
  BY <1>3, <1>5, <1>6, Zenon DEF Block
<1>8. new = [acc EXCEPT ![l] = last]
  BY <1>1, <1>5, <1>6, Zenon
<1>9. /\ new \in Seq(Block) /\ Len(new) = l /\ DOMAIN new = 1..l /\ new[l] = last
      /\ \A i \in 1..l : i # l => new[i] = acc[i]
  BY <1>3, <1>7, <1>8 DEF l
<1>10. End(last) = End(b)
  <2>1. /\ acc[l].addr \in Nat /\ acc[l].size \in Nat /\ b.size \in Nat
        /\ End(acc[l]) = acc[l].addr + BLOCK_HEADER_SIZE + acc[l].size
        /\ End(last) = acc[l].addr + BLOCK_HEADER_SIZE + grown
        /\ End(b) = b.addr + BLOCK_HEADER_SIZE + b.size
    BY <1>2, <1>3, <1>7, EndFacts, Zenon DEF End
  <2>2. PICK x \in Nat, y \in Nat, z \in Nat : x = acc[l].addr /\ y = acc[l].size /\ z = b.size
    BY <2>1
  <2>3. End(last) = x + BLOCK_HEADER_SIZE + (y + BLOCK_HEADER_SIZE + z)
    BY <1>5, <2>1, <2>2, Zenon
  <2>4. End(b) = (x + BLOCK_HEADER_SIZE + y) + BLOCK_HEADER_SIZE + z
    BY <1>4, <2>1, <2>2, Zenon
  <2> QED BY <2>3, <2>4, Sizes
<1>11. \A i \in 1..l : new[i].addr = acc[i].addr /\ new[i].free = acc[i].free
  BY <1>7, <1>9
<1>12. Sorted(new)
  <2> SUFFICES ASSUME NEW i \in 1..l, NEW j \in 1..l, i < j PROVE End(new[i]) <= new[j].addr
    BY <1>9 DEF Sorted
  <2>1. End(acc[i]) <= acc[j].addr
    BY <1>3 DEF Passed, Sorted
  <2>2. new[i] = acc[i]
    BY <1>3, <1>9
  <2> QED BY <1>11, <2>1, <2>2
<1>13. new[1].addr = h[1].addr
  BY <1>3, <1>11 DEF Passed
<1>14. Linked(new, h, n)
  <2> SUFFICES ASSUME NEW i \in 1..(l - 1)
               PROVE  \E k \in 1..n : End(new[i]) = End(h[k]) /\ new[i + 1].addr = h[k + 1].addr
    BY <1>3, <1>9, Zenon DEF Linked
  <2>1. PICK k \in 1..(n - 1) : End(acc[i]) = End(h[k]) /\ acc[i + 1].addr = h[k + 1].addr
    BY <1>3, Zenon DEF Passed, Linked, l
  <2>2. i \in 1..l /\ i + 1 \in 1..l /\ i # l /\ k \in 1..n
    BY <1>3
  <2>3. End(new[i]) = End(h[k]) /\ new[i + 1].addr = h[k + 1].addr
    BY <1>9, <1>11, <2>1, <2>2, Zenon
  <2> QED BY <2>2, <2>3, Zenon
<1>15. Settled(new)
  <2> SUFFICES ASSUME NEW i \in 1..(l - 1) PROVE ~Mergeable(new[i], new[i + 1])
    BY <1>3, <1>9 DEF Settled
  <2>1. ~Mergeable(acc[i], acc[i + 1])
    BY Zenon DEF Passed, Settled, l
  <2>2. i \in 1..l /\ i + 1 \in 1..l /\ i # l
    BY <1>3
  <2>3. /\ new[i] = acc[i] /\ new[i + 1].addr = acc[i + 1].addr
        /\ new[i + 1].free = acc[i + 1].free
    BY <1>9, <1>11, <2>2, Zenon
  <2> QED BY <2>1, <2>3, Zenon DEF Mergeable
<1>16. UsedKept(new, h, n + 1)
  <2> SUFFICES ASSUME NEW j \in 1..(n + 1), ~h[j].free
               PROVE  \E i \in DOMAIN new : new[i] = h[j]
    BY DEF UsedKept
  <2>1. j # n + 1
    BY <1>4 DEF b
  <2>2. j \in 1..n
    BY <2>1
  <2>3. PICK i \in DOMAIN acc : acc[i] = h[j]
    BY <2>2, Zenon DEF Passed, UsedKept
  <2>4. i # l
    BY <1>4, <2>3, Zenon
  <2> QED BY <1>3, <1>9, <2>3, <2>4, Zenon
<1>17. AllStem(new, h, n + 1)
  <2> SUFFICES ASSUME NEW i \in 1..l PROVE \E j \in 1..(n + 1) : Stems(new[i], h[j])
    BY <1>9 DEF AllStem
  <2>1. PICK j \in 1..n : Stems(acc[i], h[j])
    BY <1>3, Zenon DEF Passed, AllStem
  <2>2. j \in 1..(n + 1) /\ j \in DOMAIN h
    OBVIOUS
  <2>3. CASE i # l
    BY <1>9, <2>1, <2>2, <2>3, Zenon
  <2>4. CASE i = l
    <3>1. last.addr = h[j].addr /\ last.free = h[j].free /\ last.free
      BY <1>4, <1>7, <2>1, <2>4, Zenon DEF Stems
    <3>2. last.size >= h[j].size
      <4>1. h[j].size \in Nat /\ acc[l].size \in Nat
        <5>1. h[j] \in Block
          BY <2>2
        <5> QED BY <1>3, <5>1, EndFacts, Zenon
      <4>2. acc[l].size >= h[j].size
        BY <2>1, <2>4, Zenon DEF Stems
      <4> QED BY <1>5, <1>7, <4>1, <4>2
    <3>3. Stems(last, h[j])
      BY <3>1, <3>2, Zenon DEF Stems
    <3> QED BY <1>9, <2>2, <2>4, <3>3, Zenon
  <2> QED BY <2>3, <2>4
<1>18. (n + 1) - 1 = n /\ Len(new) >= 1
  BY <1>3, <1>9
<1>19. End(new[Len(new)]) = End(h[n + 1]) /\ new[Len(new)].free = h[n + 1].free
  BY <1>4, <1>7, <1>9, <1>10, Zenon DEF b
<1>20. Passed(new, h, n + 1)
  BY <1>9, <1>12, <1>13, <1>14, <1>15, <1>16, <1>17, <1>18, <1>19 DEF Passed
<1> QED BY <1>1, <1>20 DEF b, l

LEMMA PassNext ==
  ASSUME NEW h \in Seq(Block), Sorted(h), NEW n \in 1..(Len(h) - 1), NEW acc, Passed(acc, h, n)
  PROVE  Passed(Absorb(acc, h[n + 1]), h, n + 1)
<1>1. acc # <<>>
  BY DEF Passed
<1>2. CASE Mergeable(acc[Len(acc)], h[n + 1])
  <2>1. Absorb(acc, h[n + 1])
          = [acc EXCEPT ![Len(acc)].size = @ + BLOCK_HEADER_SIZE + h[n + 1].size]
    BY <1>1, <1>2, Zenon DEF Absorb
  <2>2. Passed([acc EXCEPT ![Len(acc)].size = @ + BLOCK_HEADER_SIZE + h[n + 1].size], h, n + 1)
    BY <1>2, PassMerge
  <2> QED BY <2>1, <2>2
<1>3. CASE ~Mergeable(acc[Len(acc)], h[n + 1])
  <2>1. Absorb(acc, h[n + 1]) = Append(acc, h[n + 1])
    BY <1>1, <1>3, Zenon DEF Absorb
  <2> QED BY <1>3, <2>1, PassAppend, Zenon
<1> QED BY <1>2, <1>3

\* f is the pass over the first m blocks of h.
IsPass(f, h, m) == f = [n \in 0..m |-> IF n = 0 THEN <<>> ELSE Absorb(f[n - 1], h[n])]

LEMMA PassExists ==
  ASSUME NEW h, NEW N \in Nat
  PROVE  \E f : IsPass(f, h, N)
<1> DEFINE T == {m \in Nat : ~\E f : IsPass(f, h, m)}
<1> SUFFICES ASSUME T # {} PROVE FALSE
  OBVIOUS
<1>1. PICK m \in T : \A o \in T : m <= o
  BY LeastNatural, Zenon
<1>2. m # 0
  <2>1. IsPass([n \in 0..0 |-> <<>>], h, 0)
    BY DEF IsPass
  <2> QED BY <2>1
<1>3. m - 1 \in Nat /\ m - 1 \notin T
  BY <1>1, <1>2
<1>4. PICK f : IsPass(f, h, m - 1)
  BY <1>3
<1>5. PICK g : g = [n \in 0..m |-> IF n = m THEN Absorb(f[m - 1], h[m]) ELSE f[n]]
  BY Zenon
<1>6. \A n \in 0..m : g[n] = IF n = 0 THEN <<>> ELSE Absorb(g[n - 1], h[n])
  <2> TAKE n \in 0..m
  <2>1. \A i \in 0..(m - 1) : i # m /\ i \in 0..m
    BY <1>3
  <2>2. \A i \in 0..(m - 1) : g[i] = f[i]
    BY <1>5, <2>1
  <2>3. \A i \in 0..(m - 1) : f[i] = IF i = 0 THEN <<>> ELSE Absorb(f[i - 1], h[i])
    BY <1>4, Zenon DEF IsPass
  <2>4. CASE n = m
    BY <1>2, <1>3, <1>5, <2>2, <2>4
  <2>5. CASE n # m
    <3>1. n \in 0..(m - 1) /\ (n # 0 => n - 1 \in 0..(m - 1))
      BY <1>3, <2>5
    <3> QED BY <2>2, <2>3, <3>1
  <2> QED BY <2>4, <2>5
<1>7. IsPass(g, h, m)
  <2>1. g = [n \in 0..m |-> g[n]]
    BY <1>5
  <2> QED BY <1>6, <2>1 DEF IsPass
<1> QED BY <1>7

\* coalesce: what the whole pass leaves.
LEMMA CoalesceProperties ==
  ASSUME NEW h \in Seq(Block), Len(h) >= 1, Sorted(h)
  PROVE  Passed(Coalesce(h), h, Len(h))
<1>1. PICK N \in Nat : N = Len(h)
  OBVIOUS
<1>2. PICK f : f = CHOOSE g : IsPass(g, h, N)
  OBVIOUS
<1>3. IsPass(f, h, N)
  BY <1>2, PassExists, Zenon
<1>4. Coalesce(h) = f[N]
  BY <1>1, <1>2 DEF Coalesce, IsPass
<1>5. f[0] = <<>> /\ \A n \in 1..N : f[n] = Absorb(f[n - 1], h[n])
  BY <1>3 DEF IsPass
<1> DEFINE T == {m \in 1..N : ~Passed(f[m], h, m)}
<1>6. T = {}
  <2> SUFFICES ASSUME T # {} PROVE FALSE
    OBVIOUS
  <2>1. T \in SUBSET Nat
    OBVIOUS
  <2>2. PICK m \in T : \A o \in T : m <= o
    BY <2>1, LeastNatural, Zenon
  <2>3. m # 1
    BY <1>1, <1>5, <2>2, PassFirst
  <2>4. PICK n \in 1..(Len(h) - 1) : m = n + 1
    BY <1>1, <2>2, <2>3
  <2>5. n \in 1..N /\ n \notin T
    BY <1>1, <2>2, <2>4
  <2>6. Passed(f[n], h, n)
    BY <2>5
  <2>7. f[n + 1] = Absorb(f[n], h[n + 1])
    BY <1>1, <1>5
  <2> QED BY <2>2, <2>4, <2>6, <2>7, PassNext, Zenon
<1>7. N \in 1..N
  BY <1>1
<1> QED BY <1>1, <1>4, <1>6, <1>7

----------------------------------------------------------------------------
(* The inductive invariant *)

\* A block may begin at a if its predecessor ends at e.
Joined(e, a) ==
  \/ a = e
  \/ \E k \in 1..(Len(PageBases) - 1) : e = PageBases[k] + PAGE_SIZE /\ a = PageBases[k + 1]

Tiled(h) ==
  /\ h \in Seq(Block) /\ Len(h) >= 1
  /\ Sorted(h)
  /\ h[1].addr = PageBases[1]
  /\ End(h[Len(h)]) = PageBases[Len(PageBases)] + PAGE_SIZE
  /\ \A i \in 1..(Len(h) - 1) : Joined(End(h[i]), h[i + 1].addr)

Used(h) == {b \in Block : ~b.free /\ \E i \in DOMAIN h : h[i] = b}

\* Allocations and used blocks, one for one.
Owned(h, as) ==
  /\ \A a \in as : \E b \in Used(h) : b.addr + BLOCK_HEADER_SIZE = a.ptr /\ b.size >= a.size
  /\ \A b \in Used(h) : \E a \in as : a.ptr = b.addr + BLOCK_HEADER_SIZE
  /\ \A a, b \in as : a.ptr = b.ptr => a = b

\* A block at this address is free and large enough for n bytes.
Chosen(h, at, n) == \A i \in DOMAIN h : h[i].addr = at => h[i].free /\ h[i].size >= Align(n)

OnList(h, at) == \E i \in DOMAIN h : h[i].addr = at

IInv ==
  /\ Tiled(heap)
  /\ found \in Nat \cup {NoBlock} /\ asked \in Nat /\ absorbed \in BOOLEAN
  /\ found # NoBlock => Chosen(heap, found, asked) /\ (absorbed \/ OnList(heap, found))
  /\ absorbed \/ (Owned(heap, allocs) /\ ~panic)
  /\ absorbed => Settled(heap)

----------------------------------------------------------------------------
(* The operators on the list *)

\* No two blocks have the same address.
LEMMA OneBlock ==
  ASSUME NEW h \in Seq(Block), Sorted(h), NEW i \in DOMAIN h, NEW j \in DOMAIN h,
         h[i].addr = h[j].addr
  PROVE  i = j
<1>1. ASSUME NEW x \in DOMAIN h, NEW y \in DOMAIN h, x < y PROVE h[x].addr < h[y].addr
  <2>1. h[x] \in Block /\ h[y] \in Block
    OBVIOUS
  <2>2. End(h[x]) <= h[y].addr
    BY <1>1, Zenon DEF Sorted
  <2> QED BY <2>1, <2>2, EndFacts
<1>2. i \in Nat /\ j \in Nat /\ h[i] \in Block
  OBVIOUS
<1>3. h[i].addr \in Nat
  BY <1>2, EndFacts
<1>4. i < j \/ j < i \/ i = j
  BY <1>2
<1> QED BY <1>1, <1>3, <1>4

LEMMA PositionFacts ==
  ASSUME NEW h \in Seq(Block), NEW a
  PROVE  /\ Position(h, a) # 0 => Position(h, a) \in DOMAIN h /\ h[Position(h, a)].addr = a
         /\ Position(h, a) # 0 <=> OnList(h, a)
<1> DEFINE I == {i \in DOMAIN h : h[i].addr = a}
<1>1. Position(h, a) = IF I # {} THEN Min(I) ELSE 0
  BY DEF Position, First
<1>2. OnList(h, a) <=> I # {}
  BY DEF OnList
<1>3. ASSUME I # {} PROVE Min(I) \in I
  <2>1. I \in SUBSET Nat
    OBVIOUS
  <2>2. \E n \in I : \A m \in I : n <= m
    BY <1>3, <2>1, LeastNatural, Zenon
  <2> HIDE DEF I
  <2> QED BY <2>2 DEF Min
<1>4. \A i \in I : i # 0 /\ i \in DOMAIN h /\ h[i].addr = a
  OBVIOUS
<1> HIDE DEF I
<1> QED BY <1>1, <1>2, <1>3, <1>4

\* A block may be replaced by one at the same address that ends there too.
LEMMA ReplaceTiled ==
  ASSUME NEW h, Tiled(h), NEW i \in DOMAIN h, NEW b \in Block,
         b.addr = h[i].addr, End(b) = End(h[i])
  PROVE  Tiled([h EXCEPT ![i] = b])
<1>1. PICK g : g = [h EXCEPT ![i] = b]
  BY Zenon
<1>2. h \in Seq(Block) /\ Len(h) >= 1 /\ Len(h) \in Nat /\ DOMAIN h = 1..Len(h)
  BY DEF Tiled
<1>3. g \in Seq(Block) /\ Len(g) = Len(h) /\ DOMAIN g = DOMAIN h
  BY <1>1, <1>2
<1>4. \A j \in DOMAIN h : g[j].addr = h[j].addr /\ End(g[j]) = End(h[j])
  BY <1>1, <1>2
<1>5. Sorted(g)
  BY <1>3, <1>4, Zenon DEF Tiled, Sorted
<1>6. 1 \in DOMAIN h /\ Len(h) \in DOMAIN h /\ \A j \in 1..(Len(h) - 1) : j \in DOMAIN h /\ j + 1 \in DOMAIN h
  BY <1>2
<1>7. g[1].addr = PageBases[1] /\ End(g[Len(g)]) = PageBases[Len(PageBases)] + PAGE_SIZE
  BY <1>3, <1>4, <1>6, Zenon DEF Tiled
<1>8. \A j \in 1..(Len(g) - 1) : Joined(End(g[j]), g[j + 1].addr)
  BY <1>3, <1>4, <1>6, Zenon DEF Tiled
<1>9. Tiled(g)
  BY <1>2, <1>3, <1>5, <1>7, <1>8 DEF Tiled
<1> QED BY <1>1, <1>9

\* Setting or clearing the free flag.
LEMMA FlagTiled ==
  ASSUME NEW h, Tiled(h), NEW i \in DOMAIN h, NEW v \in BOOLEAN
  PROVE  /\ Tiled([h EXCEPT ![i].free = v])
         /\ [h EXCEPT ![i].free = v] = [h EXCEPT ![i] = [h[i] EXCEPT !.free = v]]
<1>1. PICK b : b = [h[i] EXCEPT !.free = v]
  BY Zenon
<1>2. h \in Seq(Block) /\ h[i] \in Block
  BY DEF Tiled
<1>3. b \in Block /\ b.addr = h[i].addr /\ b.size = h[i].size
  BY <1>1, <1>2 DEF Block
<1>4. End(b) = End(h[i])
  BY <1>3 DEF End
<1>5. Tiled([h EXCEPT ![i] = b])
  BY <1>3, <1>4, ReplaceTiled
<1>6. [h EXCEPT ![i].free = v] = [h EXCEPT ![i] = b]
  BY <1>1
<1> QED BY <1>1, <1>5, <1>6

\* A list coalesce has passed over tiles the pages again.
LEMMA CoalesceTiled ==
  ASSUME NEW h, Tiled(h)
  PROVE  Tiled(Coalesce(h))
<1>1. h \in Seq(Block) /\ Len(h) >= 1 /\ Sorted(h)
  BY DEF Tiled
<1>2. PICK g : g = Coalesce(h)
  OBVIOUS
<1>3. Passed(g, h, Len(h))
  BY <1>1, <1>2, CoalesceProperties
<1>4. g \in Seq(Block) /\ Len(g) >= 1 /\ Sorted(g)
  BY <1>3 DEF Passed
<1>5. g[1].addr = PageBases[1] /\ End(g[Len(g)]) = PageBases[Len(PageBases)] + PAGE_SIZE
  BY <1>3, Zenon DEF Passed, Tiled
<1>6. ASSUME NEW i \in 1..(Len(g) - 1) PROVE Joined(End(g[i]), g[i + 1].addr)
  <2>1. PICK k \in 1..(Len(h) - 1) : End(g[i]) = End(h[k]) /\ g[i + 1].addr = h[k + 1].addr
    BY <1>3, Zenon DEF Passed, Linked
  <2>2. Joined(End(h[k]), h[k + 1].addr)
    BY Zenon DEF Tiled
  <2> QED BY <2>1, <2>2
<1>7. Tiled(g)
  BY <1>4, <1>5, <1>6 DEF Tiled
<1> QED BY <1>2, <1>7

\* s is h with block i divided into b and c.
Divided(s, h, i, b, c) ==
  /\ s \in Seq(Block) /\ Len(s) = Len(h) + 1
  /\ \A j \in 1..(i - 1) : s[j] = h[j]
  /\ s[i] = b /\ s[i + 1] = c
  /\ \A j \in (i + 1)..Len(h) : s[j + 1] = h[j]

InsertAfter(s, i, c) == SubSeq(s, 1, i) \o <<c>> \o SubSeq(s, i + 1, Len(s))

\* A block behind one that is replaced.
LEMMA InsertDivides ==
  ASSUME NEW h \in Seq(Block), NEW i \in DOMAIN h, NEW b \in Block, NEW c \in Block
  PROVE  Divided(InsertAfter([h EXCEPT ![i] = b], i, c), h, i, b, c)
<1>1. PICK g : g = [h EXCEPT ![i] = b]
  BY Zenon
<1>2. /\ g \in Seq(Block) /\ Len(g) = Len(h) /\ Len(h) \in Nat /\ i \in 1..Len(h)
      /\ g[i] = b /\ \A j \in 1..Len(h) : j # i => g[j] = h[j]
  BY <1>1
<1>3. PICK l : l = SubSeq(g, 1, i)
  BY Zenon
<1>4. PICK u : u = SubSeq(g, i + 1, Len(g))
  BY Zenon
<1>5. l \in Seq(Block) /\ Len(l) = i /\ \A j \in 1..i : l[j] = g[j]
  BY <1>2, <1>3
<1>6. u \in Seq(Block) /\ Len(u) = Len(h) - i /\ \A j \in 1..(Len(h) - i) : u[j] = g[i + j]
  BY <1>2, <1>4
<1>7. PICK m : m = <<c>>
  BY Zenon
<1>8. m \in Seq(Block) /\ Len(m) = 1 /\ m[1] = c
  BY <1>7
<1>9. PICK lm : lm = l \o m
  BY Zenon
<1>10. /\ lm \in Seq(Block) /\ Len(lm) = Len(l) + Len(m)
       /\ \A j \in 1..(Len(l) + Len(m)) : lm[j] = IF j <= Len(l) THEN l[j] ELSE m[j - Len(l)]
  BY <1>5, <1>8, <1>9, ConcatProperties, Zenon
<1>11. PICK s : s = lm \o u
  BY Zenon
<1>12. /\ s \in Seq(Block) /\ Len(s) = Len(lm) + Len(u)
       /\ \A j \in 1..(Len(lm) + Len(u)) : s[j] = IF j <= Len(lm) THEN lm[j] ELSE u[j - Len(lm)]
  <2>1. lm \in Seq(Block) /\ u \in Seq(Block)
    BY <1>6, <1>10, Zenon
  <2> QED BY <1>11, <2>1, ConcatProperties, Zenon
<1>13. PICK n \in Nat : n = Len(h) /\ i \in 1..n
  BY <1>2
<1>14. /\ Len(l) = i /\ Len(m) = 1 /\ Len(lm) = i + 1 /\ Len(u) = n - i /\ Len(s) = n + 1
  <2>1. Len(l) = i /\ Len(m) = 1 /\ Len(u) = n - i
    BY <1>5, <1>6, <1>8, <1>13, Zenon
  <2>2. Len(lm) = Len(l) + Len(m) /\ Len(s) = Len(lm) + Len(u)
    BY <1>10, <1>12, Zenon
  <2> QED BY <1>13, <2>1, <2>2
<1>15. \A j \in 1..i : s[j] = g[j]
  <2> TAKE j \in 1..i
  <2>1. j \in 1..(i + 1) /\ j <= i /\ j \in 1..((i + 1) + (n - i)) /\ j <= i + 1
    BY <1>13
  <2>2. lm[j] = l[j] /\ s[j] = lm[j]
    BY <1>10, <1>12, <1>14, <2>1
  <2> QED BY <1>5, <2>2
<1>16. s[i + 1] = c
  <2>1. i + 1 \in 1..(i + 1) /\ ~(i + 1 <= i) /\ i + 1 \in 1..((i + 1) + (n - i)) /\ (i + 1) - i = 1
    BY <1>13
  <2>2. lm[i + 1] = m[1] /\ s[i + 1] = lm[i + 1]
    BY <1>10, <1>12, <1>14, <2>1
  <2> QED BY <1>8, <2>2
<1>17. \A j \in (i + 1)..Len(h) : s[j + 1] = h[j]
  <2> TAKE j \in (i + 1)..Len(h)
  <2>1. PICK k \in 1..(Len(h) - i) : j = i + k
    <3>1. j - i \in 1..(Len(h) - i) /\ j = i + (j - i)
      BY <1>13
    <3> QED BY <3>1, Zenon
  <2>2. /\ j + 1 \in 1..((i + 1) + (n - i)) /\ ~(j + 1 <= i + 1) /\ (j + 1) - (i + 1) = k
        /\ j \in 1..Len(h) /\ j # i
    BY <1>13, <2>1
  <2>3. s[j + 1] = u[k]
    BY <1>12, <1>14, <2>2
  <2>4. u[k] = g[j]
    BY <1>6, <2>1
  <2> QED BY <1>2, <2>2, <2>3, <2>4
<1>18. s[i] = b /\ s[i + 1] = c /\ \A j \in 1..(i - 1) : s[j] = h[j]
  BY <1>2, <1>15, <1>16
<1>19. s \in Seq(Block) /\ Len(s) = Len(h) + 1
  BY <1>12, <1>13, <1>14
<1>21. InsertAfter(g, i, c) = s
  BY <1>3, <1>4, <1>7, <1>9, <1>11, Zenon DEF InsertAfter
<1>22. Divided(s, h, i, b, c)
  BY <1>17, <1>18, <1>19, Zenon DEF Divided
<1> QED BY <1>1, <1>21, <1>22

\* A block divided in two tiles what it tiled.
LEMMA DividedTiled ==
  ASSUME NEW h, Tiled(h), NEW i \in DOMAIN h, NEW b \in Block, NEW c \in Block,
         b.addr = h[i].addr, End(b) = c.addr, End(c) = End(h[i]),
         NEW s, Divided(s, h, i, b, c)
  PROVE  Tiled(s)
<1>1. h \in Seq(Block) /\ Len(h) \in Nat /\ DOMAIN h = 1..Len(h) /\ i \in 1..Len(h)
  BY DEF Tiled
<1>2. s \in Seq(Block) /\ Len(s) = Len(h) + 1 /\ DOMAIN s = 1..(Len(h) + 1)
  BY <1>1 DEF Divided
<1>3. \A j \in 1..(i - 1) : s[j] = h[j]
  BY Zenon DEF Divided
<1>4. \A j \in (i + 2)..(Len(h) + 1) : s[j] = h[j - 1]
  <2> TAKE j \in (i + 2)..(Len(h) + 1)
  <2>1. j - 1 \in (i + 1)..Len(h) /\ (j - 1) + 1 = j
    BY <1>1
  <2> QED BY <2>1, Zenon DEF Divided
<1>5. s[i] = b /\ s[i + 1] = c
  BY Zenon DEF Divided
<1>6. h[i] \in Block /\ b.addr \in Nat /\ c.addr \in Nat /\ b.addr < c.addr /\ c.addr < End(h[i])
      /\ End(h[i]) \in Nat /\ End(b) <= End(h[i])
  BY <1>1, EndFacts
<1>7. \A x, y \in DOMAIN h : x < y => End(h[x]) <= h[y].addr
  BY DEF Tiled, Sorted
<1>8. \A x \in DOMAIN h : End(h[x]) \in Nat /\ h[x].addr \in Nat
  <2> TAKE x \in DOMAIN h
  <2>1. h[x] \in Block
    BY <1>1
  <2> QED BY <2>1, EndFacts, Zenon
<1>9. Sorted(s)
  <2> SUFFICES ASSUME NEW x \in 1..(Len(h) + 1), NEW y \in 1..(Len(h) + 1), x < y
               PROVE  End(s[x]) <= s[y].addr
    BY <1>2 DEF Sorted
  <2>1. CASE x < i
    <3>1. s[x] = h[x] /\ x \in DOMAIN h /\ End(h[x]) <= h[i].addr
      BY <1>1, <1>3, <1>7, <2>1
    <3>2. CASE y < i
      BY <1>1, <1>3, <1>7, <3>1, <3>2
    <3>3. CASE y = i
      BY <1>5, <3>1, <3>3
    <3>4. CASE y = i + 1
      BY <1>5, <1>6, <1>8, <3>1, <3>4
    <3>5. CASE y > i + 1
      <4>1. y - 1 \in DOMAIN h /\ s[y] = h[y - 1] /\ x < y - 1
        BY <1>1, <1>4, <2>1, <3>5
      <4> QED BY <1>7, <3>1, <4>1
    <3> QED BY <1>1, <3>2, <3>3, <3>4, <3>5
  <2>2. CASE x = i
    <3>1. CASE y = i + 1
      BY <1>5, <1>6, <2>2, <3>1
    <3>2. CASE y # i + 1
      <4>1. y - 1 \in DOMAIN h /\ s[y] = h[y - 1] /\ i < y - 1
        BY <1>1, <1>4, <2>2, <3>2
      <4>2. End(h[i]) <= h[y - 1].addr
        BY <1>7, <4>1
      <4> QED BY <1>5, <1>6, <1>8, <2>2, <4>1, <4>2
    <3> QED BY <3>1, <3>2
  <2>3. CASE x = i + 1
    <3>1. y - 1 \in DOMAIN h /\ s[y] = h[y - 1] /\ i < y - 1
      BY <1>1, <1>4, <2>3
    <3> QED BY <1>5, <1>7, <2>3, <3>1
  <2>4. CASE x > i + 1
    <3>1. /\ x - 1 \in DOMAIN h /\ s[x] = h[x - 1]
          /\ y - 1 \in DOMAIN h /\ s[y] = h[y - 1] /\ x - 1 < y - 1
      BY <1>1, <1>4, <2>4
    <3> QED BY <1>7, <3>1
  <2> QED BY <1>1, <2>1, <2>2, <2>3, <2>4
<1>10. s[1].addr = PageBases[1]
  <2>1. h[1].addr = PageBases[1]
    BY Zenon DEF Tiled
  <2>2. i = 1 \/ 1 \in 1..(i - 1)
    BY <1>1
  <2> QED BY <1>3, <1>5, <2>1, <2>2
<1>11. End(s[Len(s)]) = PageBases[Len(PageBases)] + PAGE_SIZE
  <2>1. End(h[Len(h)]) = PageBases[Len(PageBases)] + PAGE_SIZE
    BY Zenon DEF Tiled
  <2>2. CASE i = Len(h)
    BY <1>2, <1>5, <2>1, <2>2
  <2>3. CASE i # Len(h)
    <3>1. Len(s) \in (i + 2)..(Len(h) + 1) /\ Len(s) - 1 = Len(h)
      BY <1>1, <1>2, <2>3
    <3> QED BY <1>4, <2>1, <3>1
  <2> QED BY <2>2, <2>3
<1>12. ASSUME NEW j \in 1..(Len(s) - 1) PROVE Joined(End(s[j]), s[j + 1].addr)
  <2>1. \A x \in 1..(Len(h) - 1) : Joined(End(h[x]), h[x + 1].addr)
    BY Zenon DEF Tiled
  <2>2. CASE j < i
    <3>1. /\ j \in 1..(Len(h) - 1) /\ j \in 1..(i - 1)
          /\ j + 1 \in 1..(i - 1) \/ j + 1 = i
      BY <1>1, <2>2
    <3>2. s[j] = h[j] /\ s[j + 1].addr = h[j + 1].addr
      BY <1>3, <1>5, <3>1
    <3> QED BY <2>1, <3>1, <3>2
  <2>3. CASE j = i
    BY <1>5, <2>3 DEF Joined
  <2>4. CASE j = i + 1
    <3>1. i \in 1..(Len(h) - 1) /\ j + 1 \in (i + 2)..(Len(h) + 1) /\ (j + 1) - 1 = i + 1
      BY <1>1, <1>2, <2>4
    <3>2. End(s[j]) = End(h[i]) /\ s[j + 1] = h[i + 1]
      BY <1>4, <1>5, <2>4, <3>1
    <3> QED BY <2>1, <3>1, <3>2
  <2>5. CASE j > i + 1
    <3>1. /\ j \in (i + 2)..(Len(h) + 1) /\ j + 1 \in (i + 2)..(Len(h) + 1)
          /\ (j + 1) - 1 = (j - 1) + 1 /\ j - 1 \in 1..(Len(h) - 1)
      BY <1>1, <1>2, <2>5
    <3>2. s[j] = h[j - 1] /\ s[j + 1] = h[(j - 1) + 1]
      BY <1>4, <3>1
    <3> QED BY <2>1, <3>1, <3>2
  <2> QED BY <1>1, <1>2, <2>2, <2>3, <2>4, <2>5
<1> QED BY <1>1, <1>2, <1>9, <1>10, <1>11, <1>12 DEF Tiled

LEMMA DividedReplace ==
  ASSUME NEW h \in Seq(Block), NEW i \in DOMAIN h, NEW b, NEW c, NEW s, Divided(s, h, i, b, c),
         NEW d \in Block
  PROVE  Divided([s EXCEPT ![i] = d], h, i, d, c)
<1>1. s \in Seq(Block) /\ Len(s) = Len(h) + 1
  BY Zenon DEF Divided
<1>2. PICK n \in Nat : n = Len(h) /\ i \in 1..n /\ DOMAIN s = 1..(n + 1)
  BY <1>1
<1>3. PICK g : g = [s EXCEPT ![i] = d]
  BY Zenon
<1>4. g \in Seq(Block) /\ Len(g) = Len(h) + 1
  BY <1>1, <1>3
<1>5. i \in DOMAIN s /\ i + 1 \in DOMAIN s /\ i + 1 # i
  BY <1>2
<1>6. g[i] = d /\ \A j \in DOMAIN s : j # i => g[j] = s[j]
  BY <1>3, <1>5, Zenon
<1>7. \A j \in 1..(i - 1) : j \in DOMAIN s /\ j # i
  BY <1>2
<1>8. \A j \in (i + 1)..Len(h) : j + 1 \in DOMAIN s /\ j + 1 # i
  BY <1>2
<1>9. \A j \in 1..(i - 1) : g[j] = h[j]
  BY <1>6, <1>7, Zenon DEF Divided
<1>10. \A j \in (i + 1)..Len(h) : g[j + 1] = h[j]
  <2> TAKE j \in (i + 1)..Len(h)
  <2>1. s[j + 1] = h[j]
    BY Zenon DEF Divided
  <2>2. g[j + 1] = s[j + 1]
    BY <1>6, <1>8, Zenon
  <2> QED BY <2>1, <2>2
<1>11. g[i] = d /\ g[i + 1] = c
  BY <1>5, <1>6, Zenon DEF Divided
<1>12. Divided(g, h, i, d, c)
  BY <1>4, <1>9, <1>10, <1>11, Zenon DEF Divided
<1> QED BY <1>3, <1>12

\* Dividing a free block into a used and a free one adds the used one.
LEMMA DividedUsed ==
  ASSUME NEW h \in Seq(Block), NEW i \in DOMAIN h, NEW b \in Block, NEW c, NEW s,
         Divided(s, h, i, b, c), h[i].free, ~b.free, c.free
  PROVE  Used(s) = Used(h) \cup {b}
<1>1. s \in Seq(Block) /\ Len(s) = Len(h) + 1
  BY Zenon DEF Divided
<1>2. PICK n \in Nat : n = Len(h) /\ i \in 1..n /\ DOMAIN s = 1..(n + 1) /\ DOMAIN h = 1..n
  BY <1>1
<1>3. s[i] = b /\ s[i + 1] = c
  BY Zenon DEF Divided
<1>4. ASSUME NEW x \in Used(s) PROVE x \in Used(h) \cup {b}
  <2>1. PICK j \in DOMAIN s : s[j] = x
    BY Zenon DEF Used
  <2>2. x \in Block /\ ~x.free
    BY Zenon DEF Used
  <2>3. j # i + 1
    BY <1>3, <2>1, <2>2, Zenon
  <2>4. CASE j = i
    BY <1>3, <2>1, <2>4
  <2>5. CASE j < i
    <3>1. j \in 1..(i - 1) /\ j \in DOMAIN h
      BY <1>2, <2>5
    <3>2. h[j] = x
      BY <2>1, <3>1, Zenon DEF Divided
    <3> QED BY <2>2, <3>1, <3>2, Zenon DEF Used
  <2>6. CASE j > i
    <3>1. j - 1 \in (i + 1)..Len(h) /\ (j - 1) + 1 = j /\ j - 1 \in DOMAIN h
      BY <1>2, <2>3, <2>6
    <3>2. h[j - 1] = x
      BY <2>1, <3>1, Zenon DEF Divided
    <3> QED BY <2>2, <3>1, <3>2, Zenon DEF Used
  <2> QED BY <1>2, <2>4, <2>5, <2>6
<1>5. ASSUME NEW x \in Used(h) PROVE x \in Used(s)
  <2>1. PICK j \in DOMAIN h : h[j] = x
    BY Zenon DEF Used
  <2>2. x \in Block /\ ~x.free
    BY Zenon DEF Used
  <2>3. j # i
    BY <2>1, <2>2, Zenon
  <2>4. CASE j < i
    <3>1. j \in 1..(i - 1) /\ j \in DOMAIN s
      BY <1>2, <2>4
    <3>2. s[j] = x
      BY <2>1, <3>1, Zenon DEF Divided
    <3> QED BY <2>2, <3>1, <3>2, Zenon DEF Used
  <2>5. CASE j > i
    <3>1. j \in (i + 1)..Len(h) /\ j + 1 \in DOMAIN s
      BY <1>2, <2>5
    <3>2. s[j + 1] = x
      BY <2>1, <3>1, Zenon DEF Divided
    <3> QED BY <2>2, <3>1, <3>2, Zenon DEF Used
  <2> QED BY <1>2, <2>3, <2>4, <2>5
<1>6. b \in Used(s)
  <2>1. i \in DOMAIN s
    BY <1>2
  <2> QED BY <1>3, <2>1, Zenon DEF Used
<1> QED BY <1>4, <1>5, <1>6

LEMMA DividedSettled ==
  ASSUME NEW h \in Seq(Block), NEW i \in DOMAIN h, NEW b \in Block, NEW c, NEW s,
         Divided(s, h, i, b, c), h[i].free, ~b.free, End(c) = End(h[i]), Settled(h)
  PROVE  Settled(s)
<1>1. s \in Seq(Block) /\ Len(s) = Len(h) + 1
  BY Zenon DEF Divided
<1>2. PICK n \in Nat : n = Len(h) /\ i \in 1..n
  BY <1>1
<1>3. s[i] = b /\ s[i + 1] = c
  BY Zenon DEF Divided
<1> SUFFICES ASSUME NEW j \in 1..n PROVE ~Mergeable(s[j], s[j + 1])
  BY <1>1, <1>2 DEF Settled
<1>4. CASE j + 1 < i
  <2>1. j \in 1..(i - 1) /\ j + 1 \in 1..(i - 1) /\ j \in 1..(Len(h) - 1)
    BY <1>2, <1>4
  <2>2. s[j] = h[j] /\ s[j + 1] = h[j + 1]
    BY <2>1, Zenon DEF Divided
  <2> QED BY <2>1, <2>2, Zenon DEF Settled
<1>5. CASE j + 1 = i
  BY <1>3, <1>5, Zenon DEF Mergeable
<1>6. CASE j = i
  BY <1>3, <1>6, Zenon DEF Mergeable
<1>7. CASE j = i + 1
  <2>1. i + 1 \in (i + 1)..Len(h) /\ i \in 1..(Len(h) - 1)
    BY <1>2, <1>7
  <2>2. s[j + 1] = h[i + 1] /\ s[j] = c
    BY <1>3, <1>7, <2>1, Zenon DEF Divided
  <2>3. ~Mergeable(h[i], h[i + 1])
    BY <2>1, Zenon DEF Settled
  <2> QED BY <2>2, <2>3, Zenon DEF Mergeable
<1>8. CASE j > i + 1
  <2>1. /\ j - 1 \in (i + 1)..Len(h) /\ (j - 1) + 1 = j /\ j \in (i + 1)..Len(h)
        /\ j - 1 \in 1..(Len(h) - 1)
    BY <1>2, <1>8
  <2>2. s[j] = h[j - 1] /\ s[j + 1] = h[j]
    BY <2>1, Zenon DEF Divided
  <2> QED BY <2>1, <2>2, Zenon DEF Settled
<1> QED BY <1>2, <1>4, <1>5, <1>6, <1>7, <1>8

\* Setting the flag of a block: the other blocks stay.
LEMMA ReplaceUsed ==
  ASSUME NEW h \in Seq(Block), Sorted(h), NEW i \in DOMAIN h, NEW b \in Block,
         b.addr = h[i].addr
  PROVE  /\ h[i].free /\ ~b.free => Used([h EXCEPT ![i] = b]) = Used(h) \cup {b}
         /\ ~h[i].free /\ b.free => Used([h EXCEPT ![i] = b]) = Used(h) \ {h[i]}
         /\ ~b.free /\ Settled(h) => Settled([h EXCEPT ![i] = b])
<1>1. PICK g : g = [h EXCEPT ![i] = b]
  BY Zenon
<1>2. /\ DOMAIN g = DOMAIN h /\ g[i] = b
      /\ \A j \in DOMAIN h : j # i => g[j] = h[j]
  BY <1>1
<1>3. \A x : x \in Used(g) <=> (x = b /\ ~b.free) \/ (x \in Block /\ ~x.free /\ \E j \in DOMAIN h : j # i /\ h[j] = x)
  BY <1>2, Zenon DEF Used
<1>4. \A x : x \in Used(h) <=> (x = h[i] /\ ~x.free) \/ (x \in Block /\ ~x.free /\ \E j \in DOMAIN h : j # i /\ h[j] = x)
  <2>1. h[i] \in Block
    OBVIOUS
  <2> QED BY <2>1, Zenon DEF Used
<1>5. ~\E j \in DOMAIN h : j # i /\ h[j] = h[i]
  BY OneBlock, Zenon
<1>6. h[i].free /\ ~b.free => Used(g) = Used(h) \cup {b}
  BY <1>3, <1>4
<1>7. ~h[i].free /\ b.free => Used(g) = Used(h) \ {h[i]}
  BY <1>3, <1>4, <1>5
<1>8. ASSUME ~b.free, Settled(h) PROVE Settled(g)
  <2>1. Len(g) = Len(h)
    BY <1>1
  <2> SUFFICES ASSUME NEW j \in 1..(Len(h) - 1) PROVE ~Mergeable(g[j], g[j + 1])
    BY <2>1, Zenon DEF Settled
  <2>2. j \in DOMAIN h /\ j + 1 \in DOMAIN h
    OBVIOUS
  <2>3. CASE j = i \/ j + 1 = i
    BY <1>2, <1>8, <2>3, Zenon DEF Mergeable
  <2>4. CASE j # i /\ j + 1 # i
    BY <1>2, <1>8, <2>2, <2>4, Zenon DEF Settled
  <2> QED BY <2>3, <2>4
<1> QED BY <1>1, <1>6, <1>7, <1>8, Zenon

\* kmalloc: what becomes of the list when block i is split and marked as used.
LEMMA ClaimProperties ==
  ASSUME NEW h, Tiled(h), NEW i \in DOMAIN h, h[i].free, NEW size \in Nat, h[i].size >= size
  PROVE  LET g == [Split(h, i, size) EXCEPT ![i].free = FALSE]
         IN  /\ Tiled(g)
             /\ \E c \in Block : /\ c.addr = h[i].addr /\ c.size >= size /\ ~c.free
                                /\ Used(g) = Used(h) \cup {c}
             /\ Settled(h) => Settled(g)
<1>1. h \in Seq(Block) /\ Sorted(h) /\ h[i] \in Block
  BY DEF Tiled
<1>2. h[i].size \in Nat /\ h[i].addr \in Nat
  BY <1>1, EndFacts
<1>3. CASE h[i].size <= size + BLOCK_HEADER_SIZE + MIN_SPLIT_SIZE
  <2>1. Split(h, i, size) = h
    BY <1>3, Zenon DEF Split
  <2>2. PICK c : c = [h[i] EXCEPT !.free = FALSE]
    BY Zenon
  <2>3. c \in Block /\ c.addr = h[i].addr /\ c.size = h[i].size /\ ~c.free
    BY <1>1, <2>2, Zenon DEF Block
  <2>4. PICK g : g = [h EXCEPT ![i].free = FALSE]
    BY Zenon
  <2>5. Tiled(g) /\ g = [h EXCEPT ![i] = c]
    BY <2>2, <2>4, FlagTiled, Zenon
  <2>6. Used(g) = Used(h) \cup {c} /\ (Settled(h) => Settled(g))
    BY <1>1, <2>3, <2>5, ReplaceUsed, Zenon
  <2> QED BY <2>1, <2>3, <2>4, <2>5, <2>6, Zenon
<1>4. CASE ~(h[i].size <= size + BLOCK_HEADER_SIZE + MIN_SPLIT_SIZE)
  <2>1. PICK rest : rest = [addr |-> h[i].addr + BLOCK_HEADER_SIZE + size,
                            size |-> h[i].size - size - BLOCK_HEADER_SIZE, free |-> TRUE]
    BY Zenon
  <2>2. PICK b : b = [h[i] EXCEPT !.size = size]
    BY Zenon
  <2>3. PICK c : c = [b EXCEPT !.free = FALSE]
    BY Zenon
  <2>4. b \in Block /\ b.addr = h[i].addr /\ b.size = size
    BY <1>1, <2>2 DEF Block
  <2>5. c \in Block /\ c.addr = h[i].addr /\ c.size = size /\ ~c.free
    BY <2>3, <2>4, Zenon DEF Block
  <2>6. PICK x \in Nat, y \in Nat : x = h[i].addr /\ y = h[i].size
    BY <1>2
  <2>7. y - size - BLOCK_HEADER_SIZE \in Nat /\ x + BLOCK_HEADER_SIZE + size \in Nat
    BY <1>4, <2>6, Sizes
  <2>8. /\ rest \in Block /\ rest.free /\ rest.addr = x + BLOCK_HEADER_SIZE + size
        /\ rest.size = y - size - BLOCK_HEADER_SIZE
    BY <2>1, <2>6, <2>7 DEF Block
  <2>9. End(c) = rest.addr
    BY <2>5, <2>6, <2>8, Zenon DEF End
  <2>10. End(rest) = End(h[i])
    <3>1. End(rest) = (x + BLOCK_HEADER_SIZE + size) + BLOCK_HEADER_SIZE + (y - size - BLOCK_HEADER_SIZE)
      BY <2>8, Zenon DEF End
    <3>2. End(h[i]) = x + BLOCK_HEADER_SIZE + y
      BY <2>6, Zenon DEF End
    <3> QED BY <3>1, <3>2, Sizes
  <2>11. PICK s : s = InsertAfter([h EXCEPT ![i] = b], i, rest)
    OBVIOUS
  <2>12. Split(h, i, size) = s
    <3>1. [h EXCEPT ![i].size = size] = [h EXCEPT ![i] = b]
      BY <2>2, Zenon
    <3>2. Split(h, i, size) = InsertAfter([h EXCEPT ![i].size = size], i, rest)
      BY <1>4, <2>1, Zenon DEF Split, InsertAfter
    <3> QED BY <2>11, <3>1, <3>2, Zenon
  <2>13. Divided(s, h, i, b, rest)
    BY <1>1, <2>4, <2>8, <2>11, InsertDivides, Zenon
  <2>14. PICK g : g = [s EXCEPT ![i].free = FALSE]
    BY Zenon
  <2>15. g = [s EXCEPT ![i] = c]
    <3>1. s[i] = b
      BY <2>13, Zenon DEF Divided
    <3> QED BY <2>3, <2>14, <3>1, Zenon
  <2>16. Divided(g, h, i, c, rest)
    BY <1>1, <2>5, <2>13, <2>15, DividedReplace, Zenon
  <2>17. Tiled(g)
    BY <2>5, <2>8, <2>9, <2>10, <2>16, DividedTiled, Zenon
  <2>18. Used(g) = Used(h) \cup {c}
    BY <1>1, <2>5, <2>8, <2>16, DividedUsed
  <2>19. Settled(h) => Settled(g)
    BY <1>1, <2>5, <2>10, <2>16, DividedSettled, Zenon
  <2>20. c.size >= size
    BY <2>5
  <2> QED BY <2>5, <2>12, <2>14, <2>17, <2>18, <2>19, <2>20, Zenon
<1> QED BY <1>3, <1>4, Zenon

\* kfree: coalesce keeps the used blocks and settles the list.
LEMMA CoalesceUsed ==
  ASSUME NEW h, Tiled(h)
  PROVE  Used(Coalesce(h)) = Used(h) /\ Settled(Coalesce(h))
<1>1. h \in Seq(Block) /\ Len(h) >= 1 /\ Sorted(h) /\ DOMAIN h = 1..Len(h)
  BY DEF Tiled
<1>2. PICK g : g = Coalesce(h)
  OBVIOUS
<1>3. Passed(g, h, Len(h))
  BY <1>1, <1>2, CoalesceProperties
<1>4. UsedKept(g, h, Len(h)) /\ AllStem(g, h, Len(h)) /\ Settled(g)
  BY <1>3, Zenon DEF Passed
<1>5. ASSUME NEW x \in Used(g) PROVE x \in Used(h)
  BY <1>1, <1>4, Zenon DEF Used, AllStem, Stems
<1>6. ASSUME NEW x \in Used(h) PROVE x \in Used(g)
  BY <1>1, <1>4, Zenon DEF Used, UsedKept
<1> QED BY <1>2, <1>4, <1>5, <1>6, Zenon

\* A block kmalloc has chosen is still as large and free if coalesce leaves it on
\* the list.
LEMMA CoalesceChosen ==
  ASSUME NEW h, Tiled(h), NEW at, NEW n \in Nat, Chosen(h, at, n)
  PROVE  Chosen(Coalesce(h), at, n)
<1>1. h \in Seq(Block) /\ Len(h) >= 1 /\ Sorted(h) /\ DOMAIN h = 1..Len(h)
  BY DEF Tiled
<1>2. PICK g : g = Coalesce(h)
  OBVIOUS
<1>3. Passed(g, h, Len(h))
  BY <1>1, <1>2, CoalesceProperties
<1>4. g \in Seq(Block) /\ AllStem(g, h, Len(h))
  BY <1>3, Zenon DEF Passed
<1>5. ASSUME NEW i \in DOMAIN g, g[i].addr = at PROVE g[i].free /\ g[i].size >= Align(n)
  <2>1. PICK j \in DOMAIN h : Stems(g[i], h[j])
    BY <1>1, <1>4, Zenon DEF AllStem
  <2>2. h[j].free /\ h[j].size >= Align(n)
    BY <1>5, <2>1, Zenon DEF Chosen, Stems
  <2>3. g[i].free /\ g[i].size >= h[j].size
    BY <2>1, <2>2, Zenon DEF Stems
  <2>4. g[i].size \in Nat /\ h[j].size \in Nat /\ Align(n) \in Int
    <3>1. g[i] \in Block /\ h[j] \in Block
      BY <1>1, <1>4
    <3> QED BY <3>1, EndFacts DEF Align
  <2> QED BY <2>2, <2>3, <2>4
<1> QED BY <1>2, <1>5 DEF Chosen

----------------------------------------------------------------------------
(* The steps *)

LEMMA SearchIInv ==
  ASSUME IInv, NEW n \in Requests, Search(n)
  PROVE  IInv'
<1> DEFINE I == {i \in DOMAIN heap : Fits(heap[i], n)}
           p == IF I # {} THEN Min(I) ELSE 0
<1>1. /\ IF p = 0 THEN UNCHANGED <<found, asked>> ELSE found' = heap[p].addr /\ asked' = n
      /\ UNCHANGED <<heap, allocs, panic, absorbed>>
  BY DEF Search, First
<1>2. n \in Nat
  BY HeapAssumption
<1>3. CASE p = 0
  <2>1. UNCHANGED <<found, asked, heap, allocs, panic, absorbed>>
    BY <1>1, <1>3
  <2> QED BY <2>1 DEF IInv
<1>4. CASE p # 0
  <2>1. I # {} /\ I \in SUBSET Nat
    BY <1>4 DEF IInv, Tiled
  <2>2. \E x \in I : \A y \in I : x <= y
    BY <2>1, LeastNatural, Zenon
  <2>3. PICK q : q = Min(I)
    BY Zenon
  <2>4. q \in I
    <3> HIDE DEF I
    <3> QED BY <2>2, <2>3 DEF Min
  <2>5. q = p /\ Fits(heap[q], n)
    BY <2>1, <2>3, <2>4
  <2>6. heap \in Seq(Block) /\ Sorted(heap) /\ q \in DOMAIN heap
    BY <2>4 DEF IInv, Tiled
  <2>7. heap[q].addr \in Nat /\ heap[q].addr # NoBlock
    <3>1. heap[q] \in Block
      BY <2>6
    <3>2. heap[q].addr \in Nat
      BY <3>1, EndFacts
    <3> QED BY <3>2 DEF NoBlock
  <2>8. Chosen(heap, heap[q].addr, n)
    BY <2>5, <2>6, OneBlock, Zenon DEF Chosen, Fits
  <2>9. OnList(heap, heap[q].addr)
    BY <2>6, Zenon DEF OnList
  <2>10. found' = heap[q].addr /\ asked' = n
    BY <1>1, <1>4, <2>5
  <2> HIDE DEF I, p
  <2> QED BY <1>1, <1>2, <2>7, <2>8, <2>9, <2>10 DEF IInv
<1> QED BY <1>3, <1>4

LEMMA AlignFacts == \A n \in Nat : Align(n) \in Nat /\ Align(n) >= n
BY DEF Align

LEMMA ClaimIInv ==
  ASSUME IInv, Claim
  PROVE  IInv'
<1> DEFINE i == Position(heap, found)
           new == [ptr |-> found + BLOCK_HEADER_SIZE, size |-> asked]
<1>1. /\ found # NoBlock
      /\ heap' = IF i = 0 THEN heap
                 ELSE [Split(heap, i, Align(asked)) EXCEPT ![i].free = FALSE]
      /\ allocs' = allocs \cup {new}
      /\ found' = NoBlock /\ asked' = 0 /\ UNCHANGED <<panic, absorbed>>
  BY DEF Claim
<1>2. /\ Tiled(heap) /\ heap \in Seq(Block) /\ Sorted(heap) /\ found \in Nat /\ asked \in Nat
      /\ absorbed \in BOOLEAN /\ Chosen(heap, found, asked)
      /\ absorbed \/ OnList(heap, found)
      /\ absorbed \/ (Owned(heap, allocs) /\ ~panic)
      /\ absorbed => Settled(heap)
  BY <1>1 DEF IInv, Tiled
<1>3. /\ i # 0 => i \in DOMAIN heap /\ heap[i].addr = found
      /\ i # 0 <=> OnList(heap, found)
  BY <1>2, PositionFacts, Zenon
<1>4. found' \in Nat \cup {NoBlock} /\ asked' \in Nat /\ absorbed' \in BOOLEAN
  BY <1>1, <1>2
<1>5. CASE i = 0
  <2>1. absorbed /\ heap' = heap
    BY <1>1, <1>2, <1>3, <1>5
  <2> HIDE DEF i, new
  <2> QED BY <1>1, <1>2, <1>4, <2>1, Zenon DEF IInv
<1>6. CASE i # 0
  <2>1. i \in DOMAIN heap /\ heap[i].addr = found /\ heap[i].free /\ heap[i].size >= Align(asked)
    BY <1>2, <1>3, <1>6, Zenon DEF Chosen
  <2>2. PICK size \in Nat : size = Align(asked) /\ size >= asked
    BY <1>2, AlignFacts
  <2>3. heap' = [Split(heap, i, size) EXCEPT ![i].free = FALSE]
    BY <1>1, <1>6, <2>2, Zenon
  <2> HIDE DEF i
  <2>4. /\ Tiled(heap') /\ (Settled(heap) => Settled(heap'))
        /\ \E c \in Block : /\ c.addr = heap[i].addr /\ c.size >= size /\ ~c.free
                           /\ Used(heap') = Used(heap) \cup {c}
    <3>1. PICK h, k : h = heap /\ k = i
      OBVIOUS
    <3>2. Tiled(h) /\ k \in DOMAIN h /\ h[k].free /\ h[k].size >= size
      BY <1>2, <2>1, <2>2, <3>1
    <3>3. PICK g : g = [Split(h, k, size) EXCEPT ![k].free = FALSE]
      BY Zenon
    <3>4. /\ Tiled(g)
          /\ \E c \in Block : /\ c.addr = h[k].addr /\ c.size >= size /\ ~c.free
                             /\ Used(g) = Used(h) \cup {c}
          /\ Settled(h) => Settled(g)
      BY <3>2, <3>3, ClaimProperties, Zenon
    <3> QED BY <2>3, <3>1, <3>3, <3>4, Zenon
  <2>5. PICK c \in Block : /\ c.addr = heap[i].addr /\ c.size >= size /\ ~c.free
                           /\ Used(heap') = Used(heap) \cup {c}
    BY <2>4
  <2>6. ASSUME ~absorbed PROVE Owned(heap', allocs') /\ ~panic'
    <3>1. Owned(heap, allocs) /\ ~panic'
      BY <1>1, <1>2, <2>6
    <3>2. new.ptr = c.addr + BLOCK_HEADER_SIZE /\ c.size >= new.size
      <4>1. c.size \in Nat
        BY EndFacts
      <4> QED BY <1>2, <2>1, <2>2, <2>5, <4>1
    <3>3. ASSUME NEW a \in allocs PROVE a.ptr # new.ptr
      <4>1. PICK b \in Used(heap) : b.addr + BLOCK_HEADER_SIZE = a.ptr
        BY <3>1, Zenon DEF Owned
      <4>2. PICK j \in DOMAIN heap : heap[j] = b /\ ~b.free /\ b \in Block
        BY Zenon DEF Used
      <4>3. j # i
        BY <2>1, <4>2, Zenon
      <4>4. b.addr # found
        BY <1>2, <2>1, <4>2, <4>3, OneBlock, Zenon
      <4>5. b.addr \in Nat
        BY <4>2, EndFacts
      <4>6. PICK x \in Nat : x = b.addr
        BY <4>5
      <4>7. x + BLOCK_HEADER_SIZE # found + BLOCK_HEADER_SIZE
        BY <1>2, <4>4, <4>6, Sizes
      <4> QED BY <4>1, <4>6, <4>7
    <3> HIDE DEF new
    <3>4. ASSUME NEW a \in allocs'
          PROVE  \E b \in Used(heap') : b.addr + BLOCK_HEADER_SIZE = a.ptr /\ b.size >= a.size
      BY <1>1, <2>5, <3>1, <3>2, Zenon DEF Owned
    <3>5. ASSUME NEW b \in Used(heap') PROVE \E a \in allocs' : a.ptr = b.addr + BLOCK_HEADER_SIZE
      BY <1>1, <2>5, <3>1, <3>2, Zenon DEF Owned
    <3>6. ASSUME NEW a \in allocs', NEW b \in allocs', a.ptr = b.ptr PROVE a = b
      BY <1>1, <3>1, <3>3, <3>6, Zenon DEF Owned
    <3> QED BY <3>1, <3>4, <3>5, <3>6, Zenon DEF Owned
  <2> HIDE DEF new
  <2> QED BY <1>1, <1>2, <1>4, <2>4, <2>6 DEF IInv
<1> QED BY <1>5, <1>6

LEMMA KfreeIInv ==
  ASSUME IInv, NEW a \in allocs, Kfree(a)
  PROVE  IInv' /\ Settled(heap')
<1> DEFINE i == Position(heap, a.ptr - BLOCK_HEADER_SIZE)
           freed == IF i = 0 THEN heap ELSE [heap EXCEPT ![i].free = TRUE]
<1>1. /\ allocs' = allocs \ {a}
      /\ IF i # 0 /\ heap[i].free THEN panic' = TRUE /\ UNCHANGED heap
         ELSE heap' = Coalesce(freed) /\ UNCHANGED panic
      /\ absorbed' = (absorbed \/ (found # NoBlock /\ Position(heap', found) = 0))
      /\ UNCHANGED <<found, asked>>
  BY DEF Kfree
<1>2. /\ Tiled(heap) /\ heap \in Seq(Block) /\ Sorted(heap) /\ asked \in Nat
      /\ found \in Nat \cup {NoBlock} /\ absorbed \in BOOLEAN
      /\ found # NoBlock => Chosen(heap, found, asked) /\ (absorbed \/ OnList(heap, found))
      /\ absorbed \/ (Owned(heap, allocs) /\ ~panic)
      /\ absorbed => Settled(heap)
  BY DEF IInv, Tiled
<1>3. /\ i # 0 => i \in DOMAIN heap /\ heap[i].addr = a.ptr - BLOCK_HEADER_SIZE
      /\ i # 0 <=> OnList(heap, a.ptr - BLOCK_HEADER_SIZE)
  BY <1>2, PositionFacts, Zenon
<1>4. absorbed' \in BOOLEAN /\ (absorbed => absorbed')
  BY <1>1, <1>2
\* An allocation has a used block unless a block has been absorbed.
<1>5. ASSUME ~absorbed PROVE i # 0 /\ ~heap[i].free /\ heap[i].addr + BLOCK_HEADER_SIZE = a.ptr
  <2>1. PICK b \in Used(heap) : b.addr + BLOCK_HEADER_SIZE = a.ptr
    BY <1>2, <1>5, Zenon DEF Owned
  <2>2. PICK j \in DOMAIN heap : heap[j] = b /\ ~b.free /\ b \in Block
    BY Zenon DEF Used
  <2>3. PICK x \in Nat : x = b.addr
    BY <2>2, EndFacts
  <2>4. (x + BLOCK_HEADER_SIZE) - BLOCK_HEADER_SIZE = x
    BY <2>3, Sizes
  <2>5. a.ptr - BLOCK_HEADER_SIZE = b.addr
    BY <2>1, <2>3, <2>4
  <2>6. OnList(heap, a.ptr - BLOCK_HEADER_SIZE)
    BY <2>2, <2>5, Zenon DEF OnList
  <2>7. i # 0 /\ heap[i].addr = b.addr /\ i \in DOMAIN heap
    BY <1>3, <2>5, <2>6, Zenon
  <2>8. i = j
    BY <1>2, <2>2, <2>7, OneBlock, Zenon
  <2> QED BY <2>1, <2>2, <2>7, <2>8, Zenon
<1>6. CASE i # 0 /\ heap[i].free
  <2>1. absorbed /\ heap' = heap
    BY <1>1, <1>5, <1>6
  <2> HIDE DEF i, freed
  <2> QED BY <1>1, <1>2, <1>4, <2>1 DEF IInv
<1>7. CASE ~(i # 0 /\ heap[i].free)
  <2>1. heap' = Coalesce(freed) /\ UNCHANGED panic
    BY <1>1, <1>7
  <2>2. PICK f : f = freed
    BY Zenon
  <2>3. Tiled(f) /\ (found # NoBlock => Chosen(f, found, asked))
        /\ (~absorbed => Used(f) = Used(heap) \ {heap[i]})
    <3>1. CASE i = 0
      BY <1>2, <1>5, <2>2, <3>1
    <3>2. CASE i # 0
      <4>1. i \in DOMAIN heap /\ ~heap[i].free /\ f = [heap EXCEPT ![i].free = TRUE]
        BY <1>3, <1>7, <2>2, <3>2
      <4> HIDE DEF i, freed
      <4>2. PICK b : b = [heap[i] EXCEPT !.free = TRUE]
        BY Zenon
      <4>3. b \in Block /\ b.free /\ b.addr = heap[i].addr /\ b.size = heap[i].size
        <5>1. heap[i] \in Block
          BY <1>2, <4>1
        <5> QED BY <4>2, <5>1, Zenon DEF Block
      <4>4. Tiled(f) /\ f = [heap EXCEPT ![i] = b]
        BY <1>2, <4>1, <4>2, FlagTiled, Zenon
      <4>5. Used(f) = Used(heap) \ {heap[i]}
        <5>1. heap \in Seq(Block) /\ Sorted(heap)
          BY <1>2
        <5>2. Used([heap EXCEPT ![i] = b]) = Used(heap) \ {heap[i]}
          BY <4>1, <4>3, <5>1, ReplaceUsed, Zenon
        <5> QED BY <4>4, <5>2, Zenon
      <4>6. ASSUME found # NoBlock PROVE Chosen(f, found, asked)
        <5>1. DOMAIN f = DOMAIN heap /\ f[i] = b /\ \A j \in DOMAIN heap : j # i => f[j] = heap[j]
          BY <1>2, <4>1, <4>4
        <5>2. Chosen(heap, found, asked)
          BY <1>2, <4>6
        <5> QED BY <4>3, <5>1, <5>2, Zenon DEF Chosen
      <4> QED BY <4>4, <4>5, <4>6, Zenon
    <3> QED BY <3>1, <3>2
  <2> HIDE DEF freed
  <2>4. /\ Tiled(heap') /\ Used(heap') = Used(f) /\ Settled(heap')
        /\ found # NoBlock => Chosen(heap', found, asked)
    BY <1>2, <2>1, <2>2, <2>3, CoalesceTiled, CoalesceUsed, CoalesceChosen
  <2>5. found # NoBlock => absorbed' \/ OnList(heap', found)
    <3>1. heap' \in Seq(Block)
      BY <2>4 DEF Tiled
    <3>2. Position(heap', found) # 0 => OnList(heap', found)
      BY <3>1, PositionFacts, Zenon
    <3> QED BY <1>1, <3>2, Zenon
  <2>6. ASSUME ~absorbed' PROVE Owned(heap', allocs') /\ ~panic'
    <3>1. ~absorbed
      BY <1>4, <2>6
    <3>2. Owned(heap, allocs) /\ ~panic'
      BY <1>2, <2>1, <3>1
    <3>3. ~heap[i].free /\ heap[i].addr + BLOCK_HEADER_SIZE = a.ptr
      BY <1>5, <3>1
    <3>4. Used(heap') = Used(heap) \ {heap[i]}
      BY <2>3, <2>4, <3>1
    <3> HIDE DEF i
    <3>5. ASSUME NEW o \in allocs'
          PROVE  \E b \in Used(heap') : b.addr + BLOCK_HEADER_SIZE = o.ptr /\ b.size >= o.size
      <4>1. o \in allocs /\ o # a
        BY <1>1
      <4>2. PICK b \in Used(heap) : b.addr + BLOCK_HEADER_SIZE = o.ptr /\ b.size >= o.size
        BY <3>2, <4>1, Zenon DEF Owned
      <4>3. b # heap[i]
        BY <3>2, <3>3, <4>1, <4>2, Zenon DEF Owned
      <4> QED BY <3>4, <4>2, <4>3
    <3>6. ASSUME NEW b \in Used(heap') PROVE \E o \in allocs' : o.ptr = b.addr + BLOCK_HEADER_SIZE
      <4>1. b \in Used(heap) /\ b # heap[i]
        BY <3>4
      <4>2. PICK o \in allocs : o.ptr = b.addr + BLOCK_HEADER_SIZE
        BY <3>2, <4>1, Zenon DEF Owned
      <4>3. o # a
        <5> SUFFICES ASSUME o = a PROVE FALSE
          OBVIOUS
        <5>1. PICK j \in DOMAIN heap : heap[j] = b /\ b \in Block
          BY <4>1, Zenon DEF Used
        <5>2. i \in DOMAIN heap /\ heap[i] \in Block
          <6>1. i \in DOMAIN heap
            BY <1>3, <1>5, <3>1 DEF i
          <6> QED BY <1>2, <6>1
        <5>3. b.addr + BLOCK_HEADER_SIZE = heap[i].addr + BLOCK_HEADER_SIZE
          BY <3>3, <4>2
        <5>4. b.addr \in Nat /\ heap[i].addr \in Nat
          BY <5>1, <5>2, EndFacts
        <5>5. b.addr = heap[i].addr
          BY <5>3, <5>4, Sizes
        <5> QED BY <1>2, <4>1, <5>1, <5>2, <5>5, OneBlock, Zenon
      <4> QED BY <1>1, <4>2, <4>3
    <3>7. ASSUME NEW o \in allocs', NEW b \in allocs', o.ptr = b.ptr PROVE o = b
      BY <1>1, <3>2, <3>7, Zenon DEF Owned
    <3> QED BY <3>2, <3>5, <3>6, <3>7, Zenon DEF Owned
  <2> HIDE DEF i
  <2> QED BY <1>1, <1>2, <1>4, <2>4, <2>5, <2>6 DEF IInv
<1> QED BY <1>6, <1>7

LEMMA StepIInv ==
  ASSUME IInv, [Next]_vars
  PROVE  IInv'
<1>1. CASE UNCHANGED vars
  BY <1>1 DEF IInv, vars
<1>2. CASE Next
  BY <1>2, SearchIInv, ClaimIInv, KfreeIInv DEF Next
<1> QED BY <1>1, <1>2

LEMMA InitIInv == Init => IInv
<1> SUFFICES ASSUME Init PROVE IInv
  OBVIOUS
<1>1. PICK n \in Nat \ {0} : n = Len(PageBases)
  BY HeapAssumption
<1>2. \A i \in 1..n : PageBases[i] \in Nat
  BY <1>1, HeapAssumption
<1>3. PICK size \in Nat : size = PAGE_SIZE - BLOCK_HEADER_SIZE
  BY Sizes
<1>4. heap = [i \in 1..n |-> [addr |-> PageBases[i], size |-> size, free |-> TRUE]]
  BY <1>1, <1>3 DEF Init, InitialHeap
<1>5. /\ heap \in Seq(Block) /\ Len(heap) = n /\ DOMAIN heap = 1..n
  <2>1. \A i \in 1..n : [addr |-> PageBases[i], size |-> size, free |-> TRUE] \in Block
    BY <1>2 DEF Block
  <2> QED BY <1>4, <2>1
<1>6. \A i \in 1..n : heap[i].addr = PageBases[i] /\ heap[i].size = size /\ heap[i].free
  BY <1>4
<1>7. \A i \in 1..n : End(heap[i]) = PageBases[i] + PAGE_SIZE
  <2> TAKE i \in 1..n
  <2>1. PICK x \in Nat : x = PageBases[i]
    BY <1>2
  <2>2. x + BLOCK_HEADER_SIZE + size = x + PAGE_SIZE
    BY <1>3, Sizes
  <2>3. End(heap[i]) = x + BLOCK_HEADER_SIZE + size
    BY <1>6, <2>1, Zenon DEF End
  <2> QED BY <2>1, <2>2, <2>3
<1>8. Sorted(heap)
  <2>1. \A i, j \in 1..n : i < j => PageBases[i] + PAGE_SIZE <= PageBases[j]
    BY <1>1, HeapAssumption
  <2> QED BY <1>5, <1>6, <1>7, <2>1 DEF Sorted
<1>9. heap[1].addr = PageBases[1] /\ End(heap[Len(heap)]) = PageBases[Len(PageBases)] + PAGE_SIZE
  BY <1>1, <1>5, <1>6, <1>7
<1>10. ASSUME NEW i \in 1..(Len(heap) - 1) PROVE Joined(End(heap[i]), heap[i + 1].addr)
  <2>1. i \in 1..n /\ i + 1 \in 1..n /\ i \in 1..(Len(PageBases) - 1)
    BY <1>1, <1>5
  <2> QED BY <1>6, <1>7, <2>1 DEF Joined
<1>11. Tiled(heap)
  BY <1>1, <1>5, <1>8, <1>9, <1>10 DEF Tiled
<1>12. Used(heap) = {}
  BY <1>5, <1>6 DEF Used
<1>13. Owned(heap, allocs)
  BY <1>12 DEF Init, Owned
<1> QED BY <1>11, <1>13, Zenon DEF Init, IInv

LEMMA Invariance == Spec => []IInv
  BY InitIInv, StepIInv, PTL DEF Spec

----------------------------------------------------------------------------

\* Whatever is allocated and freed, the blocks of the heap cover the pages
\* kmalloc_init got without a gap or an overlap.
THEOREM HeapTilesPages == Spec => []BlocksTilePages
<1>1. IInv => BlocksTilePages
  <2> SUFFICES ASSUME IInv PROVE BlocksTilePages
    OBVIOUS
  <2>1. Tiled(heap)
    BY DEF IInv
  <2> QED BY <2>1 DEF Tiled, BlocksTilePages, Joined
<1> QED BY <1>1, Invariance, PTL

\* Each allocation in use has a block of its own, and kfree does not panic, as
\* long as no kfree inside kmalloc absorbs the block kmalloc has chosen.
THEOREM AllocationsDisjoint == Spec => []AllocationsOwnBlocks
<1>1. IInv => AllocationsOwnBlocks
  <2> SUFFICES ASSUME IInv, ~absorbed PROVE AllocationsOwnBlocks
    BY DEF AllocationsOwnBlocks
  <2>1. Owned(heap, allocs) /\ ~panic /\ heap \in Seq(Block)
    BY DEF IInv, Tiled
  <2>2. ASSUME NEW a \in allocs
        PROVE  \E i \in DOMAIN heap : /\ ~heap[i].free
                                      /\ heap[i].addr + BLOCK_HEADER_SIZE = a.ptr
                                      /\ heap[i].size >= a.size
    BY <2>1, Zenon DEF Owned, Used
  <2>3. ASSUME NEW i \in DOMAIN heap, ~heap[i].free
        PROVE  \E a \in allocs : a.ptr = heap[i].addr + BLOCK_HEADER_SIZE
    <3>1. heap[i] \in Block
      BY <2>1
    <3>2. heap[i] \in Used(heap)
      BY <2>3, <3>1, Zenon DEF Used
    <3> QED BY <2>1, <3>2, Zenon DEF Owned
  <2>4. \A a, b \in allocs : a.ptr = b.ptr => a = b
    BY <2>1, Zenon DEF Owned
  <2> QED BY <2>1, <2>2, <2>3, <2>4, Zenon DEF AllocationsOwnBlocks
<1> QED BY <1>1, Invariance, PTL

\* The single forward pass of coalesce leaves nothing to merge.
THEOREM OnePassIsEnough == Spec => KfreeCoalescesAll
<1>1. IInv /\ [Next]_vars =>
        [(\E a \in allocs : Kfree(a)) =>
           \A i \in 1..(Len(heap') - 1) : ~Mergeable(heap'[i], heap'[i + 1])]_vars
  BY KfreeIInv DEF Settled
<1> QED BY <1>1, Invariance, PTL DEF Spec, KfreeCoalescesAll
=============================================================================
