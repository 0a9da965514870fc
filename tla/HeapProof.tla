----------------------------- MODULE HeapProof -----------------------------
(***************************************************************************)
(* The heap, proved for every size of it and every width of a word, an int *)
(* and a size_t.  First the arithmetic: which requests get a block that    *)
(* holds them, what happens to the first that does not, and what index     *)
(* free() computes.  Then HeaderSpec, in which the rest of free() gets the *)
(* header it means to find: everything the run `heap' checks of it.        *)
(*                                                                         *)
(* The invariant names what the array only encodes: the set B of headers,  *)
(* the size sz[i] of each block, and the set F of the free ones.  A call   *)
(* is a few moves on these: a block leaves the list, is joined with a      *)
(* neighbour or cut in two, gets its tags, and is put on the list.         *)
(***************************************************************************)
EXTENDS Heap, Numbers, FiniteSetTheorems, TLAPS

-----------------------------------------------------------------------------
(***************************************************************************)
(* The arithmetic of malloc and free.                                      *)
(***************************************************************************)
\* An int holds every number below half of its modulus.
LEMMA NarrowKeeps ==
  ASSUME NEW n \in Nat, n < IntModulus \div 2
  PROVE  Narrow(n) = n
<1>1. IntModulus \in Nat /\ IntModulus >= 16
  BY HeapAssumption DEF HeapAssumption
<1>2. n < IntModulus
  BY <1>1
<1>3. n % IntModulus = n
  BY <1>1, <1>2
<1> QED
  BY <1>3 DEF Narrow

\* The size_t in which the rounding is done does not wrap below the number of
\* bytes an int can count in words.
LEMMA RoundingFits ==
  ASSUME NEW bytes \in Nat, NEW n \in Nat,
         WordBytes * n < bytes + WordBytes, bytes <= WordBytes * n,
         n < IntModulus
  PROVE  ((bytes + (WordBytes - 1)) % SizeModulus) \div WordBytes = n
<1>1. WordBytes \in Nat /\ WordBytes >= 1 /\ IntModulus \in Nat /\ SizeModulus \in Nat
      /\ SizeModulus >= WordBytes * IntModulus
  BY HeapAssumption DEF HeapAssumption
<1> DEFINE a == bytes + (WordBytes - 1)
<1>2. WordBytes * n \in Nat /\ a \in Nat
  BY <1>1
<1>3. WordBytes * n <= a /\ a < WordBytes * n + WordBytes
  BY <1>1, <1>2
<1>4. a < SizeModulus
  <2>1. WordBytes * (n + 1) <= WordBytes * IntModulus
    BY <1>1, FactorsInOrder
  <2>2. WordBytes * (n + 1) = WordBytes * n + WordBytes
    BY <1>1
  <2>3. WordBytes * IntModulus \in Nat
    BY <1>1
  <2> QED
    BY <2>1, <2>2, <2>3, <1>1, <1>2, <1>3
<1>5. a % SizeModulus = a
  BY <1>1, <1>2, <1>4
<1> HIDE DEF a
<1>6. a \div WordBytes = n
  BY <1>1, <1>2, <1>3, QuotientIs
<1>7. (a % SizeModulus) \div WordBytes = n
  BY <1>5, <1>6
<1> QED
  BY <1>7 DEF a

\* malloc's `units' counts the words of the request and two tags, as an int
\* that is not negative.
LEMMA UnitsHoldTheWords ==
  ASSUME NEW bytes \in 0 .. WordBytes * (IntModulus \div 2 - 3)
  PROVE  /\ Units(bytes) \in Nat /\ Units(bytes) >= 4 /\ Units(bytes) <= IntModulus \div 2
         /\ AskedWords(bytes) \in Nat
         /\ AskedWords(bytes) + 2 <= Units(bytes)
         /\ WordBytes * (Units(bytes) - 2) >= bytes
<1>1. WordBytes \in Nat /\ WordBytes >= 1 /\ IntModulus \in Nat /\ IntModulus >= 16
  BY HeapAssumption DEF HeapAssumption
<1> DEFINE half == IntModulus \div 2
<1>2. half \in Nat /\ half >= 8 /\ half < IntModulus
  BY <1>1
<1>3. bytes \in Nat /\ bytes <= WordBytes * (half - 3)
  <2>1. bytes \in 0 .. WordBytes * (half - 3)
    OBVIOUS
  <2>2. WordBytes * (half - 3) \in Nat
    BY <1>1, <1>2
  <2> QED
    BY <2>1, <2>2
<1> HIDE DEF half
<1> DEFINE n == (bytes + (WordBytes - 1)) \div WordBytes
<1>4. /\ n \in Nat
      /\ WordBytes * n <= bytes + (WordBytes - 1)
      /\ bytes + (WordBytes - 1) < WordBytes * n + WordBytes
  BY <1>1, <1>3, Division
<1> HIDE DEF n
<1>5. WordBytes * n \in Nat /\ bytes <= WordBytes * n /\ WordBytes * n < bytes + WordBytes
  BY <1>1, <1>3, <1>4
<1>6. n <= half - 3
  <2> SUFFICES ASSUME half - 2 <= n PROVE FALSE
    BY <1>2, <1>4
  <2>1. WordBytes * (half - 2) <= WordBytes * n
    BY <1>1, <1>2, <1>4, FactorsInOrder
  <2>2. WordBytes * (half - 2) = WordBytes * (half - 3) + WordBytes
    BY <1>1, <1>2
  <2>3. WordBytes * (half - 3) \in Nat
    BY <1>1, <1>2
  <2> QED
    BY <2>1, <2>2, <2>3, <1>1, <1>3, <1>5
<1>7. ((bytes + (WordBytes - 1)) % SizeModulus) \div WordBytes = n
  <2>1. n < IntModulus
    BY <1>1, <1>2, <1>4, <1>6
  <2> QED
    BY <2>1, <1>3, <1>4, <1>5, RoundingFits
<1>8. Narrow(n + 2) = n + 2
  BY <1>2, <1>4, <1>6, NarrowKeeps DEF half
<1>9. Units(bytes) = IF n + 2 < 4 THEN 4 ELSE n + 2
  BY <1>7, <1>8 DEF Units
<1>10. Units(bytes) \in Nat /\ Units(bytes) >= 4 /\ n <= Units(bytes) - 2
       /\ Units(bytes) <= half
  BY <1>2, <1>4, <1>6, <1>9
<1>11. WordBytes * n <= WordBytes * (Units(bytes) - 2)
  BY <1>1, <1>4, <1>10, FactorsInOrder
<1>12. WordBytes * (Units(bytes) - 2) \in Int
  BY <1>1, <1>10
<1>13. AskedWords(bytes) = n
  BY DEF AskedWords, n
<1>14. n + 2 <= Units(bytes)
  BY <1>4, <1>10
<1>15. WordBytes * (Units(bytes) - 2) >= bytes
  BY <1>3, <1>5, <1>11, <1>12
<1> QED
  BY <1>4, <1>10, <1>13, <1>14, <1>15 DEF half

\* A request that clients may make.
LEMMA RequestsAreSmall ==
  ASSUME NEW bytes \in Requests
  PROVE  bytes \in 0 .. WordBytes * (IntModulus \div 2 - 3) /\ bytes \in Nat
BY HeapAssumption DEF HeapAssumption

\* For every request in the range that clients use, the block malloc looks for
\* holds the bytes that were asked for (heap.cpp:148-150).
THEOREM UnitsHoldTheRequest ==
  ASSUME NEW bytes \in Requests
  PROVE  /\ Units(bytes) \in 4 .. IntModulus \div 2
         /\ WordBytes * (Units(bytes) - 2) >= bytes
<1>1. /\ Units(bytes) \in Nat /\ Units(bytes) >= 4 /\ Units(bytes) <= IntModulus \div 2
      /\ WordBytes * (Units(bytes) - 2) >= bytes
  BY RequestsAreSmall, UnitsHoldTheWords
<1>2. IntModulus \div 2 \in Int
  BY HeapAssumption DEF HeapAssumption
<1> QED
  BY <1>1, <1>2

\* A request whose words and tags are as many as an int has values gets a
\* block of four words: two for the client (heap.cpp:149).
THEOREM HugeRequestGetsFourWords ==
  LET bytes == WordBytes * (IntModulus - 2)
  IN  Units(bytes) = 4 /\ WordBytes * (Units(bytes) - 2) < bytes
<1> DEFINE bytes == WordBytes * (IntModulus - 2)
<1>1. WordBytes \in Nat /\ WordBytes >= 1 /\ IntModulus \in Nat /\ IntModulus >= 16
      /\ IntModulus % 2 = 0
  BY HeapAssumption DEF HeapAssumption
<1>2. bytes \in Nat /\ IntModulus - 2 \in Nat
  BY <1>1
<1>3. ((bytes + (WordBytes - 1)) % SizeModulus) \div WordBytes = IntModulus - 2
  <2> DEFINE n == IntModulus - 2
  <2>1. n \in Nat /\ n < IntModulus
    BY <1>1
  <2>2. WordBytes * n < bytes + WordBytes /\ bytes <= WordBytes * n
    BY <1>1, <1>2
  <2> HIDE DEF n, bytes
  <2>3. ((bytes + (WordBytes - 1)) % SizeModulus) \div WordBytes = n
    BY <2>1, <2>2, <1>2, RoundingFits
  <2> QED
    BY <2>3 DEF n
<1>4. Narrow(IntModulus - 2 + 2) = 0
  <2>1. IntModulus - 2 + 2 = IntModulus
    BY <1>1
  <2>2. IntModulus % IntModulus = 0
    BY <1>1
  <2>3. 0 < IntModulus \div 2
    BY <1>1
  <2> QED
    BY <2>1, <2>2, <2>3 DEF Narrow
<1>5. Units(bytes) = 4
  BY <1>3, <1>4 DEF Units
<1>6. WordBytes * 3 <= bytes /\ WordBytes * 3 = WordBytes * 2 + WordBytes
  BY <1>1, FactorsInOrder
<1>7. WordBytes * (4 - 2) < bytes
  BY <1>1, <1>2, <1>6
<1> QED
  BY <1>5, <1>7

-----------------------------------------------------------------------------
\* Dividing the byte offset by the size of a word gives the block's index: the
\* header HeaderSpec hands to free (heap.cpp:209).
THEOREM FreeFindsTheHeader ==
  ASSUME NEW i \in Nat, FreeDivisor = WordBytes
  PROVE  FreeIndex(i) = i
<1>1. WordBytes \in Nat /\ WordBytes >= 1
  BY HeapAssumption DEF HeapAssumption
<1>2. (WordBytes * (i + 1)) \div WordBytes = i + 1
  <2>1. WordBytes * (i + 1) \in Nat /\ i + 1 \in Nat
    BY <1>1
  <2> QED
    BY <2>1, <1>1, QuotientIs
<1> QED
  BY <1>2 DEF FreeIndex

\* Dividing by half of it, as the code does, gives another one for every
\* block: free() never looks at the header of the block it is given
\* (heap.cpp:209-211).
THEOREM FreeMissesTheHeader ==
  ASSUME NEW i \in Nat, WordBytes = 2 * FreeDivisor
  PROVE  FreeIndex(i) = 2 * i + 1 /\ FreeIndex(i) # i
<1>1. FreeDivisor \in Nat /\ FreeDivisor >= 1
  BY HeapAssumption DEF HeapAssumption
<1>2. WordBytes * (i + 1) = FreeDivisor * (2 * (i + 1))
  BY <1>1
<1>3. (FreeDivisor * (2 * (i + 1))) \div FreeDivisor = 2 * (i + 1)
  <2>1. FreeDivisor * (2 * (i + 1)) \in Nat /\ 2 * (i + 1) \in Nat
    BY <1>1
  <2> QED
    BY <2>1, <1>1, QuotientIs
<1> QED
  BY <1>2, <1>3 DEF FreeIndex

-----------------------------------------------------------------------------
(***************************************************************************)
(* Words, tags and links.                                                  *)
(***************************************************************************)
\* The words of the array and the head of the free list (heap.cpp:10-13).
HeapType == [array : [Index -> Int], avail : Index]

\* array[i] = x changes that word alone.
LEMMA WriteWord ==
  ASSUME NEW h \in HeapType, NEW i \in Index, NEW x \in Int
  PROVE  /\ Write(h, i, x) \in HeapType
         /\ Write(h, i, x).avail = h.avail
         /\ \A j : Word(Write(h, i, x), j) = IF j = i THEN x ELSE Word(h, j)
BY DEF HeapType, Write, Word

\* Every word read is an integer.
LEMMA WordType ==
  ASSUME NEW h \in HeapType
  PROVE  \A j : Word(h, j) \in Int
BY DEF HeapType, Word

\* avail = i leaves the array alone.
LEMMA SetAvailIs ==
  ASSUME NEW h \in HeapType, NEW i \in Index
  PROVE  /\ SetAvail(h, i) \in HeapType
         /\ SetAvail(h, i).avail = i
         /\ \A j : Word(SetAvail(h, i), j) = Word(h, j)
BY DEF HeapType, SetAvail, Word

\* The array has room for the sentinels and two blocks.
LEMMA LenType == Len \in Nat /\ Len >= 12 /\ Index = 0 .. Len - 1
BY HeapAssumption DEF HeapAssumption, Index

\* Both tags of a block get its size.
LEMMA SetTagsIs ==
  ASSUME NEW h \in HeapType, NEW i \in Index, NEW x \in Int, i + Abs(x) - 1 \in Index
  PROVE  /\ SetTags(h, i, x) \in HeapType
         /\ SetTags(h, i, x).avail = h.avail
         /\ \A j : Word(SetTags(h, i, x), j) =
                     IF j \in {i, i + Abs(x) - 1} THEN x ELSE Word(h, j)
<1> DEFINE g == Write(h, i, x)
<1>1. g \in HeapType /\ g.avail = h.avail
      /\ \A j : Word(g, j) = IF j = i THEN x ELSE Word(h, j)
  BY WriteWord
<1>2. FooterFromHeader(g, i) = i + Abs(x) - 1
  BY <1>1 DEF FooterFromHeader, Size
<1>3. SetTags(h, i, x) = Write(g, i + Abs(x) - 1, x)
  BY <1>2 DEF SetTags
<1> HIDE DEF g
<1> QED
  BY <1>1, <1>3, WriteWord

-----------------------------------------------------------------------------
(***************************************************************************)
(* The free list.                                                          *)
(***************************************************************************)
\* The blocks of F are where links can be, and linked both ways from avail: a
\* set of them that is not entered from outside holds the head.
Spread(F) ==
  /\ F \subseteq 1 .. Len - 4
  /\ \A i, j \in F : i < j => i + 4 <= j

Linked(h, F) ==
  /\ Spread(F)
  /\ h.avail \in F \union {0}
  /\ \A i \in F :
       /\ Word(h, i + 1) \in F \union {0}
       /\ Word(h, i + 2) \in F \union {0}
       /\ Word(h, i + 1) # 0 => Word(h, Word(h, i + 1) + 2) = i
       /\ Word(h, i + 2) # 0 => Word(h, Word(h, i + 2) + 1) = i
       /\ Word(h, i + 2) = 0 <=> h.avail = i
  /\ \A S \in SUBSET F :
       S # {} /\ h.avail \notin S => \E i \in S : Word(h, i + 2) \notin S

\* The words that hold the links of the blocks of F.
Links(F) == {i + 1 : i \in F} \union {i + 2 : i \in F}

\* A block's links are its own, and apart from the headers of others.
LEMMA SpreadLinks ==
  ASSUME NEW F, Spread(F)
  PROVE  /\ \A i \in F : i \in Index /\ i + 1 \in Index /\ i + 2 \in Index /\ i # 0
         /\ \A i, j \in F : i + 1 # j + 2 /\ i # j + 1 /\ i # j + 2
BY LenType DEF Spread

\* A list stays linked while nobody writes its links.
LEMMA LinkedSame ==
  ASSUME NEW h, NEW g, NEW F, Linked(h, F), g.avail = h.avail,
         \A j \in Links(F) : Word(g, j) = Word(h, j)
  PROVE  Linked(g, F)
<1>1. \A i \in F : Word(g, i + 1) = Word(h, i + 1) /\ Word(g, i + 2) = Word(h, i + 2)
  BY DEF Links
<1> QED
  BY <1>1 DEF Linked

\* What remove() writes: the links of the two neighbours on the list
\* (heap.cpp:83-97).
LEMMA RemoveIs ==
  ASSUME NEW h \in HeapType, NEW F, Linked(h, F), NEW i \in F
  PROVE  LET p == Word(h, i + 2)
             n == Word(h, i + 1)
             g == Remove(h, i)
         IN  /\ g \in HeapType
             /\ g.avail = IF p = 0 THEN n ELSE h.avail
             /\ \A j : Word(g, j) = IF n # 0 /\ j = n + 2 THEN p
                                    ELSE IF p # 0 /\ j = p + 1 THEN n ELSE Word(h, j)
<1> DEFINE p == Word(h, i + 2)
           n == Word(h, i + 1)
           skipped == IF p = 0 THEN SetAvail(h, n) ELSE SetNext(h, p, n)
           g == Remove(h, i)
<1>1. p \in F \union {0} /\ n \in F \union {0} /\ p \in Index /\ n \in Index
      /\ p \in Int /\ n \in Int
  BY LenType, SpreadLinks DEF Linked
<1>2. g = IF n # 0 THEN SetPrev(skipped, n, p) ELSE skipped
  BY DEF Remove, PrevFree, NextFree
<1> HIDE DEF p, n
<1>3. /\ skipped \in HeapType
      /\ skipped.avail = IF p = 0 THEN n ELSE h.avail
      /\ \A j : Word(skipped, j) = IF p # 0 /\ j = p + 1 THEN n ELSE Word(h, j)
  <2>1. CASE p = 0
    BY <1>1, <2>1, SetAvailIs
  <2>2. CASE p # 0
    <3>1. Spread(F) /\ p \in F
      BY <1>1, <2>2 DEF Linked
    <3>2. p + 1 \in Index
      BY <3>1, SpreadLinks
    <3>3. skipped = Write(h, p + 1, n)
      BY <2>2 DEF SetNext
    <3>4. /\ skipped \in HeapType /\ skipped.avail = h.avail
          /\ \A j : Word(skipped, j) = IF j = p + 1 THEN n ELSE Word(h, j)
      <4> DEFINE written == Write(h, p + 1, n)
      <4>1. /\ written \in HeapType /\ written.avail = h.avail
            /\ \A j : Word(written, j) = IF j = p + 1 THEN n ELSE Word(h, j)
        <5>1. p + 1 \in Index /\ n \in Int /\ h \in HeapType
          BY <1>1, <3>2
        <5> QED
          BY <5>1, WriteWord
      <4>2. skipped = written
        BY <3>3
      <4> HIDE DEF skipped, written
      <4> QED
        BY <4>1, <4>2
    <3> QED
      BY <2>2, <3>4, Zenon
  <2> QED
    BY <2>1, <2>2
<1> HIDE DEF skipped, g
<1>4. /\ g \in HeapType
      /\ g.avail = skipped.avail
      /\ \A j : Word(g, j) = IF n # 0 /\ j = n + 2 THEN p ELSE Word(skipped, j)
  <2>1. CASE n = 0
    BY <1>2, <1>3, <2>1
  <2>2. CASE n # 0
    <3>1. Spread(F) /\ n \in F
      BY <1>1, <2>2 DEF Linked
    <3>2. n + 2 \in Index
      BY <3>1, SpreadLinks
    <3>3. g = Write(skipped, n + 2, p)
      BY <1>2, <2>2 DEF SetPrev
    <3>4. /\ g \in HeapType /\ g.avail = skipped.avail
          /\ \A j : Word(g, j) = IF j = n + 2 THEN p ELSE Word(skipped, j)
      <4> DEFINE written == Write(skipped, n + 2, p)
      <4>1. /\ written \in HeapType /\ written.avail = skipped.avail
            /\ \A j : Word(written, j) = IF j = n + 2 THEN p ELSE Word(skipped, j)
        BY <1>1, <1>3, <3>2, WriteWord, ZenonT(60)
      <4>2. g = written
        BY <3>3
      <4> HIDE DEF written
      <4> QED
        BY <4>1, <4>2
    <3> QED
      BY <2>2, <3>4
  <2> QED
    BY <2>1, <2>2
<1> QED
  BY <1>3, <1>4 DEF p, n, g

\* A block that is unlinked leaves the others linked, and only links change.
LEMMA RemoveLinked ==
  ASSUME NEW h \in HeapType, NEW F, Linked(h, F), NEW i \in F
  PROVE  /\ Remove(h, i) \in HeapType
         /\ Linked(Remove(h, i), F \ {i})
         /\ \A j : j \notin Links(F) => Word(Remove(h, i), j) = Word(h, j)
<1> DEFINE p == Word(h, i + 2)
           n == Word(h, i + 1)
           g == Remove(h, i)
<1>1. /\ g \in HeapType
      /\ g.avail = IF p = 0 THEN n ELSE h.avail
      /\ \A j : Word(g, j) = IF n # 0 /\ j = n + 2 THEN p
                             ELSE IF p # 0 /\ j = p + 1 THEN n ELSE Word(h, j)
  BY RemoveIs
<1>2. /\ p \in F \union {0} /\ n \in F \union {0} /\ (p = 0 <=> h.avail = i)
      /\ (n # 0 => Word(h, n + 2) = i) /\ (p # 0 => Word(h, p + 1) = i)
  BY DEF Linked
<1> HIDE DEF p, n, g
<1>3. \A j : j \notin Links(F) => Word(g, j) = Word(h, j)
  BY <1>1, <1>2 DEF Links
<1>4. \A j \in F : j \in Int /\ j # 0
  BY LenType DEF Linked, Spread
<1>5. \A j \in F : /\ Word(g, j + 1) = IF p = j THEN n ELSE Word(h, j + 1)
                   /\ Word(g, j + 2) = IF n = j THEN p ELSE Word(h, j + 2)
  <2>1. \A j, k \in F : j + 1 # k + 2 /\ (j + 1 = k + 1 <=> j = k) /\ (j + 2 = k + 2 <=> j = k)
    BY <1>4, SpreadLinks DEF Linked
  <2> QED
    BY <1>1, <1>2, <1>4, <2>1
<1>6. \A j \in F : (Word(h, j + 1) = i => j = p) /\ (Word(h, j + 2) = i => j = n)
  BY <1>4 DEF Linked, p, n
<1>7. Linked(g, F \ {i})
  <2>1. Spread(F \ {i})
    BY DEF Linked, Spread
  <2>2. g.avail \in (F \ {i}) \union {0}
    BY <1>1, <1>2, <1>4, <1>6 DEF Linked
  <2>3. ASSUME NEW j \in F \ {i}
        PROVE  /\ Word(g, j + 1) \in (F \ {i}) \union {0}
               /\ Word(g, j + 2) \in (F \ {i}) \union {0}
    BY <1>2, <1>4, <1>5, <1>6 DEF Linked
  <2>4. ASSUME NEW j \in F \ {i}, Word(g, j + 1) # 0
        PROVE  Word(g, Word(g, j + 1) + 2) = j
    BY <1>2, <1>4, <1>5, <1>6, <2>3, <2>4 DEF Linked
  <2>5. ASSUME NEW j \in F \ {i}, Word(g, j + 2) # 0
        PROVE  Word(g, Word(g, j + 2) + 1) = j
    BY <1>2, <1>4, <1>5, <1>6, <2>3, <2>5 DEF Linked
  <2>6. ASSUME NEW j \in F \ {i}
        PROVE  Word(g, j + 2) = 0 <=> g.avail = j
    BY <1>1, <1>2, <1>4, <1>5, <1>6 DEF Linked
  <2>7. ASSUME NEW S \in SUBSET (F \ {i}), S # {}, g.avail \notin S
        PROVE  \E j \in S : Word(g, j + 2) \notin S
    <3>1. CASE n \in S
      <4> DEFINE R == S \union {i}
      <4>1. R \in SUBSET F /\ R # {} /\ h.avail \notin R
        BY <1>1, <1>2, <2>7, <3>1
      <4>2. PICK k \in R : Word(h, k + 2) \notin R
        BY <4>1 DEF Linked
      <4>3. n \in F /\ n # 0 /\ Word(h, n + 2) = i
        BY <1>2, <1>4, <2>7, <3>1
      <4>4. CASE k = i
        BY <1>5, <3>1, <4>2, <4>3, <4>4 DEF p
      <4>5. CASE k # i
        BY <1>5, <4>2, <4>3, <4>5
      <4> QED
        BY <4>4, <4>5
    <3>2. CASE n \notin S
      <4>1. S \in SUBSET F /\ h.avail \notin S
        BY <1>1, <1>2, <2>7
      <4>2. PICK k \in S : Word(h, k + 2) \notin S
        BY <2>7, <4>1 DEF Linked
      <4> QED
        BY <1>5, <3>2, <4>1, <4>2
    <3> QED
      BY <3>1, <3>2
  <2> QED
    BY <2>1, <2>2, <2>3, <2>4, <2>5, <2>6, <2>7 DEF Linked
<1> QED
  BY <1>1, <1>3, <1>7 DEF g

\* The words i .. i + n - 1 hold no word of a block of F.
Clear(F, i, n) == \A j \in F : j + 4 <= i \/ i + n <= j

\* There is no link among words clear of the free blocks.
LEMMA ClearOfLinks ==
  ASSUME NEW F, Spread(F), NEW i \in Int, NEW n \in Nat, Clear(F, i, n), NEW k \in i .. i + n - 1
  PROVE  k \notin Links(F)
BY LenType DEF Spread, Clear, Links

\* A block taken from between the free ones changes its tags only.
LEMMA MakeTakenLinked ==
  ASSUME NEW h \in HeapType, NEW F, Linked(h, F),
         NEW i \in Index, NEW n \in Nat, n >= 2, i + n <= Len, Clear(F, i, n)
  PROVE  /\ MakeTaken(h, i, n) \in HeapType
         /\ Linked(MakeTaken(h, i, n), F)
         /\ \A j : Word(MakeTaken(h, i, n), j) =
                     IF j \in {i, i + n - 1} THEN -n ELSE Word(h, j)
<1> DEFINE g == MakeTaken(h, i, n)
<1>1. -n \in Int /\ Abs(-n) = n /\ i + n - 1 \in Index
  BY LenType DEF Abs
<1>2. /\ g \in HeapType /\ g.avail = h.avail
      /\ \A j : Word(g, j) = IF j \in {i, i + n - 1} THEN -n ELSE Word(h, j)
  BY <1>1, SetTagsIs DEF MakeTaken
<1> HIDE DEF g
<1>3. i \notin Links(F) /\ i + n - 1 \notin Links(F)
  BY LenType, ClearOfLinks DEF Linked
<1>4. Linked(g, F)
  BY <1>2, <1>3, LinkedSame
<1> QED
  BY <1>2, <1>4 DEF g

\* What MakeAvail writes: tags, the links of the block, the old head's link.
LEMMA MakeAvailIs ==
  ASSUME NEW h \in HeapType, NEW F, Linked(h, F),
         NEW i \in Index, NEW n \in Nat, n >= 4, i + n <= Len
  PROVE  LET g == MakeAvail(h, i, n) IN
         /\ g \in HeapType
         /\ g.avail = i
         /\ \A j : Word(g, j) =
              IF h.avail # 0 /\ j = h.avail + 2 THEN i
              ELSE IF j = i + 2 THEN 0
              ELSE IF j = i + 1 THEN h.avail
              ELSE IF j \in {i, i + n - 1} THEN n ELSE Word(h, j)
<1> DEFINE a == h.avail
           tagged == SetTags(h, i, n)
           next == Write(tagged, i + 1, a)
           linked == Write(next, i + 2, 0)
           backed == IF a # 0 THEN Write(linked, a + 2, i) ELSE linked
           g == MakeAvail(h, i, n)
<1>0. /\ n \in Int /\ Abs(n) = n /\ i + n - 1 \in Index /\ i + 1 \in Index /\ i + 2 \in Index
      /\ 0 \in Int /\ i \in Int
  BY LenType DEF Abs
<1>1. a \in Index /\ a \in Int /\ (a # 0 => a + 2 \in Index)
  <2>1. a \in Index /\ a \in Int
    BY LenType DEF HeapType
  <2>2. Spread(F) /\ a \in F \union {0}
    BY DEF Linked
  <2> QED
    BY <2>1, <2>2, SpreadLinks
<1>2. g = SetAvail(backed, i)
  BY DEF MakeAvail, SetNext, SetPrev
<1>3. /\ tagged \in HeapType /\ tagged.avail = a
      /\ \A j : Word(tagged, j) = IF j \in {i, i + n - 1} THEN n ELSE Word(h, j)
  BY <1>0, SetTagsIs
<1> HIDE DEF a, tagged
<1>4. /\ next \in HeapType /\ next.avail = tagged.avail
      /\ \A j : Word(next, j) = IF j = i + 1 THEN a ELSE Word(tagged, j)
  <2>1. tagged \in HeapType /\ i + 1 \in Index /\ a \in Int
    BY <1>0, <1>1, <1>3
  <2> QED
    BY <2>1, WriteWord, ZenonT(60)
<1> HIDE DEF next
<1>5. /\ linked \in HeapType /\ linked.avail = next.avail
      /\ \A j : Word(linked, j) = IF j = i + 2 THEN 0 ELSE Word(next, j)
  <2>1. next \in HeapType /\ i + 2 \in Index /\ 0 \in Int
    BY <1>0, <1>4
  <2> QED
    BY <2>1, WriteWord, ZenonT(60)
<1> HIDE DEF linked
<1>6. /\ backed \in HeapType
      /\ \A j : Word(backed, j) = IF a # 0 /\ j = a + 2 THEN i ELSE Word(linked, j)
  <2>1. CASE a = 0
    BY <1>5, <2>1
  <2>2. CASE a # 0
    <3> DEFINE written == Write(linked, a + 2, i)
    <3>1. /\ written \in HeapType
          /\ \A j : Word(written, j) = IF j = a + 2 THEN i ELSE Word(linked, j)
      <4>1. linked \in HeapType /\ a + 2 \in Index /\ i \in Int
        BY <1>0, <1>1, <1>5, <2>2
      <4> QED
        BY <4>1, WriteWord, ZenonT(60)
    <3>2. backed = written
      BY <2>2
    <3> HIDE DEF written, backed
    <3> QED
      BY <2>2, <3>1, <3>2
  <2> QED
    BY <2>1, <2>2
<1> HIDE DEF backed
<1>7. g \in HeapType /\ g.avail = i /\ \A j : Word(g, j) = Word(backed, j)
  BY <1>2, <1>6, SetAvailIs
<1> HIDE DEF g
<1>8. \A j : Word(g, j) =
              IF a # 0 /\ j = a + 2 THEN i
              ELSE IF j = i + 2 THEN 0
              ELSE IF j = i + 1 THEN a
              ELSE IF j \in {i, i + n - 1} THEN n ELSE Word(h, j)
  BY <1>3, <1>4, <1>5, <1>6, <1>7
<1> QED
  BY <1>7, <1>8 DEF g, a

\* Where there are no links, it writes the tags.
LEMMA MakeAvailWords ==
  ASSUME NEW h \in HeapType, NEW F, Linked(h, F),
         NEW i \in Index, NEW n \in Nat, n >= 4, i + n <= Len
  PROVE  \A j : j \notin Links(F \union {i}) =>
           Word(MakeAvail(h, i, n), j) = IF j = i \/ j = i + n - 1 THEN n ELSE Word(h, j)
<1> DEFINE a == h.avail
           g == MakeAvail(h, i, n)
<1>1. \A j : Word(g, j) =
              IF a # 0 /\ j = a + 2 THEN i
              ELSE IF j = i + 2 THEN 0
              ELSE IF j = i + 1 THEN a
              ELSE IF j \in {i, i + n - 1} THEN n ELSE Word(h, j)
  BY MakeAvailIs
<1>2. /\ i + 1 \in Links(F \union {i}) /\ i + 2 \in Links(F \union {i})
      /\ a # 0 => a + 2 \in Links(F \union {i})
  BY DEF Linked, Links
<1> HIDE DEF a, g
<1> SUFFICES ASSUME NEW j, j \notin Links(F \union {i})
             PROVE  Word(g, j) = IF j = i \/ j = i + n - 1 THEN n ELSE Word(h, j)
  BY DEF g
<1> QED
  BY <1>1, <1>2

\* A block put on the list is linked with the others.
LEMMA MakeAvailLinked ==
  ASSUME NEW h \in HeapType, NEW F, Linked(h, F),
         NEW i \in Index, i # 0, NEW n \in Nat, n >= 4, i + n <= Len, Clear(F, i, n)
  PROVE  /\ MakeAvail(h, i, n) \in HeapType
         /\ Linked(MakeAvail(h, i, n), F \union {i})
<1> DEFINE a == h.avail
           g == MakeAvail(h, i, n)
           G == F \union {i}
<1>1. /\ g \in HeapType /\ g.avail = i
      /\ \A j : Word(g, j) =
              IF a # 0 /\ j = a + 2 THEN i
              ELSE IF j = i + 2 THEN 0
              ELSE IF j = i + 1 THEN a
              ELSE IF j \in {i, i + n - 1} THEN n ELSE Word(h, j)
  BY MakeAvailIs
<1>2. a \in F \union {0} /\ Spread(F)
  BY DEF Linked
<1>3. Spread(G) /\ i \notin F
  BY <1>2, LenType DEF Spread, Clear
<1> HIDE DEF a, g
<1>5. Word(g, i + 1) = a /\ Word(g, i + 2) = 0
  <2>1. i + 1 # i + 2 /\ (a # 0 => i + 1 # a + 2 /\ i + 2 # a + 2)
    <3>1. a # 0 => a \in G /\ a # i /\ a \in Int
      BY <1>2, <1>3, LenType DEF Spread
    <3> QED
      BY <1>3, <3>1, SpreadLinks, LenType, SMTT(30)
  <2> QED
    BY <1>1, <2>1
<1>6. \A j \in F : /\ Word(g, j + 1) = Word(h, j + 1)
                   /\ Word(g, j + 2) = IF a = j THEN i ELSE Word(h, j + 2)
  <2> SUFFICES ASSUME NEW j \in F
               PROVE  /\ Word(g, j + 1) = Word(h, j + 1)
                      /\ Word(g, j + 2) = IF a = j THEN i ELSE Word(h, j + 2)
    OBVIOUS
  <2>1. j \in Int /\ j # 0 /\ j # i /\ i \in Int /\ n \in Int
    BY <1>2, <1>3, LenType DEF Spread
  <2>2. j + 1 \notin {i, i + 1, i + 2, i + n - 1} /\ j + 2 \notin {i, i + 1, i + 2, i + n - 1}
    BY <2>1, LenType DEF Clear
  <2>3. a # 0 => (j + 1 # a + 2 /\ (j + 2 = a + 2 <=> a = j))
    <3>1. a # 0 => a \in F /\ a \in Int
      BY <1>2, LenType DEF Spread
    <3> QED
      BY <1>2, <2>1, <3>1, SpreadLinks
  <2> QED
    BY <1>1, <2>1, <2>2, <2>3
<1>7. \A j \in F : j \in Int /\ j # 0
  BY <1>2, LenType DEF Spread
<1>8. Linked(g, G)
  <2>1. g.avail \in G \union {0}
    BY <1>1
  <2>2. Word(g, i + 1) \in G \union {0} /\ Word(g, i + 2) \in G \union {0}
    BY <1>2, <1>5
  <2>3. Word(g, i + 1) # 0 => Word(g, Word(g, i + 1) + 2) = i
    BY <1>2, <1>5, <1>6
  <2>4. (Word(g, i + 2) # 0 => Word(g, Word(g, i + 2) + 1) = i)
        /\ (Word(g, i + 2) = 0 <=> g.avail = i)
    BY <1>1, <1>5
  <2>5. ASSUME NEW j \in F
        PROVE  /\ Word(g, j + 1) \in G \union {0} /\ Word(g, j + 2) \in G \union {0}
               /\ Word(g, j + 1) # 0 => Word(g, Word(g, j + 1) + 2) = j
               /\ Word(g, j + 2) # 0 => Word(g, Word(g, j + 2) + 1) = j
               /\ Word(g, j + 2) = 0 <=> g.avail = j
    <3>1. /\ Word(h, j + 1) \in F \union {0} /\ Word(h, j + 2) \in F \union {0}
          /\ Word(h, j + 1) # 0 => Word(h, Word(h, j + 1) + 2) = j
          /\ Word(h, j + 2) # 0 => Word(h, Word(h, j + 2) + 1) = j
          /\ Word(h, j + 2) = 0 <=> a = j
      BY DEF Linked, a
    <3>2. Word(g, j + 1) \in G \union {0} /\ Word(g, j + 2) \in G \union {0}
      BY <1>6, <3>1
    <3>3. ASSUME Word(g, j + 1) # 0 PROVE Word(g, Word(g, j + 1) + 2) = j
      <4> DEFINE k == Word(h, j + 1)
      <4>1. k \in F /\ Word(h, k + 2) = j /\ Word(g, j + 1) = k
        BY <1>6, <3>1, <3>3
      <4>2. a # k
        <5>1. Word(h, k + 2) = 0 <=> a = k
          BY <4>1 DEF Linked, a
        <5> QED
          BY <1>7, <4>1, <5>1
      <4> HIDE DEF k
      <4> QED
        BY <1>6, <4>1, <4>2
    <3>4. ASSUME Word(g, j + 2) # 0 PROVE Word(g, Word(g, j + 2) + 1) = j
      <4>1. CASE a = j
        BY <1>5, <1>6, <4>1
      <4>2. CASE a # j
        BY <1>6, <3>1, <3>4, <4>2
      <4> QED
        BY <4>1, <4>2
    <3>5. Word(g, j + 2) = 0 <=> g.avail = j
      BY <1>1, <1>3, <1>6, <3>1
    <3> QED
      BY <3>2, <3>3, <3>4, <3>5
  <2>6. ASSUME NEW S \in SUBSET G, S # {}, g.avail \notin S
        PROVE  \E j \in S : Word(g, j + 2) \notin S
    <3>1. S \in SUBSET F /\ i \notin S
      BY <1>1, <2>6
    <3>2. CASE a \in S
      BY <1>6, <3>1, <3>2
    <3>3. CASE a \notin S
      <4>1. PICK k \in S : Word(h, k + 2) \notin S
        BY <2>6, <3>1, <3>3 DEF Linked, a
      <4> QED
        BY <1>6, <3>1, <3>3, <4>1
    <3> QED
      BY <3>2, <3>3
  <2> QED
    BY <1>3, <2>1, <2>2, <2>3, <2>4, <2>5, <2>6 DEF Linked
<1> QED
  BY <1>1, <1>8 DEF g

-----------------------------------------------------------------------------
(***************************************************************************)
(* Blocks that tile the array.                                             *)
(***************************************************************************)
\* The headers B with the sizes sz tile the heap between the sentinels.
Sentinels == {0, Len - 2}

Tiling(B, sz) ==
  /\ B \subseteq Index /\ Sentinels \subseteq B
  /\ sz \in [B -> Nat]
  /\ \A i \in B : IF i \in Sentinels THEN sz[i] = 2 ELSE sz[i] >= 4
  /\ \A i \in B : i # Len - 2 => i + sz[i] \in B
  /\ \A i \in B : i # 0 => \E l \in B : l + sz[l] = i
  /\ \A i, j \in B : i < j => i + sz[i] <= j

\* The blocks lie within the array, and those of clients have four words.
LEMMA TilingTypes ==
  ASSUME NEW B, NEW sz, Tiling(B, sz)
  PROVE  /\ 0 \in B /\ Len - 2 \in B
         /\ \A i \in B : /\ i \in Nat /\ i \in Index /\ sz[i] \in Nat /\ sz[i] >= 2
                         /\ i <= Len - 2 /\ i + sz[i] <= Len
                         /\ i \notin Sentinels => sz[i] >= 4
<1>1. Len \in Nat /\ Len >= 12 /\ Index = 0 .. Len - 1
  BY LenType
<1>2. B \subseteq Index /\ 0 \in B /\ Len - 2 \in B /\ sz[Len - 2] = 2
  BY DEF Tiling, Sentinels
<1> SUFFICES ASSUME NEW i \in B
             PROVE  /\ i \in Nat /\ i \in Index /\ sz[i] \in Nat /\ sz[i] >= 2
                    /\ i <= Len - 2 /\ i + sz[i] <= Len
                    /\ i \notin Sentinels => sz[i] >= 4
  BY <1>2
<1>3. i \in Nat /\ i \in Index /\ sz[i] \in Nat /\ sz[i] >= 2 /\ (i \notin Sentinels => sz[i] >= 4)
  BY <1>1, <1>2 DEF Tiling
<1>4. i <= Len - 2
  <2>1. Len - 2 < i => Len - 2 + 2 <= i
    BY <1>2 DEF Tiling
  <2> QED
    BY <1>1, <1>2, <1>3, <2>1
<1>5. i + sz[i] <= Len
  <2>1. i < Len - 2 => i + sz[i] <= Len - 2
    BY <1>2 DEF Tiling
  <2> QED
    BY <1>1, <1>2, <1>3, <1>4, <2>1
<1> QED
  BY <1>3, <1>4, <1>5

\* Two blocks do not overlap.
LEMMA BlocksApart ==
  ASSUME NEW B, NEW sz, Tiling(B, sz), NEW i \in B, NEW j \in B, i # j
  PROVE  i + sz[i] <= j \/ j + sz[j] <= i
<1>1. i \in Nat /\ j \in Nat
  BY TilingTypes
<1> QED
  BY <1>1 DEF Tiling

\* A block cut in two.
CutBlocks(B, i, u) == B \union {i + u}
CutSizes(B, sz, i, u) ==
  [j \in CutBlocks(B, i, u) |->
     IF j = i THEN u ELSE IF j = i + u THEN sz[i] - u ELSE sz[j]]

\* The two parts of a block tile what it did (heap.cpp:186-188).
LEMMA CutTiling ==
  ASSUME NEW B, NEW sz, Tiling(B, sz), NEW i \in B, i \notin Sentinels,
         NEW u \in Nat, u >= 4, sz[i] - u >= 4
  PROVE  /\ Tiling(CutBlocks(B, i, u), CutSizes(B, sz, i, u))
         /\ i + u \notin B
<1> DEFINE C == CutBlocks(B, i, u)
           tz == CutSizes(B, sz, i, u)
<1>1. /\ \A j \in B : j \in Nat /\ sz[j] \in Nat /\ sz[j] >= 2 /\ j \in Index
      /\ i + sz[i] <= Len /\ 0 \in B /\ Len - 2 \in B
  BY TilingTypes
<1>2. \A j \in B : j # i => i + sz[i] <= j \/ j + sz[j] <= i
  BY BlocksApart
<1>3. i + u \in Nat /\ i + u \notin B /\ i + u \in Index /\ i + u \notin Sentinels
  <2>1. i + u \in Nat /\ i + u \in Index
    BY <1>1, LenType
  <2>2. i + u \notin B
    BY <1>1, <1>2
  <2> QED
    BY <1>1, <2>1, <2>2 DEF Sentinels
<1>4. /\ tz[i] = u /\ tz[i + u] = sz[i] - u /\ sz[i] - u \in Nat
      /\ \A j \in B : j # i => tz[j] = sz[j]
      /\ C = B \union {i + u}
      /\ tz \in [C -> Nat]
  BY <1>1, <1>3 DEF CutBlocks, CutSizes
<1> HIDE DEF C, tz
<1>5. C \subseteq Index /\ Sentinels \subseteq C
  BY <1>1, <1>3, <1>4 DEF Sentinels
<1>6. \A j \in C : IF j \in Sentinels THEN tz[j] = 2 ELSE tz[j] >= 4
  BY <1>3, <1>4 DEF Tiling
<1>7. \A j \in C : j # Len - 2 => j + tz[j] \in C
  <2>1. i + sz[i] \in B /\ i + u + (sz[i] - u) = i + sz[i]
    BY <1>1 DEF Tiling, Sentinels
  <2> QED
    BY <1>3, <1>4, <2>1 DEF Tiling
<1>8. \A j \in C : j # 0 => \E l \in C : l + tz[l] = j
  <2> SUFFICES ASSUME NEW j \in C, j # 0 PROVE \E l \in C : l + tz[l] = j
    OBVIOUS
  <2>1. CASE j = i + u
    BY <1>4, <2>1
  <2>2. CASE j \in B
    <3>1. PICK l \in B : l + sz[l] = j
      BY <2>2 DEF Tiling
    <3>2. CASE l = i
      BY <1>1, <1>4, <3>1, <3>2
    <3>3. CASE l # i
      BY <1>4, <3>1, <3>3
    <3> QED
      BY <3>2, <3>3
  <2> QED
    BY <1>4, <2>1, <2>2
<1>9. \A j, k \in C : j < k => j + tz[j] <= k
  <2> SUFFICES ASSUME NEW j \in C, NEW k \in C, j < k PROVE j + tz[j] <= k
    OBVIOUS
  <2>1. CASE j \in B /\ k \in B
    <3>1. j + sz[j] <= k
      BY <2>1 DEF Tiling
    <3> QED
      BY <1>1, <1>4, <2>1, <3>1
  <2>2. CASE j = i + u /\ k \in B
    BY <1>1, <1>2, <1>3, <1>4, <2>2
  <2>3. CASE j \in B /\ k = i + u
    BY <1>1, <1>2, <1>3, <1>4, <2>3
  <2> QED
    BY <1>1, <1>3, <1>4, <2>1, <2>2, <2>3
<1> QED
  BY <1>3, <1>4, <1>5, <1>6, <1>7, <1>8, <1>9 DEF Tiling, C, tz

\* A block and its right neighbour made one.
JoinedBlocks(B, r) == B \ {r}
JoinedSizes(B, sz, i, r) ==
  [j \in JoinedBlocks(B, r) |-> IF j = i THEN sz[i] + sz[r] ELSE sz[j]]

\* Two neighbours made one tile what they did (heap.cpp:221-232).
LEMMA JoinTiling ==
  ASSUME NEW B, NEW sz, Tiling(B, sz), NEW i \in B, NEW r \in B,
         i \notin Sentinels, r \notin Sentinels, r = i + sz[i]
  PROVE  Tiling(JoinedBlocks(B, r), JoinedSizes(B, sz, i, r))
<1> DEFINE C == JoinedBlocks(B, r)
           tz == JoinedSizes(B, sz, i, r)
<1>1. /\ \A j \in B : j \in Nat /\ sz[j] \in Nat /\ sz[j] >= 2 /\ j \in Index
      /\ 0 \in B /\ Len - 2 \in B /\ Len - 2 \in Nat
  BY TilingTypes, LenType
<1>2. /\ C = B \ {r} /\ i # r /\ i \in C
      /\ tz[i] = sz[i] + sz[r]
      /\ \A j \in C : j # i => tz[j] = sz[j]
      /\ tz \in [C -> Nat]
  <2>1. i # r /\ sz[i] + sz[r] \in Nat
    BY <1>1
  <2> QED
    BY <1>1, <2>1 DEF JoinedBlocks, JoinedSizes
<1> HIDE DEF C, tz
<1>3. C \subseteq Index /\ Sentinels \subseteq C
  BY <1>1, <1>2 DEF Sentinels
<1>4. \A j \in C : IF j \in Sentinels THEN tz[j] = 2 ELSE tz[j] >= 4
  BY <1>1, <1>2 DEF Tiling
<1>5. i + tz[i] = r + sz[r]
  BY <1>1, <1>2
<1>6. \A j \in C : j # Len - 2 => j + tz[j] \in C
  <2> SUFFICES ASSUME NEW j \in C, j # Len - 2 PROVE j + tz[j] \in C
    OBVIOUS
  <2>1. CASE j = i
    <3>1. r + sz[r] \in B /\ r + sz[r] # r
      BY <1>1 DEF Tiling, Sentinels
    <3> QED
      BY <1>2, <1>5, <2>1, <3>1
  <2>2. CASE j # i
    <3>1. j + sz[j] \in B
      BY <1>2 DEF Tiling
    <3>2. j + sz[j] # r
      <4>1. j + sz[j] <= i \/ i + sz[i] <= j
        BY <1>2, <2>2, BlocksApart
      <4> QED
        BY <1>1, <1>2, <4>1
    <3> QED
      BY <1>2, <2>2, <3>1, <3>2
  <2> QED
    BY <2>1, <2>2
<1>7. \A j \in C : j # 0 => \E l \in C : l + tz[l] = j
  <2> SUFFICES ASSUME NEW j \in C, j # 0 PROVE \E l \in C : l + tz[l] = j
    OBVIOUS
  <2>1. PICK l \in B : l + sz[l] = j
    BY <1>2 DEF Tiling
  <2>2. CASE l = r
    BY <1>2, <1>5, <2>1, <2>2
  <2>3. CASE l # r
    <3>1. l # i
      BY <1>2, <2>1
    <3> QED
      BY <1>2, <2>1, <2>3, <3>1
  <2> QED
    BY <2>2, <2>3
<1>8. \A j, k \in C : j < k => j + tz[j] <= k
  <2> SUFFICES ASSUME NEW j \in C, NEW k \in C, j < k PROVE j + tz[j] <= k
    OBVIOUS
  <2>1. CASE j = i
    <3>1. i + sz[i] <= k /\ k # r
      BY <1>2, <2>1 DEF Tiling
    <3>2. r + sz[r] <= k
      BY <1>1, <1>2, <3>1 DEF Tiling
    <3> QED
      BY <1>5, <2>1, <3>2
  <2>2. CASE j # i
    BY <1>2, <2>2 DEF Tiling
  <2> QED
    BY <2>1, <2>2
<1> QED
  BY <1>2, <1>3, <1>4, <1>6, <1>7, <1>8 DEF Tiling, C, tz

-----------------------------------------------------------------------------
(***************************************************************************)
(* The moves the calls are made of.                                        *)
(***************************************************************************)
\* The two tags of a block.
TagsAre(h, sz, i, x) == Word(h, i) = x /\ Word(h, i + sz[i] - 1) = x

\* The tag of a block: its size if it is free, else the size negated.
TagOf(sz, F, i) == IF i \in F THEN sz[i] ELSE -sz[i]

\* A heap of the blocks B of the sizes sz, of which F are free.
Shape(h, B, sz, F) ==
  /\ h \in HeapType
  /\ Tiling(B, sz)
  /\ F \subseteq B \ Sentinels
  /\ Linked(h, F)
  /\ \A i \in B : TagsAre(h, sz, i, TagOf(sz, F, i))

\* The same, but for the tags of block i, which is not on the list.
Loose(h, B, sz, F, i) ==
  /\ h \in HeapType
  /\ Tiling(B, sz)
  /\ F \subseteq B \ Sentinels
  /\ Linked(h, F)
  /\ i \in B /\ i \notin F /\ i \notin Sentinels
  /\ \A j \in B \ {i} : TagsAre(h, sz, j, TagOf(sz, F, j))

\* The blocks T keep their sizes and their words.
Keeps(h, sz, g, tz, T) ==
  \A j \in T :
    /\ tz[j] = sz[j]
    /\ \A k \in j .. j + sz[j] - 1 : Word(g, k) = Word(h, k)

\* What two moves keep, both keep.
LEMMA KeepsOn ==
  ASSUME NEW h, NEW sz, NEW g, NEW tz, NEW f, NEW uz, NEW T,
         Keeps(h, sz, g, tz, T), Keeps(g, tz, f, uz, T)
  PROVE  Keeps(h, sz, f, uz, T)
BY DEF Keeps

\* Where the links of free blocks are not.
LEMMA NoLinkThere ==
  ASSUME NEW B, NEW sz, Tiling(B, sz), NEW F, F \subseteq B \ Sentinels, NEW j \in B
  PROVE  /\ j \notin Links(F) /\ j + sz[j] - 1 \notin Links(F)
         /\ j \notin F => \A k \in j .. j + sz[j] - 1 : k \notin Links(F)
<1>1. j \in Nat /\ sz[j] \in Nat /\ sz[j] >= 2
  BY TilingTypes
<1>2. ASSUME NEW f \in F, f # j
      PROVE  \A k \in j .. j + sz[j] - 1 : k # f + 1 /\ k # f + 2
  <2>1. f \in B /\ f \in Nat /\ sz[f] \in Nat /\ sz[f] >= 4
    BY TilingTypes
  <2>2. f + sz[f] <= j \/ j + sz[j] <= f
    BY <1>2, <2>1, BlocksApart
  <2> QED
    BY <1>1, <2>1, <2>2
<1>3. j \in F => sz[j] >= 4
  BY TilingTypes
<1>4. j \in j .. j + sz[j] - 1 /\ j + sz[j] - 1 \in j .. j + sz[j] - 1
  BY <1>1
<1>5. j # j + 1 /\ j # j + 2
  BY <1>1
<1>6. j \in F => j + sz[j] - 1 # j + 1 /\ j + sz[j] - 1 # j + 2
  BY <1>1, <1>3
<1>7. \A k \in j .. j + sz[j] - 1 : j \notin F => k \notin Links(F)
  BY <1>2 DEF Links
<1>8. j \notin Links(F)
  BY <1>2, <1>4, <1>5 DEF Links
<1>9. j + sz[j] - 1 \notin Links(F)
  BY <1>2, <1>4, <1>6 DEF Links
<1> QED
  BY <1>7, <1>8, <1>9

\* Free blocks lie clear of any other block.
LEMMA ClearOfBlock ==
  ASSUME NEW B, NEW sz, Tiling(B, sz), NEW F, F \subseteq B \ Sentinels,
         NEW i \in B, i \notin F, NEW n \in Nat, n <= sz[i]
  PROVE  Clear(F, i, n)
<1>1. \A j \in F : /\ j \in Nat /\ i \in Nat /\ sz[i] \in Nat /\ sz[j] \in Nat /\ sz[j] >= 4
                   /\ (j + sz[j] <= i \/ i + sz[i] <= j)
  BY TilingTypes, BlocksApart
<1> QED
  BY <1>1 DEF Clear

\* The tags of other blocks are not words of block i.
LEMMA OtherTags ==
  ASSUME NEW B, NEW sz, Tiling(B, sz), NEW i \in B, NEW j \in B, i # j,
         NEW k \in j .. j + sz[j] - 1
  PROVE  k \notin i .. i + sz[i] - 1
<1>1. i \in Nat /\ j \in Nat /\ sz[i] \in Nat /\ sz[j] \in Nat
  BY TilingTypes
<1>2. i + sz[i] <= j \/ j + sz[j] <= i
  BY BlocksApart
<1> QED
  BY <1>1, <1>2

\* The tags of a block are its first and last words.
LEMMA OwnWords ==
  ASSUME NEW B, NEW sz, Tiling(B, sz), NEW j \in B
  PROVE  j \in j .. j + sz[j] - 1 /\ j + sz[j] - 1 \in j .. j + sz[j] - 1
<1>1. j \in Nat /\ sz[j] \in Nat /\ sz[j] >= 2
  BY TilingTypes
<1> QED
  BY <1>1

\* A taken block's tags may be forgotten.
LEMMA Loosen ==
  ASSUME NEW h, NEW B, NEW sz, NEW F, Shape(h, B, sz, F),
         NEW i \in B, i \notin F, i \notin Sentinels
  PROVE  Loose(h, B, sz, F, i)
BY DEF Shape, Loose

\* remove(): a free block leaves the list.
LEMMA RemoveShape ==
  ASSUME NEW h \in HeapType, NEW B, NEW sz, Tiling(B, sz), NEW F, F \subseteq B \ Sentinels,
         Linked(h, F), NEW i \in F
  PROVE  /\ Remove(h, i) \in HeapType
         /\ Linked(Remove(h, i), F \ {i})
         /\ \A j \in B : \A x : TagsAre(h, sz, j, x) => TagsAre(Remove(h, i), sz, j, x)
         /\ Keeps(h, sz, Remove(h, i), sz, B \ F)
<1> DEFINE g == Remove(h, i)
<1>1. /\ g \in HeapType /\ Linked(g, F \ {i})
      /\ \A j : j \notin Links(F) => Word(g, j) = Word(h, j)
  BY RemoveLinked
<1> HIDE DEF g
<1>2. ASSUME NEW j \in B, NEW x, TagsAre(h, sz, j, x) PROVE TagsAre(g, sz, j, x)
  <2>1. j \notin Links(F) /\ j + sz[j] - 1 \notin Links(F)
    BY NoLinkThere
  <2> QED
    BY <1>1, <1>2, <2>1 DEF TagsAre
<1>3. Keeps(h, sz, g, sz, B \ F)
  <2>1. \A j \in B \ F : \A k \in j .. j + sz[j] - 1 : k \notin Links(F)
    BY NoLinkThere
  <2> QED
    BY <1>1, <2>1 DEF Keeps
<1> QED
  BY <1>1, <1>2, <1>3 DEF g

\* After remove() the block's tags are free to change.
LEMMA TakenOff ==
  ASSUME NEW h, NEW B, NEW sz, NEW F, Shape(h, B, sz, F), NEW i \in F
  PROVE  /\ Loose(Remove(h, i), B, sz, F \ {i}, i)
         /\ Keeps(h, sz, Remove(h, i), sz, B \ F)
<1> DEFINE g == Remove(h, i)
<1>1. /\ h \in HeapType /\ Tiling(B, sz) /\ F \subseteq B \ Sentinels /\ Linked(h, F)
      /\ \A j \in B : TagsAre(h, sz, j, TagOf(sz, F, j))
  BY DEF Shape
<1>2. /\ g \in HeapType /\ Linked(g, F \ {i})
      /\ \A j \in B : \A x : TagsAre(h, sz, j, x) => TagsAre(g, sz, j, x)
      /\ Keeps(h, sz, g, sz, B \ F)
  BY <1>1, RemoveShape
<1> HIDE DEF g
<1>3. \A j \in B \ {i} : TagsAre(g, sz, j, TagOf(sz, F \ {i}, j))
  BY <1>1, <1>2 DEF TagOf
<1> QED
  BY <1>1, <1>2, <1>3 DEF Loose, g

\* A block's tags are set and it stays taken.
LEMMA PutTaken ==
  ASSUME NEW h, NEW B, NEW sz, NEW F, NEW i, Loose(h, B, sz, F, i)
  PROVE  /\ Shape(MakeTaken(h, i, sz[i]), B, sz, F)
         /\ Keeps(h, sz, MakeTaken(h, i, sz[i]), sz, (B \ F) \ {i})
<1> DEFINE g == MakeTaken(h, i, sz[i])
<1>1. /\ h \in HeapType /\ Tiling(B, sz) /\ F \subseteq B \ Sentinels /\ Linked(h, F)
      /\ i \in B /\ i \notin F
      /\ \A j \in B \ {i} : TagsAre(h, sz, j, TagOf(sz, F, j))
  BY DEF Loose
<1>2. i \in Index /\ sz[i] \in Nat /\ sz[i] >= 2 /\ i + sz[i] <= Len
  BY <1>1, TilingTypes
<1>3. Clear(F, i, sz[i])
  BY <1>1, <1>2, ClearOfBlock
<1>4. /\ g \in HeapType /\ Linked(g, F)
      /\ \A j : Word(g, j) = IF j \in {i, i + sz[i] - 1} THEN -sz[i] ELSE Word(h, j)
  BY <1>1, <1>2, <1>3, MakeTakenLinked
<1> HIDE DEF g
<1>5. ASSUME NEW j \in B, j # i, NEW k \in j .. j + sz[j] - 1
      PROVE  Word(g, k) = Word(h, k)
  <2>1. k \notin i .. i + sz[i] - 1
    BY <1>1, <1>5, OtherTags
  <2>2. i \in i .. i + sz[i] - 1 /\ i + sz[i] - 1 \in i .. i + sz[i] - 1
    BY <1>1, OwnWords
  <2> QED
    BY <1>4, <2>1, <2>2
<1>6. TagsAre(g, sz, i, TagOf(sz, F, i))
  BY <1>1, <1>4 DEF TagsAre, TagOf
<1>7. \A j \in B : j # i => TagsAre(g, sz, j, TagOf(sz, F, j))
  <2>1. \A j \in B : j \in j .. j + sz[j] - 1 /\ j + sz[j] - 1 \in j .. j + sz[j] - 1
    BY <1>1, OwnWords
  <2> QED
    BY <1>1, <1>5, <2>1 DEF TagsAre
<1>8. Shape(g, B, sz, F)
  BY <1>1, <1>4, <1>6, <1>7 DEF Shape
<1>9. Keeps(h, sz, g, sz, (B \ F) \ {i})
  BY <1>5 DEF Keeps
<1> QED
  BY <1>8, <1>9 DEF g

\* A block's tags are set and it becomes the head of the list.
LEMMA PutFree ==
  ASSUME NEW h, NEW B, NEW sz, NEW F, NEW i, Loose(h, B, sz, F, i)
  PROVE  /\ Shape(MakeAvail(h, i, sz[i]), B, sz, F \union {i})
         /\ Keeps(h, sz, MakeAvail(h, i, sz[i]), sz, (B \ F) \ {i})
<1> DEFINE g == MakeAvail(h, i, sz[i])
           G == F \union {i}
<1>1. /\ h \in HeapType /\ Tiling(B, sz) /\ F \subseteq B \ Sentinels /\ Linked(h, F)
      /\ i \in B /\ i \notin F /\ i \notin Sentinels
      /\ \A j \in B \ {i} : TagsAre(h, sz, j, TagOf(sz, F, j))
  BY DEF Loose
<1>2. i \in Index /\ sz[i] \in Nat /\ sz[i] >= 4 /\ i + sz[i] <= Len
  BY <1>1, TilingTypes
<1>3. Clear(F, i, sz[i]) /\ i # 0
  BY <1>1, <1>2, ClearOfBlock DEF Sentinels
<1>4. /\ g \in HeapType /\ Linked(g, G)
      /\ \A j : j \notin Links(G) =>
           Word(g, j) = IF j = i \/ j = i + sz[i] - 1 THEN sz[i] ELSE Word(h, j)
  <2> DEFINE n == sz[i]
  <2>1. h \in HeapType /\ Linked(h, F) /\ i \in Index /\ i # 0
        /\ n \in Nat /\ n >= 4 /\ i + n <= Len /\ Clear(F, i, n)
    BY <1>1, <1>2, <1>3
  <2> HIDE DEF n
  <2>2. MakeAvail(h, i, n) \in HeapType /\ Linked(MakeAvail(h, i, n), F \union {i})
    BY <2>1, MakeAvailLinked
  <2>3. \A j : j \notin Links(F \union {i}) =>
          Word(MakeAvail(h, i, n), j) = IF j = i \/ j = i + n - 1 THEN n ELSE Word(h, j)
    BY <2>1, MakeAvailWords
  <2> QED
    BY <2>2, <2>3 DEF n
<1> HIDE DEF g
<1>5. G \subseteq B \ Sentinels
  BY <1>1
<1> HIDE DEF G
<1>6. ASSUME NEW j \in B, j # i, NEW k \in j .. j + sz[j] - 1, k \notin Links(G)
      PROVE  Word(g, k) = Word(h, k)
  <2>1. k \notin i .. i + sz[i] - 1
    BY <1>1, <1>6, OtherTags
  <2>2. i \in i .. i + sz[i] - 1 /\ i + sz[i] - 1 \in i .. i + sz[i] - 1
    BY <1>1, OwnWords
  <2> QED
    BY <1>4, <1>6, <2>1, <2>2
<1>7. \A j \in B : j \notin Links(G) /\ j + sz[j] - 1 \notin Links(G)
  BY <1>1, <1>5, NoLinkThere
<1>8. TagsAre(g, sz, i, TagOf(sz, G, i))
  BY <1>1, <1>4, <1>7 DEF TagsAre, TagOf, G
<1>9. \A j \in B : j # i => TagsAre(g, sz, j, TagOf(sz, G, j))
  <2>1. \A j \in B : j \in j .. j + sz[j] - 1 /\ j + sz[j] - 1 \in j .. j + sz[j] - 1
    BY <1>1, OwnWords
  <2>2. \A j \in B : j # i => TagOf(sz, G, j) = TagOf(sz, F, j)
    BY DEF TagOf, G
  <2> QED
    BY <1>1, <1>6, <1>7, <2>1, <2>2 DEF TagsAre
<1>10. Shape(g, B, sz, G)
  BY <1>1, <1>4, <1>5, <1>8, <1>9 DEF Shape
<1>11. Keeps(h, sz, g, sz, (B \ F) \ {i})
  <2>1. \A j \in (B \ F) \ {i} : \A k \in j .. j + sz[j] - 1 : k \notin Links(G)
    BY <1>1, <1>5, NoLinkThere DEF G
  <2> QED
    BY <1>6, <2>1 DEF Keeps
<1> QED
  BY <1>10, <1>11 DEF g, G

\* A loose block and its free right neighbour, made one.
LEMMA JoinRight ==
  ASSUME NEW h, NEW B, NEW sz, NEW F, NEW i, Loose(h, B, sz, F, i),
         NEW r \in F, i + sz[i] = r
  PROVE  /\ Loose(Remove(h, r), JoinedBlocks(B, r), JoinedSizes(B, sz, i, r), F \ {r}, i)
         /\ Keeps(h, sz, Remove(h, r), JoinedSizes(B, sz, i, r), (B \ F) \ {i})
         /\ Word(Remove(h, r), r) = sz[r]
         /\ JoinedSizes(B, sz, i, r)[i] = sz[i] + sz[r]
<1> DEFINE g == Remove(h, r)
           C == JoinedBlocks(B, r)
           tz == JoinedSizes(B, sz, i, r)
           G == F \ {r}
<1>1. /\ h \in HeapType /\ Tiling(B, sz) /\ F \subseteq B \ Sentinels /\ Linked(h, F)
      /\ i \in B /\ i \notin F /\ i \notin Sentinels
      /\ \A j \in B \ {i} : TagsAre(h, sz, j, TagOf(sz, F, j))
  BY DEF Loose
<1>2. /\ g \in HeapType /\ Linked(g, G)
      /\ \A j \in B : \A x : TagsAre(h, sz, j, x) => TagsAre(g, sz, j, x)
      /\ Keeps(h, sz, g, sz, B \ F)
  BY <1>1, RemoveShape
<1> HIDE DEF g
<1>3. Tiling(C, tz)
  <2>1. r \in B /\ r \notin Sentinels
    BY <1>1
  <2> QED
    BY <1>1, <2>1, JoinTiling
<1>4. /\ C = B \ {r} /\ i \in C
      /\ \A j \in C : tz[j] = IF j = i THEN sz[i] + sz[r] ELSE sz[j]
  BY <1>1 DEF JoinedBlocks, JoinedSizes
<1> HIDE DEF C, tz
<1>5. G \subseteq C \ Sentinels /\ i \notin G
  BY <1>1, <1>4
<1>6. \A j \in C \ {i} : TagsAre(g, tz, j, TagOf(tz, G, j))
  <2> SUFFICES ASSUME NEW j \in C \ {i} PROVE TagsAre(g, tz, j, TagOf(tz, G, j))
    OBVIOUS
  <2>1. TagsAre(g, sz, j, TagOf(sz, F, j))
    BY <1>1, <1>2, <1>4
  <2>2. tz[j] = sz[j] /\ (j \in F <=> j \in G)
    BY <1>4
  <2> QED
    BY <2>1, <2>2 DEF TagsAre, TagOf
<1>7. Loose(g, C, tz, G, i)
  BY <1>1, <1>2, <1>3, <1>4, <1>5, <1>6 DEF Loose
<1>8. Keeps(h, sz, g, tz, (B \ F) \ {i})
  BY <1>2, <1>4 DEF Keeps
<1>9. Word(g, r) = sz[r]
  <2>1. TagsAre(h, sz, r, TagOf(sz, F, r))
    BY <1>1
  <2> QED
    BY <1>1, <1>2, <2>1 DEF TagsAre, TagOf
<1> QED
  BY <1>4, <1>7, <1>8, <1>9 DEF g, C, tz

\* A loose block and its free left neighbour.
LEMMA JoinLeft ==
  ASSUME NEW h, NEW B, NEW sz, NEW F, NEW i, Loose(h, B, sz, F, i),
         NEW l \in F, i = l + sz[l]
  PROVE  LET g == Remove(h, l)
             C == JoinedBlocks(B, i)
             tz == JoinedSizes(B, sz, l, i)
         IN  /\ Loose(g, C, tz, F \ {l}, l)
             /\ Keeps(h, sz, g, tz, (B \ F) \ {i})
             /\ Word(g, l) = sz[l]
             /\ tz[l] = sz[l] + sz[i]
<1> DEFINE g == Remove(h, l)
           C == JoinedBlocks(B, i)
           tz == JoinedSizes(B, sz, l, i)
           G == F \ {l}
<1>1. /\ h \in HeapType /\ Tiling(B, sz) /\ F \subseteq B \ Sentinels /\ Linked(h, F)
      /\ i \in B /\ i \notin F /\ i \notin Sentinels
      /\ \A j \in B \ {i} : TagsAre(h, sz, j, TagOf(sz, F, j))
  BY DEF Loose
<1>2. /\ g \in HeapType /\ Linked(g, G)
      /\ \A j \in B : \A x : TagsAre(h, sz, j, x) => TagsAre(g, sz, j, x)
      /\ Keeps(h, sz, g, sz, B \ F)
  BY <1>1, RemoveShape
<1> HIDE DEF g
<1>3. Tiling(C, tz)
  <2>1. l \in B /\ l \notin Sentinels
    BY <1>1
  <2> QED
    BY <1>1, <2>1, JoinTiling
<1>4. /\ C = B \ {i} /\ l \in C
      /\ \A j \in C : tz[j] = IF j = l THEN sz[l] + sz[i] ELSE sz[j]
  BY <1>1 DEF JoinedBlocks, JoinedSizes
<1> HIDE DEF C, tz
<1>5. G \subseteq C \ Sentinels /\ l \notin G /\ l \notin Sentinels
  BY <1>1, <1>4
<1>6. \A j \in C \ {l} : TagsAre(g, tz, j, TagOf(tz, G, j))
  <2> SUFFICES ASSUME NEW j \in C \ {l} PROVE TagsAre(g, tz, j, TagOf(tz, G, j))
    OBVIOUS
  <2>1. TagsAre(g, sz, j, TagOf(sz, F, j))
    BY <1>1, <1>2, <1>4
  <2>2. tz[j] = sz[j] /\ (j \in F <=> j \in G)
    BY <1>4
  <2> QED
    BY <2>1, <2>2 DEF TagsAre, TagOf
<1>7. Loose(g, C, tz, G, l)
  BY <1>1, <1>2, <1>3, <1>4, <1>5, <1>6 DEF Loose
<1>8. Keeps(h, sz, g, tz, (B \ F) \ {i})
  BY <1>2, <1>4 DEF Keeps
<1>9. Word(g, l) = sz[l]
  <2>1. TagsAre(h, sz, l, TagOf(sz, F, l))
    BY <1>1
  <2> QED
    BY <1>1, <1>2, <2>1 DEF TagsAre, TagOf
<1> QED
  BY <1>4, <1>7, <1>8, <1>9 DEF g, C, tz

\* The first words of a loose block, taken; the rest is loose.
LEMMA CutOff ==
  ASSUME NEW h, NEW B, NEW sz, NEW F, NEW i, Loose(h, B, sz, F, i),
         NEW u \in Nat, u >= 4, sz[i] - u >= 4
  PROVE  LET g == MakeTaken(h, i, u)
             C == CutBlocks(B, i, u)
             tz == CutSizes(B, sz, i, u)
         IN  /\ Loose(g, C, tz, F, i + u)
             /\ Keeps(h, sz, g, tz, (B \ F) \ {i})
             /\ tz[i] = u /\ tz[i + u] = sz[i] - u /\ i + u \notin B /\ C = B \union {i + u}
             /\ \A j \in B \ {i} : tz[j] = sz[j]
<1> DEFINE g == MakeTaken(h, i, u)
           C == CutBlocks(B, i, u)
           tz == CutSizes(B, sz, i, u)
<1>1. /\ h \in HeapType /\ Tiling(B, sz) /\ F \subseteq B \ Sentinels /\ Linked(h, F)
      /\ i \in B /\ i \notin F /\ i \notin Sentinels
      /\ \A j \in B \ {i} : TagsAre(h, sz, j, TagOf(sz, F, j))
  BY DEF Loose
<1>2. i \in Nat /\ i \in Index /\ sz[i] \in Nat /\ i + sz[i] <= Len /\ Len \in Nat
  BY <1>1, TilingTypes, LenType
<1>3. Clear(F, i, u)
  <2>1. u <= sz[i]
    BY <1>2
  <2> QED
    BY <1>1, <2>1, ClearOfBlock
<1>4. /\ g \in HeapType /\ Linked(g, F)
      /\ \A j : Word(g, j) = IF j \in {i, i + u - 1} THEN -u ELSE Word(h, j)
  <2>1. u >= 2 /\ i + u <= Len
    BY <1>2
  <2> QED
    BY <1>1, <1>2, <1>3, <2>1, MakeTakenLinked
<1>5. Tiling(C, tz) /\ i + u \notin B
  BY <1>1, CutTiling
<1>6. /\ C = B \union {i + u} /\ i + u # i
      /\ \A j \in C : tz[j] = IF j = i THEN u ELSE IF j = i + u THEN sz[i] - u ELSE sz[j]
  BY <1>1, <1>5 DEF CutBlocks, CutSizes
<1> HIDE DEF g, C, tz
<1>7. i + u \notin F /\ i + u \notin Sentinels /\ F \subseteq C \ Sentinels
  BY <1>1, <1>5, <1>6, TilingTypes DEF Sentinels
<1>8. ASSUME NEW j \in B, j # i, NEW k \in j .. j + sz[j] - 1
      PROVE  Word(g, k) = Word(h, k)
  <2>1. k \notin i .. i + sz[i] - 1
    BY <1>1, <1>8, OtherTags
  <2>2. i \in i .. i + sz[i] - 1 /\ i + u - 1 \in i .. i + sz[i] - 1
    BY <1>2
  <2> QED
    BY <1>4, <2>1, <2>2
<1>9. \A j \in C \ {i + u} : TagsAre(g, tz, j, TagOf(tz, F, j))
  <2> SUFFICES ASSUME NEW j \in C, j # i + u PROVE TagsAre(g, tz, j, TagOf(tz, F, j))
    OBVIOUS
  <2>1. CASE j = i
    BY <1>1, <1>4, <1>6, <2>1 DEF TagsAre, TagOf
  <2>2. CASE j # i
    <3>1. j \in B /\ tz[j] = sz[j]
      BY <1>6, <2>2
    <3>2. j \in j .. j + sz[j] - 1 /\ j + sz[j] - 1 \in j .. j + sz[j] - 1
      BY <1>1, <3>1, OwnWords
    <3>3. TagsAre(h, sz, j, TagOf(sz, F, j))
      BY <1>1, <2>2, <3>1
    <3>4. Word(g, j) = Word(h, j) /\ Word(g, j + sz[j] - 1) = Word(h, j + sz[j] - 1)
      BY <1>8, <2>2, <3>1, <3>2
    <3> QED
      BY <3>1, <3>3, <3>4 DEF TagsAre, TagOf
  <2> QED
    BY <2>1, <2>2
<1>10. Loose(g, C, tz, F, i + u)
  BY <1>1, <1>4, <1>5, <1>6, <1>7, <1>9 DEF Loose
<1>11. \A j \in B \ {i} : tz[j] = sz[j]
  BY <1>5, <1>6
<1>12. Keeps(h, sz, g, tz, (B \ F) \ {i})
  BY <1>8, <1>11 DEF Keeps
<1>13. tz[i] = u /\ tz[i + u] = sz[i] - u
  BY <1>1, <1>6
<1> QED
  BY <1>5, <1>6, <1>10, <1>11, <1>12, <1>13 DEF g, C, tz

\* A write between the tags of a taken block.
LEMMA InsideShape ==
  ASSUME NEW h, NEW B, NEW sz, NEW F, Shape(h, B, sz, F), NEW i \in B, i \notin F,
         NEW g \in HeapType, g.avail = h.avail,
         \A k : k \notin i + 1 .. i + sz[i] - 2 => Word(g, k) = Word(h, k)
  PROVE  Shape(g, B, sz, F)
<1>1. /\ h \in HeapType /\ Tiling(B, sz) /\ F \subseteq B \ Sentinels /\ Linked(h, F)
      /\ \A j \in B : TagsAre(h, sz, j, TagOf(sz, F, j))
  BY DEF Shape
<1>2. i \in Nat /\ sz[i] \in Nat /\ sz[i] >= 2
  BY <1>1, TilingTypes
<1>3. i + 1 .. i + sz[i] - 2 \subseteq i .. i + sz[i] - 1
  BY <1>2
<1>4. Linked(g, F)
  <2>1. \A k \in Links(F) : k \notin i .. i + sz[i] - 1
    BY <1>1, NoLinkThere
  <2>2. \A k \in Links(F) : Word(g, k) = Word(h, k)
    BY <1>3, <2>1
  <2> QED
    BY <1>1, <2>2, LinkedSame
<1>5. ASSUME NEW j \in B
      PROVE  Word(g, j) = Word(h, j) /\ Word(g, j + sz[j] - 1) = Word(h, j + sz[j] - 1)
  <2>1. CASE j = i
    BY <1>2, <2>1
  <2>2. CASE j # i
    <3>1. j \in j .. j + sz[j] - 1 /\ j + sz[j] - 1 \in j .. j + sz[j] - 1
      BY <1>1, OwnWords
    <3>2. j \notin i .. i + sz[i] - 1 /\ j + sz[j] - 1 \notin i .. i + sz[i] - 1
      BY <1>1, <2>2, <3>1, OtherTags
    <3> QED
      BY <1>3, <3>2
  <2> QED
    BY <2>1, <2>2
<1>6. \A j \in B : TagsAre(g, sz, j, TagOf(sz, F, j))
  BY <1>1, <1>5 DEF TagsAre
<1> QED
  BY <1>1, <1>4, <1>6 DEF Shape

-----------------------------------------------------------------------------
(***************************************************************************)
(* The calls.                                                              *)
(***************************************************************************)
\* No two neighbours are free.
Merged(sz, F) == \A i \in F : i + sz[i] \notin F

\* size() takes the sign off a tag (heap.cpp:19-25).
LEMMA SizeIs ==
  ASSUME NEW h, NEW sz, NEW i, sz[i] \in Nat, Word(h, i) \in {sz[i], -sz[i]}
  PROVE  Size(h, i) = sz[i]
BY DEF Size, Abs

\* malloc's half: block i is taken, and split if it can be.
LEMMA TakeShape ==
  ASSUME NEW h, NEW B, NEW sz, NEW F, Shape(h, B, sz, F), Merged(sz, F),
         NEW i \in F, NEW u \in Nat, u >= 4, u <= sz[i]
  PROVE  \E C, tz, G : /\ Shape(Take(h, i, u), C, tz, G) /\ Merged(tz, G)
                       /\ C \ G = (B \ F) \union {i} /\ tz[i] >= u
                       /\ Keeps(h, sz, Take(h, i, u), tz, B \ F)
<1> DEFINE g == Remove(h, i)
           H == F \ {i}
<1>1. /\ h \in HeapType /\ Tiling(B, sz) /\ F \subseteq B \ Sentinels /\ Linked(h, F)
      /\ \A j \in B : TagsAre(h, sz, j, TagOf(sz, F, j))
  BY DEF Shape
<1>2. i \in B /\ i \in Nat /\ sz[i] \in Nat
  BY <1>1, TilingTypes
<1>3. Size(h, i) = sz[i]
  <2>1. Word(h, i) = sz[i]
    BY <1>1, <1>2 DEF TagsAre, TagOf
  <2> QED
    BY <1>2, <2>1, SizeIs
<1>4. Loose(g, B, sz, H, i) /\ Keeps(h, sz, g, sz, B \ F)
  BY TakenOff
<1>5. Take(h, i, u) = IF sz[i] - u >= 4
                      THEN MakeAvail(MakeTaken(g, i, u), i + u, sz[i] - u)
                      ELSE MakeTaken(g, i, sz[i])
  BY <1>3 DEF Take, TakeSized
<1>6. (B \ H) \ {i} = B \ F
  OBVIOUS
<1> HIDE DEF g, H
<1>7. CASE sz[i] - u >= 4
  <2> DEFINE m == MakeTaken(g, i, u)
             C == CutBlocks(B, i, u)
             tz == CutSizes(B, sz, i, u)
             r == i + u
             f == MakeAvail(m, r, tz[r])
             G == H \union {r}
  <2>1. /\ Loose(m, C, tz, H, r)
        /\ Keeps(g, sz, m, tz, B \ F)
        /\ tz[i] = u /\ tz[r] = sz[i] - u /\ r \notin B /\ C = B \union {r}
        /\ \A j \in B \ {i} : tz[j] = sz[j]
    <3>1. Loose(g, B, sz, H, i) /\ sz[i] - u >= 4
      BY <1>4, <1>7
    <3>2. /\ Loose(m, C, tz, H, i + u)
          /\ Keeps(g, sz, m, tz, (B \ H) \ {i})
          /\ tz[i] = u /\ tz[i + u] = sz[i] - u /\ i + u \notin B /\ C = B \union {i + u}
          /\ \A j \in B \ {i} : tz[j] = sz[j]
      BY <3>1, CutOff, SMTT(30)
    <3> HIDE DEF m, C, tz
    <3> QED
      BY <1>6, <3>2
  <2> HIDE DEF m, C, tz, r
  <2>2. Shape(f, C, tz, G) /\ Keeps(m, tz, f, tz, (C \ H) \ {r})
    BY <2>1, PutFree
  <2>3. f = Take(h, i, u)
    BY <1>5, <1>7, <2>1 DEF m, r
  <2> HIDE DEF f
  <2>4. Keeps(h, sz, f, tz, B \ F)
    <3>1. B \ F \subseteq (C \ H) \ {r}
      BY <2>1 DEF H
    <3>2. Keeps(m, tz, f, tz, B \ F)
      BY <2>2, <3>1 DEF Keeps
    <3> QED
      BY <1>4, <2>1, <3>2, KeepsOn
  <2>5. C \ G = (B \ F) \union {i}
    BY <1>1, <1>2, <2>1 DEF H
  <2>6. Merged(tz, G)
    <3>1. \A j \in H : j + tz[j] \notin G
      <4>1. \A j \in H : j \in B /\ j # Len - 2 /\ j # i /\ j \in F
        BY <1>1 DEF H, Sentinels
      <4>2. \A j \in H : j + sz[j] \in B /\ j + sz[j] \notin F
        BY <1>1, <4>1 DEF Tiling, Merged
      <4> QED
        BY <2>1, <4>1, <4>2 DEF H
    <3>2. r + tz[r] = i + sz[i]
      BY <1>2, <2>1 DEF r
    <3>3. i + sz[i] \in B /\ i + sz[i] \notin F
      BY <1>1, <1>2 DEF Tiling, Merged, Sentinels
    <3> QED
      BY <2>1, <3>1, <3>2, <3>3 DEF Merged, H
  <2>7. tz[i] >= u
    BY <2>1
  <2> QED
    BY <2>2, <2>3, <2>4, <2>5, <2>6, <2>7
<1>8. CASE ~ (sz[i] - u >= 4)
  <2> DEFINE f == MakeTaken(g, i, sz[i])
  <2>1. Shape(f, B, sz, H) /\ Keeps(g, sz, f, sz, B \ F)
    BY <1>4, <1>6, PutTaken
  <2>2. f = Take(h, i, u)
    BY <1>5, <1>8
  <2> HIDE DEF f
  <2>3. Keeps(h, sz, f, sz, B \ F)
    BY <1>4, <2>1, KeepsOn
  <2>4. B \ H = (B \ F) \union {i} /\ Merged(sz, H)
    BY <1>2 DEF H, Merged
  <2> QED
    BY <2>1, <2>2, <2>3, <2>4
<1> QED
  BY <1>7, <1>8

\* free's half: block i is merged with its free neighbours and put on the list.
LEMMA FreeShape ==
  ASSUME NEW h, NEW B, NEW sz, NEW F, Shape(h, B, sz, F), Merged(sz, F),
         NEW i \in B, i \notin F, i \notin Sentinels
  PROVE  \E C, tz, G : /\ Shape(FreeBlock(h, i), C, tz, G) /\ Merged(tz, G)
                       /\ C \ G = (B \ F) \ {i}
                       /\ Keeps(h, sz, FreeBlock(h, i), tz, (B \ F) \ {i})
<1> DEFINE l == Left(h, i)
           r == Right(h, i)
           mergeLeft == IsAvail(h, l)
           h1 == IF mergeLeft THEN Remove(h, l) ELSE h
           i1 == IF mergeLeft THEN l ELSE i
           n1 == Size(h, i) + IF mergeLeft THEN Size(h1, l) ELSE 0
           mergeRight == IsAvail(h1, r)
           h2 == IF mergeRight THEN Remove(h1, r) ELSE h1
           n2 == n1 + IF mergeRight THEN Size(h2, r) ELSE 0
           T == (B \ F) \ {i}
<1>1. /\ h \in HeapType /\ Tiling(B, sz) /\ F \subseteq B \ Sentinels /\ Linked(h, F)
      /\ \A j \in B : TagsAre(h, sz, j, TagOf(sz, F, j))
  BY DEF Shape
<1>2. \A j \in B : j \in Nat /\ sz[j] \in Nat /\ sz[j] >= 2
  BY <1>1, TilingTypes
<1>3. \A j \in B : Size(h, j) = sz[j] /\ Size(h, j + sz[j] - 1) = sz[j]
                   /\ (IsAvail(h, j) <=> j \in F)
  <2> SUFFICES ASSUME NEW j \in B
               PROVE  Size(h, j) = sz[j] /\ Size(h, j + sz[j] - 1) = sz[j]
                      /\ (IsAvail(h, j) <=> j \in F)
    OBVIOUS
  <2>1. TagsAre(h, sz, j, TagOf(sz, F, j)) /\ sz[j] \in Nat /\ sz[j] >= 2
    BY <1>1, <1>2
  <2> QED
    BY <2>1 DEF TagsAre, TagOf, Size, Abs, IsAvail
<1>4. Size(h, i) = sz[i] /\ r = i + sz[i] /\ r \in B
  BY <1>1, <1>3 DEF Right, Tiling, Sentinels
<1>5. l \in B /\ l + sz[l] = i
  <2>1. PICK k \in B : k + sz[k] = i
    BY <1>1 DEF Tiling, Sentinels
  <2>2. Size(h, i - 1) = sz[k]
    <3>1. i - 1 = k + sz[k] - 1
      BY <1>2, <2>1
    <3> QED
      BY <1>3, <3>1
  <2>3. l = k
    BY <1>2, <2>1, <2>2 DEF Left, HeaderFromFooter
  <2> QED
    BY <2>1, <2>3
<1>6. FreeBlock(h, i) = MakeAvail(h2, i1, n2)
  BY DEF FreeBlock
<1>7. mergeLeft <=> l \in F
  BY <1>3, <1>5
<1> HIDE DEF l, r
<1>8. \E B1, sz1, F1 :
        /\ Loose(h1, B1, sz1, F1, i1) /\ Merged(sz1, F1)
        /\ \A j \in F1 : j + sz1[j] # i1
        /\ n1 = sz1[i1] /\ i1 + sz1[i1] = r
        /\ (B1 \ F1) \ {i1} = T /\ Keeps(h, sz, h1, sz1, T)
  <2>1. CASE l \in F
    <3> DEFINE C == JoinedBlocks(B, i)
               tz == JoinedSizes(B, sz, l, i)
               g == Remove(h, l)
    <3>1. /\ Loose(g, C, tz, F \ {l}, l) /\ Keeps(h, sz, g, tz, T)
          /\ Word(g, l) = sz[l] /\ tz[l] = sz[l] + sz[i]
      <4>1. Loose(h, B, sz, F, i)
        BY Loosen
      <4> QED
        BY <1>5, <2>1, <4>1, JoinLeft
    <3>2. C = B \ {i} /\ \A j \in F \ {l} : tz[j] = sz[j]
      BY <1>1 DEF JoinedBlocks, JoinedSizes
    <3> HIDE DEF C, tz
    <3>3. h1 = g /\ i1 = l /\ n1 = Size(h, i) + Size(g, l)
      BY <1>7, <2>1
    <3> HIDE DEF g, h1, i1, n1
    <3>4. Merged(tz, F \ {l}) /\ \A j \in F \ {l} : j + tz[j] # l
      BY <2>1, <3>2 DEF Merged
    <3>5. n1 = tz[l] /\ l + tz[l] = r
      <4>1. Size(g, l) = sz[l]
        BY <1>2, <1>5, <3>1, SizeIs
      <4> QED
        BY <1>2, <1>4, <1>5, <3>1, <3>3, <4>1
    <3>6. (C \ (F \ {l})) \ {l} = T
      BY <2>1, <3>2
    <3> QED
      BY <3>1, <3>3, <3>4, <3>5, <3>6
  <2>2. CASE l \notin F
    <3>1. h1 = h /\ i1 = i /\ n1 = sz[i]
      BY <1>2, <1>4, <1>7, <2>2
    <3> HIDE DEF h1, i1, n1
    <3>2. Loose(h, B, sz, F, i) /\ Keeps(h, sz, h, sz, T)
      BY Loosen DEF Keeps
    <3>3. \A j \in F : j + sz[j] # i
      <4> SUFFICES ASSUME NEW j \in F, j + sz[j] = i PROVE FALSE
        OBVIOUS
      <4>1. j \in B /\ j # l
        BY <1>1, <2>2
      <4>2. j + sz[j] <= l \/ l + sz[l] <= j
        BY <1>1, <1>5, <4>1, BlocksApart
      <4> QED
        BY <1>2, <1>5, <4>1, <4>2
    <3> QED
      BY <1>4, <3>1, <3>2, <3>3
  <2> QED
    BY <2>1, <2>2
<1>9. PICK B1, sz1, F1 :
        /\ Loose(h1, B1, sz1, F1, i1) /\ Merged(sz1, F1)
        /\ \A j \in F1 : j + sz1[j] # i1
        /\ n1 = sz1[i1] /\ i1 + sz1[i1] = r
        /\ (B1 \ F1) \ {i1} = T /\ Keeps(h, sz, h1, sz1, T)
  BY <1>8
<1> HIDE DEF h1, i1, n1, T, mergeLeft
<1>10. /\ Tiling(B1, sz1) /\ F1 \subseteq B1 \ Sentinels /\ i1 \in B1 /\ i1 \notin Sentinels
       /\ \A j \in B1 \ {i1} : TagsAre(h1, sz1, j, TagOf(sz1, F1, j))
  BY <1>9 DEF Loose
<1>11. \A j \in B1 : j \in Nat /\ sz1[j] \in Nat /\ sz1[j] >= 2
  BY <1>10, TilingTypes
<1>12. mergeRight <=> r \in F1
  <2>1. r \in B1 /\ r # i1
    <3>1. r \in B1
      BY <1>9, <1>10 DEF Tiling, Sentinels
    <3> QED
      BY <1>9, <1>10, <1>11, <3>1
  <2>2. Word(h1, r) = IF r \in F1 THEN sz1[r] ELSE -sz1[r]
    BY <1>10, <2>1 DEF TagsAre, TagOf
  <2> QED
    BY <1>11, <2>1, <2>2 DEF IsAvail
<1>13. \E B2, sz2, F2 :
         /\ Loose(h2, B2, sz2, F2, i1) /\ Merged(sz2, F2)
         /\ \A j \in F2 : j + sz2[j] # i1
         /\ n2 = sz2[i1] /\ i1 + sz2[i1] \notin F2
         /\ (B2 \ F2) \ {i1} = T /\ Keeps(h, sz, h2, sz2, T)
  <2>1. CASE r \in F1
    <3> DEFINE C == JoinedBlocks(B1, r)
               tz == JoinedSizes(B1, sz1, i1, r)
               g == Remove(h1, r)
    <3>1. /\ Loose(g, C, tz, F1 \ {r}, i1) /\ Keeps(h1, sz1, g, tz, T)
          /\ Word(g, r) = sz1[r] /\ tz[i1] = sz1[i1] + sz1[r]
      <4>1. Loose(h1, B1, sz1, F1, i1) /\ r \in F1 /\ i1 + sz1[i1] = r
        BY <1>9, <2>1
      <4>2. /\ Loose(g, C, tz, F1 \ {r}, i1) /\ Keeps(h1, sz1, g, tz, (B1 \ F1) \ {i1})
            /\ Word(g, r) = sz1[r] /\ tz[i1] = sz1[i1] + sz1[r]
        BY <4>1, JoinRight, SMTT(30)
      <4> HIDE DEF g, C, tz
      <4> QED
        BY <1>9, <4>2
    <3>2. C = B1 \ {r} /\ \A j \in F1 \ {r} : j # i1 => tz[j] = sz1[j]
      BY <1>10 DEF JoinedBlocks, JoinedSizes
    <3>3. i1 \notin F1
      BY <1>9 DEF Loose
    <3> HIDE DEF C, tz
    <3>4. h2 = g /\ n2 = n1 + Size(g, r)
      BY <1>12, <2>1
    <3> HIDE DEF g, h2, n2
    <3>5. /\ Merged(tz, F1 \ {r}) /\ \A j \in F1 \ {r} : j + tz[j] # i1
      BY <1>9, <3>2, <3>3 DEF Merged
    <3>6. n2 = tz[i1] /\ i1 + tz[i1] = r + sz1[r]
      <4>1. Size(g, r) = sz1[r] /\ r \in B1
        BY <1>10, <1>11, <2>1, <3>1, SizeIs
      <4> QED
        BY <1>9, <1>10, <1>11, <3>1, <3>4, <4>1
    <3>7. r + sz1[r] \notin F1
      BY <1>9, <2>1 DEF Merged
    <3>8. (C \ (F1 \ {r})) \ {i1} = T
      BY <1>9, <2>1, <3>2
    <3>9. Keeps(h, sz, g, tz, T)
      BY <1>9, <3>1, KeepsOn
    <3> QED
      BY <3>1, <3>4, <3>5, <3>6, <3>7, <3>8, <3>9
  <2>2. CASE r \notin F1
    <3>1. h2 = h1 /\ n2 = n1
      BY <1>9, <1>10, <1>11, <1>12, <2>2
    <3> HIDE DEF h2, n2
    <3> QED
      BY <1>9, <2>2, <3>1
  <2> QED
    BY <2>1, <2>2
<1>14. PICK B2, sz2, F2 :
         /\ Loose(h2, B2, sz2, F2, i1) /\ Merged(sz2, F2)
         /\ \A j \in F2 : j + sz2[j] # i1
         /\ n2 = sz2[i1] /\ i1 + sz2[i1] \notin F2
         /\ (B2 \ F2) \ {i1} = T /\ Keeps(h, sz, h2, sz2, T)
  BY <1>13
<1> HIDE DEF h2, n2, mergeRight
<1> DEFINE f == MakeAvail(h2, i1, sz2[i1])
           G == F2 \union {i1}
<1>15. Shape(f, B2, sz2, G) /\ Keeps(h2, sz2, f, sz2, T)
  BY <1>14, PutFree
<1>16. f = FreeBlock(h, i)
  BY <1>6, <1>14
<1> HIDE DEF f
<1>17. Keeps(h, sz, f, sz2, T)
  BY <1>14, <1>15, KeepsOn
<1>18. Merged(sz2, G)
  <2>1. i1 \in B2 /\ Tiling(B2, sz2)
    BY <1>14 DEF Loose
  <2>2. i1 + sz2[i1] # i1
    BY <2>1, TilingTypes
  <2> QED
    BY <1>14, <2>2 DEF Merged
<1>19. B2 \ G = T
  BY <1>14
<1> QED
  BY <1>15, <1>16, <1>17, <1>18, <1>19 DEF T

-----------------------------------------------------------------------------
(***************************************************************************)
(* The search for a block, and walks along the list.                       *)
(***************************************************************************)
\* The search for a block goes along the free list.
LEMMA VisitedIs ==
  ASSUME NEW h, NEW B, NEW sz, NEW F, Shape(h, B, sz, F)
  PROVE  /\ Visited(h)[1] = h.avail
         /\ \A k \in 1 .. Attempts : Visited(h)[k] \in F \union {0}
         /\ \A k \in 2 .. Attempts :
              Visited(h)[k] = IF Visited(h)[k - 1] \in F THEN Word(h, Visited(h)[k - 1] + 1)
                              ELSE Visited(h)[k - 1]
<1> DEFINE f == [i \in Int |-> IF i = 0 THEN 0 ELSE NextFree(h, i)]
           Walk(at) ==
             at = [k \in 1 .. Attempts |->
                     IF k = 1 THEN h.avail
                     ELSE LET i == at[k - 1] IN IF i = 0 THEN 0 ELSE NextFree(h, i)]
<1>1. h \in HeapType /\ Linked(h, F) /\ Attempts \in Nat /\ Attempts >= 1
  BY HeapAssumption DEF HeapAssumption, Shape
<1>2. \A i \in Int : NextFree(h, i) \in Int
  BY <1>1, WordType DEF NextFree
<1>3. f \in [Int -> Int] /\ \A i \in Int : f[i] = IF i = 0 THEN 0 ELSE NextFree(h, i)
  BY <1>2
<1>4. h.avail \in Int
  BY <1>1, LenType DEF HeapType
<1> HIDE DEF f
<1>5. PICK at \in [1 .. Attempts -> Int] : WalkOf(at, 1, Attempts, f, h.avail)
  <2>1. 1 \in Nat
    OBVIOUS
  <2> QED
    BY <1>1, <1>3, <1>4, <2>1, WalkExists, ZenonT(60)
<1>6. Walk(at)
  <2>1. \A k \in 1 .. Attempts : k # 1 => k - 1 \in 1 .. Attempts
    BY <1>1
  <2>2. \A k \in 1 .. Attempts : k # 1 => at[k - 1] \in Int
    BY <2>1, <1>5
  <2> QED
    BY <1>3, <1>5, <2>2 DEF WalkOf
<1>7. Visited(h) = CHOOSE v : Walk(v)
  BY DEF Visited
<1> DEFINE v == Visited(h)
<1>8. Walk(v)
  BY <1>6, <1>7, ZenonT(60)
<1> HIDE DEF v
<1>9. v[1] = h.avail
  BY <1>1, <1>8
<1>10. \A k \in 1 .. Attempts : v[k] \in F \union {0}
  <2>1. v[1] \in F \union {0}
    BY <1>1, <1>9 DEF Linked
  <2>2. \A k \in 1 + 1 .. Attempts : v[k - 1] \in F \union {0} => v[k] \in F \union {0}
    <3> SUFFICES ASSUME NEW k \in 1 + 1 .. Attempts, v[k - 1] \in F \union {0}
                 PROVE  v[k] \in F \union {0}
      OBVIOUS
    <3>1. v[k] = IF v[k - 1] = 0 THEN 0 ELSE NextFree(h, v[k - 1])
      BY <1>1, <1>8
    <3> QED
      BY <1>1, <3>1 DEF Linked, NextFree
  <2>3. 1 \in Nat /\ Attempts \in Nat
    BY <1>1
  <2> DEFINE Y == F \union {0}
  <2> HIDE DEF Y
  <2>4. \A k \in 1 .. Attempts : v[k] \in Y
    BY <2>1, <2>2, <2>3, WalkStays DEF Y
  <2> QED
    BY <2>4 DEF Y
<1>11. \A k \in 2 .. Attempts : v[k] = IF v[k - 1] \in F THEN Word(h, v[k - 1] + 1)
                                     ELSE v[k - 1]
  <2> SUFFICES ASSUME NEW k \in 2 .. Attempts
               PROVE  v[k] = IF v[k - 1] \in F THEN Word(h, v[k - 1] + 1) ELSE v[k - 1]
    OBVIOUS
  <2>1. k \in 1 .. Attempts /\ k # 1 /\ k - 1 \in 1 .. Attempts
    BY <1>1
  <2>2. v[k] = IF v[k - 1] = 0 THEN 0 ELSE NextFree(h, v[k - 1])
    BY <1>8, <2>1
  <2>3. v[k - 1] \in F \union {0} /\ 0 \notin F
    BY <1>1, <1>10, <2>1, SpreadLinks DEF Linked
  <2> QED
    BY <2>2, <2>3 DEF NextFree
<1> QED
  BY <1>9, <1>10, <1>11 DEF v

\* malloc finds every block of the list available.
LEMMA NeverPanics ==
  ASSUME NEW h, NEW B, NEW sz, NEW F, Shape(h, B, sz, F)
  PROVE  ~ MallocPanics(h)
<1>1. \A i \in F : IsAvail(h, i)
  <2> SUFFICES ASSUME NEW i \in F PROVE IsAvail(h, i)
    OBVIOUS
  <2>1. i \in B /\ Tiling(B, sz) /\ TagsAre(h, sz, i, TagOf(sz, F, i))
    BY DEF Shape
  <2>2. sz[i] \in Nat /\ sz[i] >= 2
    BY <2>1, TilingTypes
  <2> QED
    BY <2>1, <2>2 DEF TagsAre, TagOf, IsAvail
<1>2. \A k \in 1 .. Attempts : Visited(h)[k] \in F \union {0}
  BY VisitedIs
<1> QED
  BY <1>1, <1>2 DEF MallocPanics

\* The block it chooses is free and large enough.
LEMMA BestFitIs ==
  ASSUME NEW h, NEW B, NEW sz, NEW F, Shape(h, B, sz, F), NEW u \in Nat
  PROVE  LET b == BestFit(h, u) IN
         /\ b # 0 => b \in F /\ sz[b] >= u
         /\ h.avail \in F /\ sz[h.avail] >= u => b # 0
         /\ b = 0 => \A k \in 1 .. Attempts : Visited(h)[k] \in F => sz[Visited(h)[k]] < u
<1> DEFINE at == Visited(h)
           fits == {k \in 1 .. Attempts : at[k] # 0 /\ Size(h, at[k]) >= u}
           best == {k \in fits : \A j \in fits : Size(h, at[k]) <= Size(h, at[j])}
           b == BestFit(h, u)
<1>1. /\ Tiling(B, sz) /\ F \subseteq B \ Sentinels
      /\ \A i \in B : TagsAre(h, sz, i, TagOf(sz, F, i))
      /\ Attempts \in Nat /\ Attempts >= 1
  BY HeapAssumption DEF HeapAssumption, Shape
<1>2. \A i \in F : Size(h, i) = sz[i] /\ sz[i] \in Nat /\ i # 0
  <2>1. \A i \in F : sz[i] \in Nat /\ Word(h, i) = sz[i]
    BY <1>1, TilingTypes DEF TagsAre, TagOf
  <2> QED
    BY <1>1, <2>1, SizeIs DEF Sentinels
<1>3. b = IF fits = {} THEN 0 ELSE at[Min(best)]
  BY DEF BestFit
<1>4. at[1] = h.avail /\ \A k \in 1 .. Attempts : at[k] \in F \union {0}
  BY VisitedIs
<1> HIDE DEF at, b
<1>5. \A k \in fits : k \in 1 .. Attempts /\ at[k] \in F /\ at[k] # 0 /\ Size(h, at[k]) >= u
  BY <1>4
<1>6. ASSUME fits # {} PROVE Min(best) \in fits
  <2> DEFINE Sizes == {Size(h, at[k]) : k \in fits}
  <2>1. Sizes # {} /\ Sizes \subseteq Nat
    BY <1>2, <1>5, <1>6
  <2>2. PICK s \in Sizes : \A t \in Sizes : s <= t
    BY <2>1, LeastOf
  <2>3. PICK k \in fits : s = Size(h, at[k])
    OBVIOUS
  <2>4. k \in best
    BY <2>2, <2>3
  <2>5. best # {} /\ best \subseteq Nat
    BY <2>4
  <2> HIDE DEF best
  <2>6. \E m \in best : \A n \in best : m <= n
    BY <2>5, LeastOf
  <2>7. Min(best) \in best
    BY <2>6 DEF Min
  <2> QED
    BY <2>7 DEF best
<1> HIDE DEF best
<1>7. ASSUME b # 0 PROVE b \in F /\ sz[b] >= u
  <2>1. fits # {} /\ b = at[Min(best)]
    BY <1>3, <1>7
  <2>2. Min(best) \in fits
    BY <1>6, <2>1
  <2> HIDE DEF fits
  <2> QED
    BY <1>2, <1>5, <2>1, <2>2
<1>8. ASSUME h.avail \in F, sz[h.avail] >= u PROVE b # 0
  <2>1. 1 \in fits
    BY <1>1, <1>2, <1>4, <1>8
  <2>2. Min(best) \in fits /\ b = at[Min(best)]
    BY <1>3, <1>6, <2>1
  <2> HIDE DEF fits
  <2> QED
    BY <1>5, <2>2
<1>9. ASSUME b = 0 PROVE \A k \in 1 .. Attempts : at[k] \in F => sz[at[k]] < u
  <2> SUFFICES ASSUME NEW k \in 1 .. Attempts, at[k] \in F, ~ (sz[at[k]] < u) PROVE FALSE
    OBVIOUS
  <2>1. k \in fits
    BY <1>2
  <2>2. Min(best) \in fits /\ b = at[Min(best)]
    BY <1>3, <1>6, <2>1
  <2> HIDE DEF fits
  <2> QED
    BY <1>5, <1>9, <2>2
<1> QED
  BY <1>7, <1>8, <1>9 DEF b, at

\* There are fewer free blocks than words.
LEMMA FreeIsFinite ==
  ASSUME NEW F, Spread(F)
  PROVE  IsFiniteSet(F) /\ Cardinality(F) \in Nat /\ Cardinality(F) <= Len - 4
<1>1. 1 \in Int /\ Len - 4 \in Int /\ Len - 4 >= 1 /\ F \in SUBSET (1 .. Len - 4)
  BY LenType DEF Spread
<1>2. IsFiniteSet(1 .. Len - 4) /\ Cardinality(1 .. Len - 4) = Len - 4
  BY <1>1, FS_Interval
<1>3. IsFiniteSet(F) /\ Cardinality(F) <= Len - 4
  BY <1>1, <1>2, FS_Subset
<1> QED
  BY <1>3, FS_CardinalityType

\* A walk along the list, for as many steps as there are free blocks, meets
\* them all, and the step after that is the end of the list.
LEMMA ListWalk ==
  ASSUME NEW h, NEW F, Linked(h, F), NEW n \in Nat, n >= 1, n >= Cardinality(F), NEW v,
         v[1] = h.avail,
         \A k \in 2 .. n : v[k] = IF v[k - 1] \in F THEN Word(h, v[k - 1] + 1) ELSE v[k - 1]
  PROVE  /\ F \subseteq {v[k] : k \in 1 .. n}
         /\ n > Cardinality(F) =>
              /\ F = {v[k] : k \in 1 .. Cardinality(F)}
              /\ v[Cardinality(F) + 1] = 0
<1> DEFINE c == Cardinality(F)
<1>1. Spread(F) /\ c \in Nat /\ IsFiniteSet(F)
  BY FreeIsFinite DEF Linked
<1>2. \A i \in F : i \in Nat /\ i # 0
  BY <1>1, LenType DEF Spread
<1> HIDE DEF c
<1>3. 0 \notin F
  BY <1>2
<1>4. \A k \in 1 .. n : v[k] \in F \union {0}
  <2> DEFINE Y == F \union {0}
  <2>1. v[1] \in Y
    BY DEF Linked
  <2>2. \A k \in 1 + 1 .. n : v[k - 1] \in Y => v[k] \in Y
    <3> SUFFICES ASSUME NEW k \in 2 .. n, v[k - 1] \in Y PROVE v[k] \in Y
      OBVIOUS
    <3>1. v[k - 1] \in F => Word(h, v[k - 1] + 1) \in Y
      BY DEF Linked
    <3> QED
      BY <3>1
  <2> HIDE DEF Y
  <2>3. 1 \in Nat
    OBVIOUS
  <2>4. \A k \in 1 .. n : v[k] \in Y
    BY <2>1, <2>2, <2>3, WalkStays
  <2> QED
    BY <2>4 DEF Y
\* Once the list has ended it stays so.
<1>5. ASSUME NEW j \in 1 .. n, v[j] = 0, NEW k \in j .. n PROVE v[k] = 0
  <2> DEFINE Y == {0}
  <2>1. v[j] \in Y
    BY <1>5
  <2>2. \A i \in j + 1 .. n : v[i - 1] \in Y => v[i] \in Y
    BY <1>3
  <2> HIDE DEF Y
  <2>3. j \in Nat
    OBVIOUS
  <2>4. \A i \in j .. n : v[i] \in Y
    BY <2>1, <2>2, <2>3, WalkStays
  <2> QED
    BY <2>4 DEF Y
<1>6. ASSUME NEW k \in 2 .. n, v[k] \in F
      PROVE  /\ k - 1 \in 1 .. n /\ v[k - 1] \in F /\ v[k] = Word(h, v[k - 1] + 1)
             /\ Word(h, v[k] + 2) = v[k - 1]
  <2>1. k - 1 \in 1 .. n /\ k - 1 \in Int /\ k \in k - 1 .. n
    OBVIOUS
  <2>2. v[k - 1] # 0
    BY <1>3, <1>5, <1>6, <2>1
  <2>3. v[k - 1] \in F
    BY <1>4, <2>1, <2>2
  <2>4. v[k] = Word(h, v[k - 1] + 1)
    BY <2>3
  <2>5. v[k] # 0
    BY <1>2, <1>6
  <2> QED
    BY <2>1, <2>3, <2>4, <2>5 DEF Linked
\* It meets no block twice.
<1>7. \A j, k \in 1 .. n : j < k /\ v[k] \in F => v[j] # v[k]
  <2> DEFINE S == {j \in 1 .. n : \E k \in 1 .. n : j < k /\ v[k] \in F /\ v[j] = v[k]}
  <2> SUFFICES ASSUME S # {} PROVE FALSE
    OBVIOUS
  <2>1. S \subseteq Nat
    OBVIOUS
  <2>2. PICK j \in S : \A i \in S : j <= i
    BY <2>1, LeastOf
  <2>3. PICK k \in 1 .. n : j < k /\ v[k] \in F /\ v[j] = v[k]
    BY <2>2
  <2>4. j \in 1 .. n /\ j \in Nat
    BY <2>2
  <2>5. k \in 2 .. n
    BY <2>3, <2>4
  <2>6. k - 1 \in 1 .. n /\ v[k - 1] \in F /\ Word(h, v[k] + 2) = v[k - 1]
    BY <1>6, <2>3, <2>5
  <2>7. CASE j = 1
    <3>1. h.avail = v[k]
      BY <2>3, <2>7
    <3>2. Word(h, v[k] + 2) = 0
      BY <2>3, <3>1 DEF Linked
    <3> QED
      BY <1>3, <2>6, <3>2
  <2>8. CASE j # 1
    <3>1. j \in 2 .. n
      BY <2>4, <2>8
    <3>2. v[j] \in F
      BY <2>3
    <3>3. j - 1 \in 1 .. n /\ Word(h, v[j] + 2) = v[j - 1]
      BY <1>6, <3>1, <3>2
    <3>4. v[j - 1] = v[k - 1] /\ j - 1 < k - 1
      BY <2>3, <2>4, <2>6, <3>3
    <3>5. j - 1 \in S
      BY <2>6, <3>3, <3>4
    <3> QED
      BY <2>2, <2>4, <3>5
  <2> QED
    BY <2>7, <2>8
\* While it has not ended it has met as many blocks as it made steps.
<1>8. ASSUME NEW m \in Nat, m <= n, \A k \in 1 .. m : v[k] \in F
      PROVE  /\ m <= c
             /\ m = c => F = {v[k] : k \in 1 .. m}
             /\ F = {v[k] : k \in 1 .. m} => m = c
  <2> DEFINE f == [k \in 1 .. m |-> v[k]]
  <2>1. f \in [1 .. m -> F]
    BY <1>8
  <2>2. \A j, k \in 1 .. m : v[j] = v[k] => j = k
    <3> SUFFICES ASSUME NEW j \in 1 .. m, NEW k \in 1 .. m, v[j] = v[k], j # k PROVE FALSE
      OBVIOUS
    <3>1. j \in 1 .. n /\ k \in 1 .. n /\ v[j] \in F /\ v[k] \in F
      BY <1>8
    <3>2. j < k \/ k < j
      OBVIOUS
    <3> QED
      BY <1>7, <3>1, <3>2
  <2>3. f \in Injection(1 .. m, F)
    BY <2>1, <2>2 DEF Injection, IsInjective
  <2>4. m \in Int /\ 1 \in Int /\ Cardinality(1 .. m) = m
    <3>1. 1 \in Int /\ m \in Int
      OBVIOUS
    <3>2. Cardinality(1 .. m) = IF 1 > m THEN 0 ELSE m - 1 + 1
      BY <3>1, FS_Interval
    <3> QED
      BY <3>2
  <2>5. /\ Cardinality(1 .. m) <= Cardinality(F)
        /\ Cardinality(1 .. m) = Cardinality(F) <=> f \in Surjection(1 .. m, F)
    BY <1>1, <2>3, FS_Injection
  <2>6. f \in Surjection(1 .. m, F) <=> F = {v[k] : k \in 1 .. m}
    <3>1. \A k \in 1 .. m : f[k] = v[k] /\ v[k] \in F
      BY <1>8
    <3> HIDE DEF f
    <3>2. f \in Surjection(1 .. m, F) <=> \A t \in F : \E k \in 1 .. m : f[k] = t
      BY <2>1 DEF Surjection
    <3> QED
      BY <3>1, <3>2
  <2> QED
    BY <2>4, <2>5, <2>6 DEF c
\* Where it ends it has met them all.
<1>9. ASSUME NEW m \in 1 .. n, v[m] = 0, \A k \in 1 .. m - 1 : v[k] # 0
      PROVE  F = {v[k] : k \in 1 .. m - 1} /\ m = c + 1
  <2> DEFINE W == {v[k] : k \in 1 .. m - 1}
  <2>1. \A k \in 1 .. m - 1 : k \in 1 .. n /\ v[k] \in F
    BY <1>4, <1>9
  <2>2. F \ W = {}
    <3> DEFINE S == F \ W
    <3> SUFFICES ASSUME S # {} PROVE FALSE
      OBVIOUS
    <3>1. h.avail \notin S
      <4>1. CASE m = 1
        BY <1>3, <1>9, <4>1
      <4>2. CASE m # 1
        <5>1. 1 \in 1 .. m - 1
          BY <4>2
        <5> QED
          BY <5>1
      <4> QED
        BY <4>1, <4>2
    <3>2. S \in SUBSET F
      OBVIOUS
    <3>3. PICK i \in S : Word(h, i + 2) \notin S
      BY <3>1, <3>2 DEF Linked
    <3>4. /\ Word(h, i + 2) \in F \union {0}
          /\ Word(h, i + 2) # 0 => Word(h, Word(h, i + 2) + 1) = i
          /\ Word(h, i + 2) # 0
      BY <3>1, <3>2 DEF Linked
    <3>5. PICK k \in 1 .. m - 1 : v[k] = Word(h, i + 2)
      BY <3>3, <3>4
    <3>6. k + 1 \in 2 .. n /\ k + 1 - 1 = k
      OBVIOUS
    <3>7. v[k + 1] = i
      BY <2>1, <3>4, <3>5, <3>6
    <3>8. CASE k + 1 = m
      BY <1>3, <1>9, <3>7, <3>8
    <3>9. CASE k + 1 # m
      <4>1. k + 1 \in 1 .. m - 1
        BY <3>9
      <4> QED
        BY <3>7, <4>1
    <3> QED
      BY <3>8, <3>9
  <2>3. F = W
    BY <2>1, <2>2
  <2>4. m - 1 \in Nat /\ m - 1 <= n
    OBVIOUS
  <2> HIDE DEF W
  <2>5. m - 1 = c
    BY <1>8, <2>1, <2>3, <2>4 DEF W
  <2>6. m = c + 1
    BY <2>5
  <2> QED
    BY <2>3, <2>6 DEF W
<1>10. CASE \E m \in 1 .. n : v[m] = 0
  <2> DEFINE S == {k \in 1 .. n : v[k] = 0}
  <2>1. S \subseteq Nat /\ S # {}
    BY <1>10
  <2>2. PICK m \in S : \A k \in S : m <= k
    BY <2>1, LeastOf
  <2>3. m \in 1 .. n /\ v[m] = 0
    BY <2>2
  <2>4. \A k \in 1 .. m - 1 : v[k] # 0
    <3> SUFFICES ASSUME NEW k \in 1 .. m - 1, v[k] = 0 PROVE FALSE
      OBVIOUS
    <3>1. k \in S /\ ~ (m <= k)
      BY <2>3
    <3> QED
      BY <2>2, <3>1
  <2>5. F = {v[k] : k \in 1 .. m - 1} /\ m = c + 1
    BY <1>9, <2>3, <2>4
  <2>6. m - 1 = c /\ 1 .. m - 1 \subseteq 1 .. n
    BY <1>1, <2>3, <2>5
  <2>7. F = {v[k] : k \in 1 .. c} /\ v[c + 1] = 0
    BY <2>3, <2>5, <2>6
  <2>8. F \subseteq {v[k] : k \in 1 .. n}
    BY <2>5, <2>6
  <2> QED
    BY <2>7, <2>8 DEF c
<1>11. CASE \A m \in 1 .. n : v[m] # 0
  <2>1. \A k \in 1 .. n : v[k] \in F
    BY <1>4, <1>11
  <2>2. n <= c /\ (n = c => F = {v[k] : k \in 1 .. n})
    BY <1>8, <2>1
  <2>3. n = c
    BY <1>1, <2>2 DEF c
  <2> QED
    BY <1>1, <2>2, <2>3 DEF c
<1> QED
  BY <1>10, <1>11

-----------------------------------------------------------------------------
(***************************************************************************)
(* The clients.                                                            *)
(***************************************************************************)
\* The taken blocks are the clients' blocks and the sentinels.
OwnedBy(lv, B, sz, F) ==
  /\ TheLock \in lv
  /\ \A m \in lv : /\ m.bytes \in Nat /\ m.block \notin Sentinels
                   /\ AskedWords(m.bytes) \in Nat
                   /\ AskedWords(m.bytes) + 2 <= sz[m.block]
  /\ \A m, n \in lv : m.block = n.block => m = n
  /\ B \ F = {m.block : m \in lv} \union Sentinels

\* The heap h has the blocks B of the sizes sz; those of F are free, no two
\* of them neighbours, and the others are those that the clients hold.
Good(h, lv, B, sz, F) ==
  Shape(h, B, sz, F) /\ Merged(sz, F) /\ OwnedBy(lv, B, sz, F)

\* A client's block is a taken one between the sentinels, with room for the
\* words asked for and two tags.
LEMMA OwnedBlocks ==
  ASSUME NEW h, NEW lv, NEW B, NEW sz, NEW F, Good(h, lv, B, sz, F), NEW m \in lv
  PROVE  /\ m.block \in B /\ m.block \notin F /\ m.block \notin Sentinels
         /\ m.block \in Nat /\ m.block >= 2 /\ m.block <= Len - 6
         /\ sz[m.block] \in Nat /\ m.block + sz[m.block] <= Len - 2
         /\ m.bytes \in Nat /\ AskedWords(m.bytes) \in Nat
         /\ AskedWords(m.bytes) + 2 <= sz[m.block]
<1>1. m.block \in B \ F /\ m.block \notin Sentinels /\ Tiling(B, sz)
      /\ m.bytes \in Nat /\ AskedWords(m.bytes) \in Nat
      /\ AskedWords(m.bytes) + 2 <= sz[m.block]
  BY DEF Good, OwnedBy, Shape
<1> DEFINE b == m.block
<1> HIDE DEF b
<1>2. b \in Nat /\ sz[b] \in Nat /\ sz[b] >= 4 /\ b # 0 /\ b # Len - 2 /\ b <= Len - 2
      /\ 0 \in B /\ Len - 2 \in B /\ sz[0] = 2
  BY <1>1, TilingTypes DEF b, Tiling, Sentinels
<1>3. b >= 2
  <2>1. 0 + sz[0] <= b
    <3>1. 0 < b
      BY <1>2
    <3> QED
      BY <1>1, <1>2, <3>1 DEF b, Tiling
  <2> QED
    BY <1>2, <2>1
<1>4. b + sz[b] <= Len - 2
  <2>1. b < Len - 2
    BY <1>2, LenType
  <2> QED
    BY <1>1, <1>2, <2>1 DEF b, Tiling
<1>5. b <= Len - 6
  BY <1>2, <1>4, LenType
<1> QED
  BY <1>1, <1>2, <1>3, <1>4, <1>5 DEF b

\* The words a client asked for lie between the tags of its block.
LEMMA UserWordsInside ==
  ASSUME NEW h, NEW lv, NEW B, NEW sz, NEW F, Good(h, lv, B, sz, F), NEW m \in lv
  PROVE  /\ UserWords(m) \subseteq m.block + 1 .. m.block + sz[m.block] - 2
         /\ UserWords(m) \subseteq Index
<1>1. /\ m.block \in Nat /\ sz[m.block] \in Nat /\ m.block + sz[m.block] <= Len - 2
      /\ AskedWords(m.bytes) \in Nat /\ AskedWords(m.bytes) + 2 <= sz[m.block]
  BY OwnedBlocks
<1>2. PICK b, z, k : /\ b = m.block /\ z = sz[m.block] /\ k = AskedWords(m.bytes)
                     /\ b \in Nat /\ z \in Nat /\ k \in Nat /\ b + z <= Len - 2 /\ k + 2 <= z
  BY <1>1
<1>3. UserWords(m) = b + 1 .. b + k
  BY ONLY <1>2 DEF UserWords
<1>4. b + 1 .. b + k \subseteq b + 1 .. b + z - 2
  BY ONLY <1>2
<1>5. b + 1 .. b + k \subseteq Index
  BY ONLY <1>2, LenType, SMTT(30)
<1> QED
  BY ONLY <1>2, <1>3, <1>4, <1>5

\* A client's write.
LEMMA ClientWritesGood ==
  ASSUME NEW h, NEW lv, NEW B, NEW sz, NEW F, Good(h, lv, B, sz, F),
         NEW m \in lv, NEW x \in Payload
  PROVE  Good([h EXCEPT !.array = [i \in Index |-> IF i \in UserWords(m) THEN x ELSE @[i]]],
              lv, B, sz, F)
<1> DEFINE g == [h EXCEPT !.array = [i \in Index |-> IF i \in UserWords(m) THEN x ELSE @[i]]]
<1>1. Shape(h, B, sz, F) /\ h \in HeapType /\ x \in Int
  BY HeapAssumption DEF HeapAssumption, Good, Shape
<1>2. /\ g \in HeapType /\ g.avail = h.avail
      /\ \A k : k \notin UserWords(m) => Word(g, k) = Word(h, k)
  BY <1>1 DEF HeapType, Word
<1> HIDE DEF g
<1>3. m.block \in B /\ m.block \notin F
  BY OwnedBlocks
<1>4. UserWords(m) \subseteq m.block + 1 .. m.block + sz[m.block] - 2
  BY UserWordsInside
<1>5. \A k : k \notin m.block + 1 .. m.block + sz[m.block] - 2 => Word(g, k) = Word(h, k)
  BY <1>2, <1>4
<1>6. Shape(g, B, sz, F)
  BY <1>1, <1>2, <1>3, <1>5, InsideShape
<1> QED
  BY <1>6 DEF Good, g

\* malloc.
LEMMA MallocGood ==
  ASSUME NEW h, NEW lv, NEW B, NEW sz, NEW F, Good(h, lv, B, sz, F),
         NEW bytes \in Requests, NEW b \in F, sz[b] >= Units(bytes)
  PROVE  LET g == Take(h, b, Units(bytes))
             m == [block |-> b, bytes |-> bytes]
         IN  /\ m \notin lv /\ m # TheLock
             /\ \E C, tz, G : /\ Good(g, lv \union {m}, C, tz, G)
                              /\ Keeps(h, sz, g, tz, B \ F)
<1> DEFINE g == Take(h, b, Units(bytes))
           m == [block |-> b, bytes |-> bytes]
<1>1. bytes \in 0 .. WordBytes * (IntModulus \div 2 - 3) /\ bytes \in Nat
  BY RequestsAreSmall
<1>2. Units(bytes) \in Nat /\ Units(bytes) >= 4 /\ AskedWords(bytes) \in Nat
      /\ AskedWords(bytes) + 2 <= Units(bytes)
  BY <1>1, UnitsHoldTheWords
<1>3. Shape(h, B, sz, F) /\ Merged(sz, F) /\ OwnedBy(lv, B, sz, F) /\ b \in B /\ b \notin Sentinels
  BY DEF Good, Shape
<1>4. sz[b] \in Nat
  BY <1>3, TilingTypes DEF Shape
<1>5. PICK C, tz, G : /\ Shape(g, C, tz, G) /\ Merged(tz, G)
                      /\ C \ G = (B \ F) \union {b} /\ tz[b] >= Units(bytes)
                      /\ Keeps(h, sz, g, tz, B \ F)
  BY <1>2, <1>3, <1>4, TakeShape
<1> HIDE DEF g
<1>6. m.block = b /\ m.bytes = bytes
  OBVIOUS
<1>7. \A n \in lv : n.block \in B \ F
  BY <1>3 DEF OwnedBy
<1>8. m \notin lv /\ m # TheLock
  BY <1>3, <1>6, <1>7 DEF OwnedBy
<1> HIDE DEF m
<1>9. OwnedBy(lv \union {m}, C, tz, G)
  <2>1. \A n \in lv : tz[n.block] = sz[n.block]
    BY <1>5, <1>7 DEF Keeps
  <2>2. tz[b] \in Nat
    <3>1. b \in C /\ Tiling(C, tz)
      BY <1>5 DEF Shape
    <3> QED
      BY <3>1, TilingTypes
  <2>3. \A n \in lv \union {m} : /\ n.bytes \in Nat /\ n.block \notin Sentinels
                                 /\ AskedWords(n.bytes) \in Nat
                                 /\ AskedWords(n.bytes) + 2 <= tz[n.block]
    <3>1. AskedWords(m.bytes) + 2 <= tz[m.block]
      BY <1>2, <1>5, <1>6, <2>2
    <3>2. m.bytes \in Nat /\ m.block \notin Sentinels /\ AskedWords(m.bytes) \in Nat
      BY <1>1, <1>2, <1>3, <1>6
    <3>3. \A n \in lv : /\ n.bytes \in Nat /\ n.block \notin Sentinels
                        /\ AskedWords(n.bytes) \in Nat
                        /\ AskedWords(n.bytes) + 2 <= tz[n.block]
      BY <1>3, <2>1 DEF OwnedBy
    <3> QED
      BY <3>1, <3>2, <3>3
  <2>4. \A n, k \in lv \union {m} : n.block = k.block => n = k
    BY <1>3, <1>6, <1>7 DEF OwnedBy
  <2>5. C \ G = {n.block : n \in lv \union {m}} \union Sentinels
    BY <1>3, <1>5, <1>6 DEF OwnedBy
  <2>6. TheLock \in lv \union {m}
    BY <1>3 DEF OwnedBy
  <2> QED
    BY <2>3, <2>4, <2>5, <2>6 DEF OwnedBy
<1>10. Good(g, lv \union {m}, C, tz, G)
  BY <1>5, <1>9 DEF Good
<1> QED
  BY <1>5, <1>8, <1>10 DEF g, m

\* free, given the header.
LEMMA FreeGood ==
  ASSUME NEW h, NEW lv, NEW B, NEW sz, NEW F, Good(h, lv, B, sz, F),
         NEW m \in lv, m # TheLock
  PROVE  \E C, tz, G : /\ Good(FreeBlock(h, m.block), lv \ {m}, C, tz, G)
                       /\ Keeps(h, sz, FreeBlock(h, m.block), tz, (B \ F) \ {m.block})
<1> DEFINE b == m.block
           g == FreeBlock(h, b)
<1>1. Shape(h, B, sz, F) /\ Merged(sz, F) /\ OwnedBy(lv, B, sz, F)
  BY DEF Good
<1>2. b \in B /\ b \notin F /\ b \notin Sentinels
  BY OwnedBlocks
<1>3. PICK C, tz, G : /\ Shape(g, C, tz, G) /\ Merged(tz, G)
                      /\ C \ G = (B \ F) \ {b} /\ Keeps(h, sz, g, tz, (B \ F) \ {b})
  BY <1>1, <1>2, FreeShape
<1> HIDE DEF g
<1>4. \A n \in lv \ {m} : n.block # b /\ n.block \in B \ F
  BY <1>1 DEF OwnedBy
<1>5. OwnedBy(lv \ {m}, C, tz, G)
  <2>1. \A n \in lv \ {m} : tz[n.block] = sz[n.block]
    BY <1>3, <1>4 DEF Keeps
  <2>2. C \ G = {n.block : n \in lv \ {m}} \union Sentinels
    BY <1>1, <1>2, <1>3, <1>4 DEF OwnedBy
  <2> QED
    BY <1>1, <2>1, <2>2 DEF OwnedBy
<1>6. Good(g, lv \ {m}, C, tz, G)
  BY <1>3, <1>5 DEF Good
<1> QED
  BY <1>3, <1>6 DEF g

-----------------------------------------------------------------------------
(***************************************************************************)
(* heapInit.                                                               *)
(***************************************************************************)
\* The heap before its first block is handed out.
LEMMA FreshShape ==
  LET B == {0, 2, Len - 2}
      sz == [i \in B |-> IF i = 2 THEN Len - 4 ELSE 2]
  IN  Shape(FreshHeap, B, sz, {2}) /\ Merged(sz, {2}) /\ FreshHeap.avail = 2
<1> DEFINE B == {0, 2, Len - 2}
           sz == [i \in B |-> IF i = 2 THEN Len - 4 ELSE 2]
           n == Len - 4
           e == Len - 2
           blank == [array |-> [i \in Index |-> 0], avail |-> 0]
           h1 == MakeTaken(blank, 0, 2)
           h2 == MakeAvail(h1, 2, n)
           h3 == MakeTaken(h2, e, 2)
<1>1. /\ Len \in Nat /\ Len >= 12 /\ 0 \in Index /\ 2 \in Index /\ e \in Index
      /\ n \in Nat /\ n >= 8 /\ n = Len - 4 /\ e = Len - 2 /\ e \in Nat
  BY LenType
<1>2. FreshHeap = h3
  BY DEF FreshHeap
<1>3. blank \in HeapType /\ Linked(blank, {})
  <2>1. blank \in HeapType /\ blank.avail = 0
    BY <1>1 DEF HeapType
  <2> QED
    BY <2>1 DEF Linked, Spread
<1> HIDE DEF blank, n, e
<1>4. /\ h1 \in HeapType /\ Linked(h1, {})
      /\ \A j : Word(h1, j) = IF j \in {0, 0 + 2 - 1} THEN -2 ELSE Word(blank, j)
  <2>1. 0 + 2 <= Len /\ Clear({}, 0, 2) /\ 2 \in Nat /\ 2 >= 2
    BY <1>1 DEF Clear
  <2> QED
    BY <1>1, <1>3, <2>1, MakeTakenLinked
<1> HIDE DEF h1
<1>5. /\ h2 \in HeapType /\ Linked(h2, {2}) /\ h2.avail = 2
      /\ \A j : j \notin Links({2}) =>
           Word(h2, j) = IF j = 2 \/ j = 2 + n - 1 THEN n ELSE Word(h1, j)
  <2>1. n >= 4 /\ 2 + n <= Len /\ Clear({}, 2, n) /\ 2 # 0 /\ {} \union {2} = {2}
    BY <1>1 DEF Clear
  <2>2. h2 \in HeapType /\ Linked(h2, {} \union {2})
    BY <1>1, <1>4, <2>1, MakeAvailLinked
  <2>3. h2.avail = 2
    BY <1>1, <1>4, <2>1, MakeAvailIs
  <2>4. \A j : j \notin Links({} \union {2}) =>
           Word(h2, j) = IF j = 2 \/ j = 2 + n - 1 THEN n ELSE Word(h1, j)
    BY <1>1, <1>4, <2>1, MakeAvailWords
  <2> QED
    BY <2>1, <2>2, <2>3, <2>4
<1> HIDE DEF h2
<1>6. /\ h3 \in HeapType /\ Linked(h3, {2}) /\ h3.avail = 2
      /\ \A j : Word(h3, j) = IF j \in {e, e + 2 - 1} THEN -2 ELSE Word(h2, j)
  <2>1. e + 2 <= Len /\ Clear({2}, e, 2) /\ 2 \in Nat /\ 2 >= 2
    BY <1>1 DEF Clear
  <2>2. /\ h3 \in HeapType /\ Linked(h3, {2})
        /\ \A j : Word(h3, j) = IF j \in {e, e + 2 - 1} THEN -2 ELSE Word(h2, j)
    BY <1>1, <1>5, <2>1, MakeTakenLinked
  <2>3. h3.avail = 2
    <3>1. -2 \in Int /\ Abs(-2) = 2
      <4> DEFINE x == 2
      <4>1. x \in Nat
        OBVIOUS
      <4> HIDE DEF x
      <4>2. -x \in Int /\ Abs(-x) = x
        BY <4>1 DEF Abs
      <4> QED
        BY <4>2 DEF x
    <3>2. e + 2 - 1 \in Index
      BY <1>1, LenType
    <3>3. e + Abs(-2) - 1 \in Index
      BY <3>1, <3>2
    <3> QED
      BY <1>1, <1>5, <3>1, <3>3, SetTagsIs DEF MakeTaken
  <2> QED
    BY <2>2, <2>3
<1> HIDE DEF h3
<1>7. /\ 0 \in B /\ 2 \in B /\ e \in B /\ \A i \in B : i = 0 \/ i = 2 \/ i = e
      /\ sz[0] = 2 /\ sz[2] = n /\ sz[e] = 2 /\ sz \in [B -> Nat]
      /\ Sentinels = {0, e} /\ 0 # 2 /\ 2 # e /\ 0 # e
  BY <1>1 DEF Sentinels, n, e
<1> HIDE DEF B, sz
<1>8. Tiling(B, sz)
  <2>1. B \subseteq Index /\ Sentinels \subseteq B
    BY <1>1, <1>7
  <2>2. \A i \in B : IF i \in Sentinels THEN sz[i] = 2 ELSE sz[i] >= 4
    BY <1>1, <1>7
  <2>3. \A i \in B : i # Len - 2 => i + sz[i] \in B
    <3>1. 2 + n = e
      BY <1>1
    <3> QED
      BY <1>1, <1>7, <3>1
  <2>4. \A i \in B : i # 0 => \E l \in B : l + sz[l] = i
    <3>1. 2 + sz[2] = e /\ 0 + sz[0] = 2
      BY <1>1, <1>7
    <3> QED
      BY <1>7, <3>1
  <2>5. \A i, j \in B : i < j => i + sz[i] <= j
    BY <1>1, <1>7
  <2> QED
    BY <1>7, <2>1, <2>2, <2>3, <2>4, <2>5 DEF Tiling
<1>9. \A i \in B : TagsAre(h3, sz, i, TagOf(sz, {2}, i))
  <2>1. \A j : j \in Links({2}) <=> j = 3 \/ j = 4
    BY DEF Links
  <2>2. TagsAre(h3, sz, 0, -2)
    <3>1. 0 + 2 - 1 = 1 /\ 0 \notin {e, e + 1} /\ 1 \notin {e, e + 1} /\ e + 2 - 1 = e + 1
          /\ 0 # 2 + n - 1 /\ 1 # 2 + n - 1
      BY <1>1
    <3>2. Word(h2, 0) = Word(h1, 0) /\ Word(h2, 1) = Word(h1, 1)
      BY <1>5, <2>1, <3>1
    <3>3. Word(h1, 0) = -2 /\ Word(h1, 1) = -2
      BY <1>4, <3>1
    <3> QED
      BY <1>6, <1>7, <3>1, <3>2, <3>3 DEF TagsAre
  <2>3. TagsAre(h3, sz, 2, n)
    <3>1. 2 \notin {e, e + 1} /\ 2 + n - 1 \notin {e, e + 1} /\ e + 2 - 1 = e + 1
          /\ 2 + n - 1 # 3 /\ 2 + n - 1 # 4
      BY <1>1
    <3>2. Word(h2, 2) = n /\ Word(h2, 2 + n - 1) = n
      BY <1>5, <2>1, <3>1
    <3> QED
      BY <1>6, <1>7, <3>1, <3>2 DEF TagsAre
  <2>4. TagsAre(h3, sz, e, -2)
    BY <1>6, <1>7 DEF TagsAre
  <2> QED
    BY <1>7, <2>2, <2>3, <2>4 DEF TagOf
<1>10. Shape(h3, B, sz, {2})
  BY <1>6, <1>7, <1>8, <1>9 DEF Shape
<1>11. Merged(sz, {2})
  BY <1>1, <1>7 DEF Merged
<1> QED
  BY <1>2, <1>6, <1>10, <1>11 DEF B, sz

\* heapInit, with the block of theLock.
LEMMA InitGood ==
  ASSUME Init
  PROVE  \E B, sz, F : Good(heap, live, B, sz, F)
<1> DEFINE B == {0, 2, Len - 2}
           sz == [i \in B |-> IF i = 2 THEN Len - 4 ELSE 2]
           b == BestFit(FreshHeap, Units(1))
           g == Take(FreshHeap, b, Units(1))
<1>1. Shape(FreshHeap, B, sz, {2}) /\ Merged(sz, {2}) /\ FreshHeap.avail = 2
  BY FreshShape
<1>2. Units(1) = 4 /\ AskedWords(1) = 1
  <2>1. WordBytes \in Nat /\ WordBytes >= 1 /\ IntModulus \in Nat /\ IntModulus >= 16
        /\ WordBytes * IntModulus \in Nat
        /\ SizeModulus \in Nat /\ SizeModulus >= WordBytes * IntModulus
    BY HeapAssumption DEF HeapAssumption
  <2>2. (1 + (WordBytes - 1)) \div WordBytes = 1
    <3>1. 1 + (WordBytes - 1) = WordBytes /\ WordBytes * 1 = WordBytes
      BY <2>1
    <3>2. WordBytes \div WordBytes = 1
      <4>1. WordBytes * 1 <= WordBytes /\ WordBytes < WordBytes * 1 + WordBytes /\ 1 \in Nat
        BY <2>1
      <4> QED
        BY <2>1, <4>1, QuotientIs
    <3> QED
      BY <3>1, <3>2
  <2>3. (1 + (WordBytes - 1)) % SizeModulus = 1 + (WordBytes - 1)
    <3>1. WordBytes * 2 <= WordBytes * IntModulus
      BY <2>1, FactorsInOrder
    <3>2. 1 + (WordBytes - 1) \in Nat /\ 1 + (WordBytes - 1) < SizeModulus
      BY <2>1, <3>1
    <3> QED
      BY <2>1, <3>2
  <2>4. Narrow(1 + 2) = 3
    BY <2>1 DEF Narrow
  <2> QED
    BY <2>2, <2>3, <2>4 DEF Units, AskedWords
<1>3. sz[2] = Len - 4 /\ Len - 4 >= 8 /\ Len - 4 \in Nat /\ B \ {2} = Sentinels
  BY LenType DEF Sentinels
<1> HIDE DEF B, sz
<1>4. b = 2
  <2>1. 4 \in Nat /\ FreshHeap.avail \in {2} /\ sz[FreshHeap.avail] >= 4
    BY <1>1, <1>3
  <2>2. BestFit(FreshHeap, 4) # 0
    BY <1>1, <2>1, BestFitIs
  <2>3. BestFit(FreshHeap, 4) \in {2}
    BY <1>1, <2>1, <2>2, BestFitIs
  <2> QED
    BY <1>2, <2>3
<1>5. PICK C, tz, G : /\ Shape(g, C, tz, G) /\ Merged(tz, G)
                      /\ C \ G = (B \ {2}) \union {2} /\ tz[2] >= 4
  <2>1. 2 \in {2} /\ 4 \in Nat /\ 4 >= 4 /\ 4 <= sz[2]
    BY <1>3
  <2>2. \E C, tz, G : /\ Shape(Take(FreshHeap, 2, 4), C, tz, G) /\ Merged(tz, G)
                      /\ C \ G = (B \ {2}) \union {2} /\ tz[2] >= 4
    <3> DEFINE i == 2
               u == 4
    <3>1. Shape(FreshHeap, B, sz, {i}) /\ Merged(sz, {i}) /\ i \in {i}
          /\ u \in Nat /\ u >= 4 /\ u <= sz[i]
      BY <1>1, <2>1
    <3> HIDE DEF i, u
    <3>2. \E C, tz, G : /\ Shape(Take(FreshHeap, i, u), C, tz, G) /\ Merged(tz, G)
                        /\ C \ G = (B \ {i}) \union {i} /\ tz[i] >= u
      <4> DEFINE F == {i}
      <4>1. Shape(FreshHeap, B, sz, F) /\ Merged(sz, F) /\ i \in F
        BY <3>1
      <4> HIDE DEF F
      <4>2. \E C, tz, G : /\ Shape(Take(FreshHeap, i, u), C, tz, G) /\ Merged(tz, G)
                          /\ C \ G = (B \ F) \union {i} /\ tz[i] >= u
                          /\ Keeps(FreshHeap, sz, Take(FreshHeap, i, u), tz, B \ F)
        BY <3>1, <4>1, TakeShape
      <4> QED
        BY <4>2 DEF F
    <3> QED
      BY <3>2 DEF i, u
  <2> QED
    BY <1>2, <1>4, <2>2
<1>6. heap = g /\ live = {TheLock} /\ TheLock.block = 2 /\ TheLock.bytes = 1
  BY DEF Init, TheLock
<1> HIDE DEF g, b
<1>7. OwnedBy(live, C, tz, G)
  <2>1. tz[2] \in Nat
    <3>1. 2 \in C /\ Tiling(C, tz)
      BY <1>5 DEF Shape
    <3> QED
      BY <3>1, TilingTypes
  <2>2. 2 \notin Sentinels
    BY LenType DEF Sentinels
  <2>3. AskedWords(1) \in Nat /\ AskedWords(1) + 2 <= tz[2]
    BY <1>2, <1>5, <2>1
  <2>4. C \ G = {m.block : m \in live} \union Sentinels
    BY <1>3, <1>5, <1>6
  <2> QED
    BY <1>6, <2>2, <2>3, <2>4 DEF OwnedBy
<1> QED
  BY <1>5, <1>6, <1>7 DEF Good

-----------------------------------------------------------------------------
(***************************************************************************)
(* The invariant of HeaderSpec.                                            *)
(***************************************************************************)
\* The walk over the headers meets the blocks.
LEMMA HeadersAre ==
  ASSUME NEW B, NEW sz, NEW F, Shape(heap, B, sz, F)
  PROVE  /\ Headers = B
         /\ \A i \in B : /\ Size(heap, i) = sz[i] /\ (IsAvail(heap, i) <=> i \in F)
                         /\ Word(heap, FooterFromHeader(heap, i)) = Word(heap, i)
<1> DEFINE f == [i \in Int |-> IF i \in Index THEN Right(heap, i) ELSE Len]
           Walk(at) ==
             at = [k \in 0 .. Len |->
                     IF k = 0 THEN 0
                     ELSE LET i == at[k - 1] IN
                          IF i \in Index THEN Right(heap, i) ELSE Len]
<1>1. /\ heap \in HeapType /\ Tiling(B, sz) /\ Len \in Nat /\ Index = 0 .. Len - 1
      /\ \A i \in B : TagsAre(heap, sz, i, TagOf(sz, F, i))
  BY LenType DEF Shape
<1>2. \A i \in B : /\ i \in Nat /\ i \in Index /\ sz[i] \in Nat /\ sz[i] >= 2
                   /\ i <= Len - 2 /\ i + sz[i] <= Len
  BY <1>1, TilingTypes
<1>3. \A i \in B : /\ Size(heap, i) = sz[i] /\ (IsAvail(heap, i) <=> i \in F)
                   /\ Word(heap, FooterFromHeader(heap, i)) = Word(heap, i)
                   /\ Right(heap, i) = i + sz[i]
  <2> SUFFICES ASSUME NEW i \in B
               PROVE  /\ Size(heap, i) = sz[i] /\ (IsAvail(heap, i) <=> i \in F)
                      /\ Word(heap, FooterFromHeader(heap, i)) = Word(heap, i)
                      /\ Right(heap, i) = i + sz[i]
    OBVIOUS
  <2>1. Word(heap, i) = TagOf(sz, F, i) /\ Word(heap, i + sz[i] - 1) = TagOf(sz, F, i)
    BY <1>1 DEF TagsAre
  <2>2. Size(heap, i) = sz[i]
    BY <1>2, <2>1, SizeIs DEF TagOf
  <2> QED
    BY <1>2, <2>1, <2>2 DEF TagOf, IsAvail, FooterFromHeader, Right
<1>4. \A i \in Int : Right(heap, i) \in Int
  BY <1>1, WordType DEF Right, Size, Abs
<1>5. f \in [Int -> Int] /\ \A i \in Int : f[i] = IF i \in Index THEN Right(heap, i) ELSE Len
  BY <1>1, <1>4
<1> HIDE DEF f
<1>6. PICK at \in [0 .. Len -> Int] : WalkOf(at, 0, Len, f, 0)
  <2>1. 0 \in Nat /\ 0 \in Int /\ 0 <= Len
    BY <1>1
  <2> QED
    BY <1>1, <1>5, <2>1, WalkExists
<1>7. Walk(at)
  <2>1. \A k \in 0 .. Len : k # 0 => k - 1 \in 0 .. Len
    BY <1>1
  <2>2. \A k \in 0 .. Len : k # 0 => at[k - 1] \in Int
    BY <2>1, <1>6
  <2> QED
    BY <1>5, <1>6, <2>2 DEF WalkOf
<1> DEFINE v == CHOOSE w : Walk(w)
<1>8. Headers = {v[k] : k \in 0 .. Len} \ {Len}
  BY DEF Headers
<1>9. Walk(v)
  BY <1>7
<1> HIDE DEF v
<1>10. /\ v[0] = 0
       /\ \A k \in 1 .. Len : v[k] = IF v[k - 1] \in Index THEN Right(heap, v[k - 1]) ELSE Len
  BY <1>1, <1>9
<1>11. \A i \in B : i # Len - 2 => i + sz[i] \in B
  BY <1>1 DEF Tiling
<1>12. Len \notin B /\ 0 \in B /\ sz[Len - 2] = 2
  BY <1>1, <1>2 DEF Tiling, Sentinels
<1>13. \A k \in 0 .. Len : v[k] \in B \union {Len}
  <2> DEFINE Y == B \union {Len}
  <2>1. v[0] \in Y
    BY <1>10, <1>12
  <2>2. \A k \in 0 + 1 .. Len : v[k - 1] \in Y => v[k] \in Y
    <3> SUFFICES ASSUME NEW k \in 1 .. Len, v[k - 1] \in B \union {Len}
                 PROVE  v[k] \in B \union {Len}
      OBVIOUS
    <3>1. CASE v[k - 1] = Len
      <4>1. Len \notin Index
        BY <1>1
      <4> QED
        BY <1>10, <3>1, <4>1
    <3>2. CASE v[k - 1] \in B /\ v[k - 1] # Len - 2
      BY <1>2, <1>3, <1>10, <1>11, <3>2
    <3>3. CASE v[k - 1] \in B /\ v[k - 1] = Len - 2
      <4>1. Len - 2 + 2 = Len
        BY <1>1
      <4> QED
        BY <1>2, <1>3, <1>10, <1>12, <3>3, <4>1
    <3> QED
      BY <3>1, <3>2, <3>3
  <2> HIDE DEF Y
  <2>3. 0 \in Nat
    OBVIOUS
  <2>4. \A k \in 0 .. Len : v[k] \in Y
    BY <1>1, <2>1, <2>2, <2>3, WalkStays
  <2> QED
    BY <2>4 DEF Y
<1>14. \A i \in B : \E k \in 0 .. i : v[k] = i
  <2> DEFINE S == {i \in B : \A k \in 0 .. i : v[k] # i}
  <2> SUFFICES ASSUME S # {} PROVE FALSE
    OBVIOUS
  <2>1. S \subseteq Nat
    BY <1>2
  <2>2. PICK i \in S : \A j \in S : i <= j
    BY <2>1, LeastOf
  <2>3. i \in B /\ i \in Nat /\ \A k \in 0 .. i : v[k] # i
    BY <1>2
  <2>4. i # 0
    BY <1>10, <2>3
  <2>5. PICK l \in B : l + sz[l] = i
    BY <1>1, <2>3, <2>4 DEF Tiling
  <2>6. l \in Nat /\ l < i
    BY <1>2, <2>5
  <2>7. l \notin S
    BY <2>2, <2>3, <2>6
  <2>8. PICK k \in 0 .. l : v[k] = l
    BY <2>5, <2>7
  <2>9. k + 1 \in 1 .. Len /\ k + 1 \in 0 .. i /\ k + 1 - 1 = k
    BY <1>1, <1>2, <2>3, <2>6, <2>8
  <2>10. v[k + 1] = i
    <3>1. v[k + 1] = IF v[k] \in Index THEN Right(heap, v[k]) ELSE Len
      BY <1>10, <2>9
    <3>2. l \in Index /\ Right(heap, l) = i
      BY <1>2, <1>3, <2>5
    <3> QED
      BY <2>8, <3>1, <3>2
  <2> QED
    BY <2>3, <2>9, <2>10
<1>15. Headers = B
  <2>1. Headers \subseteq B
    BY <1>8, <1>13
  <2>2. B \subseteq Headers
    <3> SUFFICES ASSUME NEW i \in B PROVE i \in Headers
      OBVIOUS
    <3>1. PICK k \in 0 .. i : v[k] = i
      BY <1>14
    <3>2. k \in 0 .. Len /\ i # Len
      BY <1>1, <1>2, <3>1
    <3> QED
      BY <1>8, <3>1, <3>2
  <2> QED
    BY <2>1, <2>2
<1> QED
  BY <1>3, <1>15

\* The inductive invariant: the array encodes some blocks, and malloc and free
\* never find a tag they do not expect.
HeapInv ==
  /\ panicked \in {"no", "out of memory"}
  /\ \E B, sz, F : Good(heap, live, B, sz, F)

\* The steps of the heap, by what they do to its blocks.
Quiet == heap' = heap /\ live' = live

\* A client writes the words it asked for.
Writes(B, sz, F) ==
  /\ live' = live /\ Good(heap', live', B, sz, F)
  /\ \E m \in live, x \in Payload :
       heap' = [heap EXCEPT !.array =
                  [i \in Index |-> IF i \in UserWords(m) THEN x ELSE @[i]]]

\* malloc hands out the free block b; the clients' blocks keep their words.
Mallocs(B, sz, F) ==
  \E bytes \in Requests, b \in F :
    LET m == [block |-> b, bytes |-> bytes] IN
    /\ bytes # 0 /\ m \notin live /\ m # TheLock
    /\ live' = live \union {m}
    /\ \E C, tz, G : /\ Good(heap', live', C, tz, G)
                     /\ Keeps(heap, sz, heap', tz, B \ F)

\* free takes the block of m back; the other clients' blocks keep their words.
Frees(B, sz, F) ==
  \E m \in live :
    /\ m # TheLock /\ live' = live \ {m}
    /\ \E C, tz, G : /\ Good(heap', live', C, tz, G)
                     /\ Keeps(heap, sz, heap', tz, (B \ F) \ {m.block})

\* Every step is one of these.
LEMMA StepGood ==
  ASSUME HeapInv, [HeaderNext]_vars,
         NEW B, NEW sz, NEW F, Good(heap, live, B, sz, F)
  PROVE  /\ panicked' \in {"no", "out of memory"}
         /\ Quiet \/ Writes(B, sz, F) \/ Mallocs(B, sz, F) \/ Frees(B, sz, F)
<1>1. Shape(heap, B, sz, F) /\ ~ MallocPanics(heap)
  BY NeverPanics DEF Good
<1>2. CASE UNCHANGED vars
  BY <1>2 DEF vars, HeapInv, Quiet
<1>3. ASSUME NEW bytes \in Requests, New(bytes)
      PROVE  panicked' \in {"no", "out of memory"} /\ (Quiet \/ Mallocs(B, sz, F))
  <2>1. CASE IsNull(bytes)
    BY <1>3, <2>1 DEF New, Malloc, Quiet
  <2>2. CASE ~ IsNull(bytes)
    <3> DEFINE b == BestFit(heap, Units(bytes))
               m == [block |-> b, bytes |-> bytes]
    <3>1. /\ heap' = Take(heap, b, Units(bytes))
          /\ live' = live \union {m}
          /\ panicked' = panicked
      BY <1>1, <1>3, <2>2 DEF New, Malloc
    <3>2. b # 0 /\ bytes # 0
      BY <1>1, <2>2 DEF IsNull
    <3>3. Units(bytes) \in Nat
      BY RequestsAreSmall, UnitsHoldTheWords
    <3>4. b \in F /\ sz[b] >= Units(bytes)
      BY <1>1, <3>2, <3>3, BestFitIs
    <3> HIDE DEF b
    <3>5. /\ m \notin live /\ m # TheLock
          /\ \E C, tz, G : /\ Good(Take(heap, b, Units(bytes)), live \union {m}, C, tz, G)
                           /\ Keeps(heap, sz, Take(heap, b, Units(bytes)), tz, B \ F)
      BY <3>4, MallocGood
    <3>6. \E C, tz, G : /\ Good(heap', live', C, tz, G)
                        /\ Keeps(heap, sz, heap', tz, B \ F)
      BY <3>1, <3>5
    <3> QED
      BY <3>1, <3>2, <3>4, <3>5, <3>6 DEF HeapInv, Mallocs
  <2> QED
    BY <2>1, <2>2
<1>4. ASSUME NEW m \in live, NEW x \in Payload, ClientWrites(m, x)
      PROVE  /\ panicked' \in {"no", "out of memory"}
             /\ Writes(B, sz, F)
  <2>1. heap' = [heap EXCEPT !.array =
                   [i \in Index |-> IF i \in UserWords(m) THEN x ELSE @[i]]]
        /\ live' = live /\ panicked' = panicked
    BY <1>4 DEF ClientWrites
  <2>2. Good([heap EXCEPT !.array =
                   [i \in Index |-> IF i \in UserWords(m) THEN x ELSE @[i]]], live, B, sz, F)
    BY ClientWritesGood
  <2>3. Good(heap', live', B, sz, F)
    BY <2>1, <2>2
  <2> QED
    BY <2>1, <2>3 DEF HeapInv, Writes
<1>5. ASSUME NEW m \in live, FreeAt(m, m.block)
      PROVE  /\ panicked' \in {"no", "out of memory"}
             /\ Frees(B, sz, F)
  <2>1. m # TheLock
    BY <1>5 DEF FreeAt
  <2>2. IsTaken(heap, m.block)
    <3> DEFINE b == m.block
    <3>1. b \in B /\ b \notin F
      BY OwnedBlocks
    <3> HIDE DEF b
    <3>2. sz[b] \in Nat /\ sz[b] >= 2 /\ Word(heap, b) = -sz[b]
      BY <1>1, <3>1, TilingTypes DEF Shape, TagsAre, TagOf
    <3>3. IsTaken(heap, b)
      BY <3>2 DEF IsTaken
    <3> QED
      BY <3>3 DEF b
  <2>3. heap' = FreeBlock(heap, m.block) /\ live' = live \ {m} /\ panicked' = panicked
    BY <1>5, <2>2 DEF FreeAt
  <2>4. \E C, tz, G : /\ Good(FreeBlock(heap, m.block), live \ {m}, C, tz, G)
                      /\ Keeps(heap, sz, FreeBlock(heap, m.block), tz, (B \ F) \ {m.block})
    BY <2>1, FreeGood
  <2> QED
    <3>1. \E C, tz, G : /\ Good(heap', live', C, tz, G)
                        /\ Keeps(heap, sz, heap', tz, (B \ F) \ {m.block})
      BY <2>3, <2>4
    <3> QED
      BY <2>1, <2>3, <3>1 DEF HeapInv, Frees
<1>6. CASE \E bytes \in Requests : New(bytes)
  BY <1>3, <1>6
<1>7. CASE \E m \in live, x \in Payload : ClientWrites(m, x)
  BY <1>4, <1>7
<1>8. CASE \E m \in live : FreeAt(m, m.block)
  BY <1>5, <1>8
<1>9. CASE Halted
  BY <1>2, <1>9 DEF Halted
<1> QED
  BY <1>2, <1>6, <1>7, <1>8, <1>9 DEF HeaderNext, Clients

\* The invariant holds of the heap that heapInit builds and over every call of
\* malloc, free, new and delete and every write of a client (heap.cpp:124-266).
THEOREM HeapInvariant == HeaderSpec => []HeapInv
<1>1. Init => HeapInv
  BY InitGood DEF Init, HeapInv
<1>2. HeapInv /\ [HeaderNext]_vars => HeapInv'
  <2> SUFFICES ASSUME HeapInv, [HeaderNext]_vars PROVE HeapInv'
    OBVIOUS
  <2>1. PICK B, sz, F : Good(heap, live, B, sz, F)
    BY DEF HeapInv
  <2>2. panicked' \in {"no", "out of memory"}
        /\ (Quiet \/ Writes(B, sz, F) \/ Mallocs(B, sz, F) \/ Frees(B, sz, F))
    BY <2>1, StepGood
  <2>3. CASE Quiet
    <3>1. Good(heap', live', B, sz, F)
      BY <2>1, <2>3 DEF Quiet
    <3> QED
      BY <2>2, <3>1 DEF HeapInv
  <2>4. CASE Writes(B, sz, F)
    BY <2>2, <2>4 DEF HeapInv, Writes
  <2>5. CASE Mallocs(B, sz, F)
    BY <2>2, <2>5 DEF HeapInv, Mallocs
  <2>6. CASE Frees(B, sz, F)
    BY <2>2, <2>6 DEF HeapInv, Frees
  <2> QED
    BY <2>2, <2>3, <2>4, <2>5, <2>6
<1> QED
  BY <1>1, <1>2, PTL DEF HeaderSpec

-----------------------------------------------------------------------------
(***************************************************************************)
(* What follows from it.                                                   *)
(***************************************************************************)
\* malloc and free find the tags they expect.
THEOREM NeverAFalsePanic == HeaderSpec => []NoFalsePanic
<1>1. HeapInv => NoFalsePanic
  BY DEF HeapInv, NoFalsePanic
<1> QED
  BY <1>1, HeapInvariant, PTL

\* The walk from block to block by their sizes, as right() takes it, ends at
\* the end of the array, and the two tags of each block agree: what sanity()
\* checks when `safe' is set (heap.cpp:35-57).
THEOREM BlocksAlwaysTile == HeaderSpec => []BlocksTileTheHeap
<1>1. ASSUME HeapInv PROVE BlocksTileTheHeap
  <2>1. PICK B, sz, F : Good(heap, live, B, sz, F)
    BY <1>1 DEF HeapInv
  <2>2. Shape(heap, B, sz, F) /\ Tiling(B, sz) /\ heap \in HeapType
    BY <2>1 DEF Good, Shape
  <2>3. TypeOK
    <3>1. heap.array \in [Index -> Int] /\ heap.avail \in Index
      BY <2>2 DEF HeapType
    <3>2. \A m \in live : m.block \in Nat /\ m.block >= 2 /\ m.block <= Len - 6 /\ m.bytes \in Nat
      BY <2>1, OwnedBlocks
    <3>3. \A m \in live : m.block \in 2 .. Len - 6 /\ m.bytes \in Nat
      BY <3>2, LenType
    <3>4. panicked \in {"no", "not available", "freeing free block", "out of memory"}
      BY <1>1 DEF HeapInv
    <3> QED
      BY <3>1, <3>3, <3>4 DEF TypeOK
  <2>4. /\ Headers = B
        /\ \A i \in B : /\ Size(heap, i) = sz[i]
                        /\ Word(heap, FooterFromHeader(heap, i)) = Word(heap, i)
    BY <2>2, HeadersAre
  <2>5. 0 \in B /\ Len - 2 \in B /\ B \subseteq Index
        /\ \A i \in B : i \in Nat /\ sz[i] \in Nat /\ sz[i] >= 2 /\ i + sz[i] <= Len
    BY <2>2, TilingTypes
  <2>6. \A i \in B : FooterFromHeader(heap, i) \in Index
    BY <2>4, <2>5, LenType DEF FooterFromHeader
  <2> QED
    BY <2>3, <2>4, <2>5, <2>6 DEF BlocksTileTheHeap
<1> QED
  BY <1>1, HeapInvariant, PTL

\* free() leaves no two free neighbours (heap.cpp:221-232).
THEOREM NeighboursAlwaysMerged == HeaderSpec => []NeighboursAreMerged
<1>1. ASSUME HeapInv PROVE NeighboursAreMerged
  <2>1. PICK B, sz, F : Good(heap, live, B, sz, F)
    BY <1>1 DEF HeapInv
  <2>2. Shape(heap, B, sz, F) /\ Merged(sz, F) /\ F \subseteq B
    BY <2>1 DEF Good, Shape
  <2>3. /\ Headers = B
        /\ \A i \in B : Size(heap, i) = sz[i] /\ (IsAvail(heap, i) <=> i \in F)
    BY <2>2, HeadersAre
  <2>4. Available = F
    BY <2>2, <2>3 DEF Available
  <2> QED
    BY <2>2, <2>3, <2>4 DEF NeighboursAreMerged, Right, Merged
<1> QED
  BY <1>1, HeapInvariant, PTL

\* The blocks tagged as taken are the sentinels and those that clients hold:
\* none is lost, and none is in use twice.
THEOREM NothingIsLeaked == HeaderSpec => []TakenIsLive
<1>1. ASSUME HeapInv PROVE TakenIsLive
  <2>1. PICK B, sz, F : Good(heap, live, B, sz, F)
    BY <1>1 DEF HeapInv
  <2>2. Shape(heap, B, sz, F) /\ B \ F = {m.block : m \in live} \union Sentinels
    BY <2>1 DEF Good, OwnedBy
  <2>3. Headers = B /\ \A i \in B : IsAvail(heap, i) <=> i \in F
    BY <2>2, HeadersAre
  <2> QED
    BY <2>2, <2>3 DEF TakenIsLive, Sentinels
<1> QED
  BY <1>1, HeapInvariant, PTL

\* The walk along next() from avail meets every free block once and ends, and
\* prev() goes back the same way (heap.cpp:67-108).
THEOREM FreeListAlwaysExact == HeaderSpec => []FreeListIsExact
<1>1. ASSUME HeapInv PROVE FreeListIsExact
  <2>1. PICK B, sz, F : Good(heap, live, B, sz, F)
    BY <1>1 DEF HeapInv
  <2>2. Shape(heap, B, sz, F) /\ Linked(heap, F) /\ heap \in HeapType /\ F \subseteq B
    BY <2>1 DEF Good, Shape
  <2>3. Available = F
    <3>1. Headers = B /\ \A i \in B : IsAvail(heap, i) <=> i \in F
      BY <2>2, HeadersAre
    <3> QED
      BY <2>2, <3>1 DEF Available
  <2> DEFINE f == [i \in Int |-> IF i \in F THEN NextFree(heap, i) ELSE i]
             Walk(at) == at = [k \in 1 .. Len |->
                                 IF k = 1 THEN heap.avail
                                 ELSE LET i == at[k - 1] IN
                                      IF i \in F THEN NextFree(heap, i) ELSE i]
             v == CHOOSE w : Walk(w)
             c == Cardinality(F)
  <2>4. Walk(v)
    <3>1. \A i \in Int : NextFree(heap, i) \in Int
      BY <2>2, WordType DEF NextFree
    <3>2. f \in [Int -> Int] /\ \A i \in Int : f[i] = IF i \in F THEN NextFree(heap, i) ELSE i
      BY <3>1
    <3> HIDE DEF f
    <3>3. PICK at \in [1 .. Len -> Int] : WalkOf(at, 1, Len, f, heap.avail)
      <4>1. 1 \in Nat /\ Len \in Nat /\ 1 <= Len /\ heap.avail \in Int
        BY <2>2, LenType DEF HeapType
      <4> QED
        BY <3>2, <4>1, WalkExists
    <3>4. Walk(at)
      <4>1. \A k \in 1 .. Len : k # 1 => k - 1 \in 1 .. Len
        BY LenType
      <4>2. \A k \in 1 .. Len : k # 1 => at[k - 1] \in Int
        BY <3>3, <4>1
      <4> QED
        BY <3>2, <3>3, <4>2 DEF WalkOf
    <3> QED
      BY <3>4
  <2>5. FreeListIsExact <=>
          /\ {v[k] : k \in 1 .. c + 1} = F \union {0}
          /\ v[c + 1] = 0
          /\ \A i \in F : PrevFree(heap, i) =
               IF i = heap.avail THEN 0 ELSE CHOOSE j \in F : NextFree(heap, j) = i
    BY <2>3 DEF FreeListIsExact
  <2> HIDE DEF v
  <2>6. c \in Nat /\ c + 1 <= Len /\ Len \in Nat /\ Len >= 12
    BY <2>2, LenType, FreeIsFinite DEF Linked
  <2>7. F = {v[k] : k \in 1 .. c} /\ v[c + 1] = 0
    <3>1. v[1] = heap.avail
      BY <2>4, <2>6
    <3>2. \A k \in 2 .. Len : v[k] = IF v[k - 1] \in F THEN Word(heap, v[k - 1] + 1)
                                     ELSE v[k - 1]
      <4>1. \A k \in 2 .. Len : k \in 1 .. Len /\ k # 1
        OBVIOUS
      <4> QED
        BY <2>4, <4>1 DEF NextFree
    <3>3. Len >= 1 /\ Len >= Cardinality(F) /\ Len > Cardinality(F)
      BY <2>6
    <3> QED
      BY <2>2, <2>6, <3>1, <3>2, <3>3, ListWalk
  <2>8. {v[k] : k \in 1 .. c + 1} = F \union {0}
    <3> HIDE DEF c
    <3>1. \A k : k \in 1 .. c + 1 <=> k \in 1 .. c \/ k = c + 1
      BY <2>6
    <3> QED
      BY <2>7, <3>1
  <2>9. \A i \in F : PrevFree(heap, i) =
          IF i = heap.avail THEN 0 ELSE CHOOSE j \in F : NextFree(heap, j) = i
    <3> SUFFICES ASSUME NEW i \in F
                 PROVE  PrevFree(heap, i) =
                   IF i = heap.avail THEN 0 ELSE CHOOSE j \in F : NextFree(heap, j) = i
      OBVIOUS
    <3>1. CASE i = heap.avail
      BY <2>2, <3>1 DEF Linked, PrevFree
    <3>2. CASE i # heap.avail
      <4> DEFINE p == Word(heap, i + 2)
      <4>1. i # 0 /\ p \in F /\ Word(heap, p + 1) = i
        BY <2>2, <3>2, SpreadLinks DEF Linked
      <4>2. \A j \in F : Word(heap, j + 1) = i => j = p
        BY <2>2, <4>1 DEF Linked
      <4> HIDE DEF p
      <4>3. p = CHOOSE j \in F : NextFree(heap, j) = i
        BY <4>1, <4>2 DEF NextFree
      <4> QED
        BY <3>2, <4>3 DEF p, PrevFree
    <3> QED
      BY <3>1, <3>2
  <2> QED
    BY <2>5, <2>7, <2>8, <2>9
<1> QED
  BY <1>1, HeapInvariant, PTL

\* While there are at most twenty free blocks, malloc fails only if none of
\* them holds the request (heap.cpp:160-179).
THEOREM OutOfMemoryIsHonest == HeaderSpec => []HonestOutOfMemory
<1>1. ASSUME HeapInv PROVE HonestOutOfMemory
  <2>1. PICK B, sz, F : Good(heap, live, B, sz, F)
    BY <1>1 DEF HeapInv
  <2>2. Shape(heap, B, sz, F) /\ Linked(heap, F) /\ F \subseteq B
    BY <2>1 DEF Good, Shape
  <2>3. Available = F /\ \A i \in F : Size(heap, i) = sz[i]
    <3>1. Headers = B /\ \A i \in B : Size(heap, i) = sz[i] /\ (IsAvail(heap, i) <=> i \in F)
      BY <2>2, HeadersAre
    <3> QED
      BY <2>2, <3>1 DEF Available
  <2> SUFFICES ASSUME NEW bytes \in Requests, bytes # 0, IsNull(bytes),
                      ~ (Cardinality(F) > Attempts),
                      NEW i \in F
               PROVE  Size(heap, i) < Units(bytes)
    BY <2>3 DEF HonestOutOfMemory
  <2>4. BestFit(heap, Units(bytes)) = 0
    BY DEF IsNull
  <2>5. Units(bytes) \in Nat
    BY RequestsAreSmall, UnitsHoldTheWords
  <2> DEFINE v == Visited(heap)
  <2>6. \A k \in 1 .. Attempts : v[k] \in F => sz[v[k]] < Units(bytes)
    BY <2>2, <2>4, <2>5, BestFitIs
  <2>7. /\ v[1] = heap.avail
        /\ \A k \in 2 .. Attempts : v[k] = IF v[k - 1] \in F THEN Word(heap, v[k - 1] + 1)
                                           ELSE v[k - 1]
    BY <2>2, VisitedIs
  <2> HIDE DEF v
  <2>8. F \subseteq {v[k] : k \in 1 .. Attempts}
    <3>1. Attempts \in Nat /\ Attempts >= 1
      BY HeapAssumption DEF HeapAssumption
    <3>2. Attempts >= Cardinality(F)
      BY <2>2, <3>1, FreeIsFinite DEF Linked
    <3> QED
      BY <2>2, <2>7, <3>1, <3>2, ListWalk
  <2>9. PICK k \in 1 .. Attempts : v[k] = i
    BY <2>8
  <2> QED
    BY <2>3, <2>6, <2>9
<1> QED
  BY <1>1, HeapInvariant, PTL

\* The words of a client's block outlive a step that changes the blocks.
LEMMA BlockOutlives ==
  ASSUME NEW h, NEW lv, NEW B, NEW sz, NEW F, Good(h, lv, B, sz, F),
         NEW g, NEW lw, NEW C, NEW tz, NEW G, Good(g, lw, C, tz, G),
         NEW T, Keeps(h, sz, g, tz, T), NEW m \in lv, m.block \in T
  PROVE  /\ \A i \in UserWords(m) : g.array[i] = h.array[i]
         /\ Word(g, m.block) = Word(h, m.block)
<1> DEFINE b == m.block
<1>1. UserWords(m) \subseteq b + 1 .. b + sz[b] - 2 /\ UserWords(m) \subseteq Index
  BY UserWordsInside
<1>2. b \in B /\ Tiling(B, sz) /\ b \in Index
  BY OwnedBlocks, TilingTypes DEF Good, Shape
<1>3. b \in Nat /\ sz[b] \in Nat /\ sz[b] >= 2
  BY <1>2, TilingTypes
<1>4. \A k \in b .. b + sz[b] - 1 : Word(g, k) = Word(h, k)
  BY DEF Keeps
<1> HIDE DEF b
<1>5. \A i \in UserWords(m) : i \in b .. b + sz[b] - 1 /\ i \in Index
  BY <1>1, <1>3
<1>6. b \in b .. b + sz[b] - 1
  BY <1>3
<1>7. \A i \in UserWords(m) : g.array[i] = h.array[i]
  BY <1>4, <1>5 DEF Word
<1> QED
  BY <1>4, <1>6, <1>7 DEF b

\* No call of malloc or free changes a word of a block in use before and
\* after it (heap.cpp:142-233).
THEOREM ClientsAreUntouched == HeaderSpec => Untouched
<1> DEFINE A == \A m \in live \intersect live' :
                  (live' # live) => \A i \in UserWords(m) : heap'.array[i] = heap.array[i]
<1>1. HeapInv /\ [HeaderNext]_vars => A
  <2> SUFFICES ASSUME HeapInv, [HeaderNext]_vars,
                      NEW m \in live, m \in live', live' # live
               PROVE  \A i \in UserWords(m) : heap'.array[i] = heap.array[i]
    OBVIOUS
  <2>1. PICK B, sz, F : Good(heap, live, B, sz, F)
    BY DEF HeapInv
  <2>2. Quiet \/ Writes(B, sz, F) \/ Mallocs(B, sz, F) \/ Frees(B, sz, F)
    BY <2>1, StepGood
  <2>3. m.block \in B \ F
    BY <2>1, OwnedBlocks
  <2>4. CASE Mallocs(B, sz, F)
    <3>1. PICK C, tz, G : Good(heap', live', C, tz, G) /\ Keeps(heap, sz, heap', tz, B \ F)
      BY <2>4 DEF Mallocs
    <3> QED
      BY <2>1, <2>3, <3>1, BlockOutlives
  <2>5. CASE Frees(B, sz, F)
    <3>0. PICK n \in live :
            /\ live' = live \ {n}
            /\ \E C, tz, G : /\ Good(heap', live', C, tz, G)
                             /\ Keeps(heap, sz, heap', tz, (B \ F) \ {n.block})
      BY <2>5 DEF Frees
    <3>1. PICK C, tz, G :
            /\ live' = live \ {n} /\ Good(heap', live', C, tz, G)
            /\ Keeps(heap, sz, heap', tz, (B \ F) \ {n.block})
      BY <3>0
    <3>2. m # n /\ m.block # n.block
      BY <2>1, <3>1 DEF Good, OwnedBy
    <3>3. m.block \in (B \ F) \ {n.block}
      BY <2>3, <3>2
    <3> QED
      BY <2>1, <3>1, <3>3, BlockOutlives
  <2> QED
    BY <2>2, <2>4, <2>5 DEF Quiet, Writes
<1>2. HeapInv /\ [HeaderNext]_vars => [A]_vars
  BY <1>1
<1> QED
  BY <1>2, HeapInvariant, PTL DEF HeaderSpec, Untouched

-----------------------------------------------------------------------------
(***************************************************************************)
(* The heap is an allocator.                                               *)
(***************************************************************************)
\* The words between the tags of a client's block.
RegionOf(sz, m) == [first |-> m.block + 1,
                    last |-> m.block + sz[m.block] - 2,
                    asked |-> AskedWords(m.bytes)]

\* What the abstract allocator sees in use.
Regions(lv, sz) == {RegionOf(sz, m) : m \in lv \ {TheLock}}

\* The footer of a client's block is where its size says.
LEMMA FooterIs ==
  ASSUME NEW h, NEW lv, NEW B, NEW sz, NEW F, Good(h, lv, B, sz, F), NEW m \in lv
  PROVE  FooterFromHeader(h, m.block) - 1 = m.block + sz[m.block] - 2
<1> DEFINE b == m.block
<1>1. b \in B /\ b \in Nat /\ sz[b] \in Nat
  BY OwnedBlocks
<1>2. TagsAre(h, sz, b, TagOf(sz, F, b))
  BY <1>1 DEF Good, Shape
<1> HIDE DEF b
<1>3. Size(h, b) = sz[b]
  BY <1>1, <1>2, SizeIs DEF TagsAre, TagOf
<1>4. FooterFromHeader(h, b) - 1 = b + sz[b] - 2
  BY <1>1, <1>3 DEF FooterFromHeader
<1> QED
  BY <1>4 DEF b

\* The regions of the refinement mapping, by the sizes of the blocks.
LEMMA RegionsAre ==
  ASSUME NEW B, NEW sz, NEW F, Good(heap, live, B, sz, F)
  PROVE  {Region(m) : m \in live \ {TheLock}} = Regions(live, sz)
<1>1. \A m \in live : Region(m) = RegionOf(sz, m)
  BY FooterIs DEF Region, RegionOf
<1> QED
  BY <1>1 DEF Regions

\* The same after the step.
LEMMA RegionsAreNext ==
  ASSUME NEW B, NEW sz, NEW F, Good(heap', live', B, sz, F)
  PROVE  {Region(m) : m \in live \ {TheLock}}' = Regions(live', sz)
<1>1. \A m \in live' : Region(m)' = RegionOf(sz, m)
  <2> SUFFICES ASSUME NEW m \in live' PROVE Region(m)' = RegionOf(sz, m)
    OBVIOUS
  <2>1. FooterFromHeader(heap', m.block) - 1 = m.block + sz[m.block] - 2
    BY FooterIs
  <2> QED
    BY <2>1 DEF Region, RegionOf, FooterFromHeader, Size, Word
<1>2. TheLock' = TheLock
  BY DEF TheLock
<1> QED
  BY <1>1, <1>2 DEF Regions

\* Regions in use do not overlap.
LEMMA RegionsApart ==
  ASSUME NEW h, NEW lv, NEW B, NEW sz, NEW F, Good(h, lv, B, sz, F),
         NEW m \in lv, NEW n \in lv, m # n
  PROVE  (n.block + 1 .. n.block + sz[n.block] - 2)
           \intersect (m.block + 1 .. m.block + sz[m.block] - 2) = {}
<1>1. m.block # n.block /\ m.block \in B /\ n.block \in B /\ Tiling(B, sz)
  BY OwnedBlocks DEF Good, OwnedBy, Shape
<1>2. m.block \in Nat /\ n.block \in Nat /\ sz[m.block] \in Nat /\ sz[n.block] \in Nat
  BY OwnedBlocks
<1>3. m.block + sz[m.block] <= n.block \/ n.block + sz[n.block] <= m.block
  BY <1>1, BlocksApart
<1> QED
  BY <1>2, <1>3

\* malloc is an Allocate of the abstract allocator.
LEMMA MallocAllocates ==
  ASSUME NEW B, NEW sz, NEW F, Good(heap, live, B, sz, F), Mallocs(B, sz, F)
  PROVE  Abstract!Next
<1>1. PICK bytes \in Requests, b \in F :
        LET n == [block |-> b, bytes |-> bytes] IN
        /\ n \notin live /\ n # TheLock
        /\ live' = live \union {n}
        /\ \E C, tz, G : /\ Good(heap', live', C, tz, G)
                         /\ Keeps(heap, sz, heap', tz, B \ F)
  BY DEF Mallocs
<1> DEFINE m == [block |-> b, bytes |-> bytes]
<1>2. m.bytes \in Requests
  OBVIOUS
<1>3. PICK C, tz, G : Good(heap', live', C, tz, G) /\ Keeps(heap, sz, heap', tz, B \ F)
  BY <1>1
<1>4. live' = live \union {m} /\ m \notin live /\ m # TheLock
  BY <1>1
<1> HIDE DEF m
<1> DEFINE r == RegionOf(tz, m)
           R == Regions(live, sz)
<1>5. \A n \in live : RegionOf(tz, n) = RegionOf(sz, n)
  <2>1. \A n \in live : n.block \in B \ F
    BY OwnedBlocks
  <2> QED
    BY <1>3, <2>1 DEF Keeps, RegionOf
<1>6. Regions(live', tz) = R \union {r}
  BY <1>4, <1>5 DEF Regions
<1>7. /\ m.block \in Nat /\ tz[m.block] \in Nat /\ m.block + tz[m.block] <= Len - 2
      /\ AskedWords(m.bytes) \in Nat /\ AskedWords(m.bytes) + 2 <= tz[m.block]
  <2>1. m \in live'
    BY <1>4
  <2> QED
    BY <1>3, <2>1, OwnedBlocks
<1>8. /\ r.first = m.block + 1 /\ r.last = m.block + tz[m.block] - 2
      /\ r.asked = AskedWords(m.bytes)
      /\ r = [first |-> r.first, last |-> r.last, asked |-> r.asked]
  BY DEF RegionOf
<1> HIDE DEF r
<1>9. r.last >= r.first + r.asked - 1 /\ r.first \in 0 .. Len - 1 /\ r.last \in 0 .. Len - 1
  <2> DEFINE first == m.block
             size == tz[m.block]
             asked == AskedWords(m.bytes)
  <2>1. /\ first \in Nat /\ size \in Nat /\ asked \in Nat
        /\ first + size <= Len - 2 /\ asked + 2 <= size /\ Len \in Nat
    BY <1>7, LenType
  <2> HIDE DEF first, size, asked
  <2>2. /\ first + size - 2 >= (first + 1) + asked - 1
        /\ first + 1 \in 0 .. Len - 1 /\ first + size - 2 \in 0 .. Len - 1
    BY <2>1
  <2> QED
    BY <1>8, <2>2 DEF first, size, asked
<1>10. r \in [first : 0 .. Len - 1, last : 0 .. Len - 1,
              asked : {AskedWords(d) : d \in Requests}]
  BY <1>2, <1>8, <1>9
<1>11. \A q \in R : (q.first .. q.last) \intersect (r.first .. r.last) = {}
  <2> SUFFICES ASSUME NEW n \in live
               PROVE  LET q == RegionOf(sz, n)
                      IN  (q.first .. q.last) \intersect (r.first .. r.last) = {}
    BY DEF Regions
  <2>1. n \in live' /\ m \in live' /\ m # n
    BY <1>4
  <2>2. (n.block + 1 .. n.block + tz[n.block] - 2)
           \intersect (m.block + 1 .. m.block + tz[m.block] - 2) = {}
    BY <1>3, <2>1, RegionsApart
  <2>3. RegionOf(sz, n).first = n.block + 1 /\ RegionOf(sz, n).last = n.block + tz[n.block] - 2
    <3>1. RegionOf(tz, n) = RegionOf(sz, n)
      BY <1>5
    <3>2. RegionOf(tz, n).first = n.block + 1 /\ RegionOf(tz, n).last = n.block + tz[n.block] - 2
      BY DEF RegionOf
    <3> QED
      BY <3>1, <3>2
  <2> QED
    BY <1>8, <2>2, <2>3
<1> HIDE DEF R
<1>12. {Region(n) : n \in live \ {TheLock}} = R
  BY RegionsAre DEF R
<1>13. {Region(n) : n \in live \ {TheLock}}' = R \union {r}
  BY <1>3, <1>6, RegionsAreNext
<1>14. Abstract!Allocate
  BY <1>9, <1>10, <1>11, <1>12, <1>13 DEF Abstract!Allocate, Abstract!Region, Abstract!Words
<1> QED
  BY <1>14 DEF Abstract!Next

\* free is a Release of the abstract allocator.
LEMMA FreeReleases ==
  ASSUME NEW B, NEW sz, NEW F, Good(heap, live, B, sz, F), Frees(B, sz, F)
  PROVE  Abstract!Next
<1>0. PICK m \in live :
        /\ m # TheLock /\ live' = live \ {m}
        /\ \E C, tz, G : /\ Good(heap', live', C, tz, G)
                         /\ Keeps(heap, sz, heap', tz, (B \ F) \ {m.block})
  BY DEF Frees
<1>1. PICK C, tz, G :
        /\ m # TheLock /\ live' = live \ {m} /\ Good(heap', live', C, tz, G)
        /\ Keeps(heap, sz, heap', tz, (B \ F) \ {m.block})
  BY <1>0
<1> DEFINE r == RegionOf(sz, m)
           R == Regions(live, sz)
<1>2. \A n \in live : n # m => n.block # m.block /\ n.block \in B \ F /\ n.block \in Nat
                                /\ m.block \in Nat
  BY OwnedBlocks DEF Good, OwnedBy
<1>3. \A n \in live : n # m => RegionOf(tz, n) = RegionOf(sz, n)
  BY <1>1, <1>2 DEF Keeps, RegionOf
<1>4. \A n \in live : n # m => RegionOf(sz, n) # r
  <2>1. \A n \in live : RegionOf(sz, n).first = n.block + 1 /\ r.first = m.block + 1
    BY DEF RegionOf
  <2> QED
    BY <1>2, <2>1
<1>5. Regions(live', tz) = R \ {r}
  BY <1>1, <1>3, <1>4 DEF Regions
<1>6. r \in R
  BY <1>1 DEF Regions
<1> HIDE DEF r, R
<1>7. {Region(n) : n \in live \ {TheLock}} = R
  BY RegionsAre DEF R
<1>8. {Region(n) : n \in live \ {TheLock}}' = R \ {r}
  BY <1>1, <1>5, RegionsAreNext
<1>9. Abstract!Release
  BY <1>6, <1>7, <1>8 DEF Abstract!Release
<1> QED
  BY <1>9 DEF Abstract!Next

\* Seen from its clients, the heap is an allocator: it hands out regions that
\* are large enough and overlap no other in use, and takes them back
\* (heap.cpp:142-233).
THEOREM HeapIsAnAllocator == HeaderSpec => ImplementsAllocator
<1> DEFINE R == {Region(m) : m \in live \ {TheLock}}
<1>1. Init => Abstract!Init
  BY DEF Init, TheLock, Abstract!Init
<1>2. HeapInv /\ [HeaderNext]_vars => [Abstract!Next]_R
  <2> SUFFICES ASSUME HeapInv, [HeaderNext]_vars PROVE Abstract!Next \/ R' = R
    OBVIOUS
  <2>1. PICK B, sz, F : Good(heap, live, B, sz, F)
    BY DEF HeapInv
  <2>2. Quiet \/ Writes(B, sz, F) \/ Mallocs(B, sz, F) \/ Frees(B, sz, F)
    BY <2>1, StepGood
  <2>3. CASE Quiet
    <3>1. Good(heap', live', B, sz, F) /\ live' = live
      BY <2>1, <2>3 DEF Quiet
    <3> QED
      BY <2>1, <3>1, RegionsAre, RegionsAreNext
  <2>4. CASE Writes(B, sz, F)
    <3>1. Good(heap', live', B, sz, F) /\ live' = live
      BY <2>4 DEF Writes
    <3> QED
      BY <2>1, <3>1, RegionsAre, RegionsAreNext
  <2> QED
    BY <2>1, <2>2, <2>3, <2>4, MallocAllocates, FreeReleases
<1> QED
  BY <1>1, <1>2, HeapInvariant, PTL DEF HeaderSpec, ImplementsAllocator, Abstract!Spec
=============================================================================
