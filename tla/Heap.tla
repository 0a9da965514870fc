-------------------------------- MODULE Heap --------------------------------
(***************************************************************************)
(* The kernel heap (heap.cpp): an array of words tiled by blocks with a    *)
(* header and a footer that hold the size, negative while the block is     *)
(* taken.  Free blocks are also a doubly linked list that starts at        *)
(* `avail'; 0 ends it, which no free block has as its index because block  *)
(* 0 is a taken sentinel.                                                  *)
(*                                                                         *)
(* The operators work on a heap h = [array, avail], one per function of    *)
(* the source and in the source's order of reads and writes.               *)
(***************************************************************************)
EXTENDS Integers, FiniteSets, FiniteSetsExt

CONSTANTS Len,         \* len: the words of the heap
          Attempts,    \* how many free blocks malloc looks at (20)
          WordBytes,   \* bytes of a word (8)
          FreeDivisor, \* what free() divides the byte offset by (4)
          SizeModulus, \* the number of values of a size_t (2^64)
          IntModulus,  \* the number of values of an int (2^32)
          Requests,    \* the sizes in bytes that clients ask for
          Payload      \* what clients write into their words

ASSUME HeapAssumption ==
  /\ Len \in Nat /\ Len >= 12
  /\ Attempts \in Nat \ {0}
  /\ WordBytes \in Nat \ {0}
  /\ FreeDivisor \in Nat \ {0}
  /\ IntModulus \in Nat /\ IntModulus % 2 = 0 /\ IntModulus >= 16
  /\ Len < IntModulus \div 2
  /\ SizeModulus \in Nat /\ SizeModulus >= WordBytes * IntModulus
  /\ Requests \subseteq 0 .. WordBytes * (IntModulus \div 2 - 3)
  /\ Payload \subseteq Int

Index == 0 .. Len - 1

Abs(x) == IF x < 0 THEN -x ELSE x

\* A word beyond the heap reads as the zero of untouched RAM, and a write
\* there changes nothing the heap reads.
Word(h, i) == IF i \in Index THEN h.array[i] ELSE 0
Write(h, i, x) ==
  IF i \in Index THEN [h EXCEPT !.array[i] = x] ELSE h

Size(h, i) == Abs(Word(h, i))
HeaderFromFooter(h, i) == i - Size(h, i) + 1
FooterFromHeader(h, i) == i + Size(h, i) - 1
IsAvail(h, i) == Word(h, i) > 0
IsTaken(h, i) == Word(h, i) < 0

\* sanity() returns its argument: `safe' is 0 and nothing sets it.
Left(h, i) == HeaderFromFooter(h, i - 1)
Right(h, i) == i + Size(h, i)
NextFree(h, i) == Word(h, i + 1)
PrevFree(h, i) == Word(h, i + 2)
SetNext(h, i, x) == Write(h, i + 1, x)
SetPrev(h, i, x) == Write(h, i + 2, x)
SetAvail(h, i) == [h EXCEPT !.avail = i]

\* Mistake: the footer's place is computed from the old header.
SetTagsLate(h, i, x) ==
  Write(Write(h, FooterFromHeader(h, i), x), i, x)

\* Header first; the footer's place is then read back from the header.
SetTags(h, i, x) ==
  LET g == Write(h, i, x) IN Write(g, FooterFromHeader(g, i), x)

MakeTaken(h, i, n) == SetTags(h, i, -n)

\* Mistake: the old head does not point back to the new one.
MakeAvailOneWay(h, i, n) ==
  LET tagged == SetTags(h, i, n)
      linked == SetPrev(SetNext(tagged, i, h.avail), i, 0)
  IN  SetAvail(linked, i)

\* The block becomes the head of the free list.
MakeAvail(h, i, n) ==
  LET tagged == SetTags(h, i, n)
      linked == SetPrev(SetNext(tagged, i, h.avail), i, 0)
      backed == IF h.avail # 0 THEN SetPrev(linked, h.avail, i) ELSE linked
  IN  SetAvail(backed, i)

\* Mistake: only a block at the head is unlinked.
RemoveHeadOnly(h, i) ==
  IF PrevFree(h, i) = 0 THEN SetAvail(h, NextFree(h, i)) ELSE h

\* Unlink a block from the free list.
Remove(h, i) ==
  LET p == PrevFree(h, i)
      n == NextFree(h, i)
      skipped == IF p = 0 THEN SetAvail(h, n) ELSE SetNext(h, p, n)
  IN  IF n # 0 THEN SetPrev(skipped, n, p) ELSE skipped

-----------------------------------------------------------------------------
(***************************************************************************)
(* malloc.                                                                 *)
(***************************************************************************)
\* Mistake: no room for the two tags.
UnitsWithoutTags(bytes) ==
  LET n == (bytes + (WordBytes - 1)) \div WordBytes
  IN  IF n < 4 THEN 4 ELSE n

\* The words a request needs, rounded up.
AskedWords(bytes) == (bytes + (WordBytes - 1)) \div WordBytes

\* A size_t assigned to an int.
Narrow(n) ==
  LET low == n % IntModulus
  IN  IF low < IntModulus \div 2 THEN low ELSE low - IntModulus

\* The words of the block for a request: rounded up in a size_t, two tags,
\* narrowed, at least 4.
Units(bytes) ==
  LET asked == ((bytes + (WordBytes - 1)) % SizeModulus) \div WordBytes
      n == Narrow(asked + 2)
  IN  IF n < 4 THEN 4 ELSE n

\* Mistake: the attempts are counted before the block is looked at.
VisitedButLast(h) ==
  LET at[k \in 1 .. Attempts] ==
        IF k = Attempts THEN 0
        ELSE IF k = 1 THEN h.avail
        ELSE LET i == at[k - 1] IN IF i = 0 THEN 0 ELSE NextFree(h, i)
  IN  at

\* The blocks the search looks at: Attempts of them at most, and 0 once the
\* list has ended.
Visited(h) ==
  LET at[k \in 1 .. Attempts] ==
        IF k = 1 THEN h.avail
        ELSE LET i == at[k - 1] IN IF i = 0 THEN 0 ELSE NextFree(h, i)
  IN  at

\* Mistake: the request is compared with the block without its tags added.
FitWithoutTags(h, units) ==
  LET at == Visited(h)
      fits == {k \in 1 .. Attempts : at[k] # 0 /\ Size(h, at[k]) + 2 >= units}
  IN  IF fits = {} THEN 0 ELSE at[Min(fits)]

\* The first of the smallest visited blocks that are large enough, or 0.
BestFit(h, units) ==
  LET at == Visited(h)
      fits == {k \in 1 .. Attempts : at[k] # 0 /\ Size(h, at[k]) >= units}
      best == {k \in fits : \A j \in fits : Size(h, at[k]) <= Size(h, at[j])}
  IN  IF fits = {} THEN 0 ELSE at[Min(best)]

\* "block is not available in malloc"
MallocPanics(h) ==
  \E k \in 1 .. Attempts : Visited(h)[k] # 0 /\ ~IsAvail(h, Visited(h)[k])

\* Take block i, found with this size, for a request of so many units, and
\* split it if what is left is large enough to be a block.
TakeSized(h, i, size, units) ==
  LET g == Remove(h, i)
  IN  IF size - units >= 4
      THEN MakeAvail(MakeTaken(g, i, units), i + units, size - units)
      ELSE MakeTaken(g, i, size)

\* Mistake: what is left of a split block is not put on the free list.
TakeAndLeak(h, i, units) ==
  LET size == Size(h, i)
      g == Remove(h, i)
  IN  IF size - units >= 4
      THEN MakeTaken(MakeTaken(g, i, units), i + units, size - units)
      ELSE MakeTaken(g, i, size)

\* The size the search has seen is still the block's.
Take(h, i, units) == TakeSized(h, i, Size(h, i), units)

-----------------------------------------------------------------------------
(***************************************************************************)
(* free.                                                                   *)
(***************************************************************************)
\* The index free() computes from the pointer &array[i + 1].
FreeIndex(i) == (WordBytes * (i + 1)) \div FreeDivisor - 1

\* Mistake: only the left neighbour is merged.
FreeBlockLeft(h, i) ==
  LET l == Left(h, i)
  IN  IF IsAvail(h, l)
      THEN MakeAvail(Remove(h, l), l, Size(h, i) + Size(h, l))
      ELSE MakeAvail(h, i, Size(h, i))

\* Free the block with header i: merge it with its free neighbours and put
\* the whole at the head of the free list.
FreeBlock(h, i) ==
  LET l == Left(h, i)
      r == Right(h, i)
      mergeLeft == IsAvail(h, l)
      h1 == IF mergeLeft THEN Remove(h, l) ELSE h
      i1 == IF mergeLeft THEN l ELSE i
      n1 == Size(h, i) + IF mergeLeft THEN Size(h1, l) ELSE 0
      mergeRight == IsAvail(h1, r)
      h2 == IF mergeRight THEN Remove(h1, r) ELSE h1
      n2 == n1 + IF mergeRight THEN Size(h2, r) ELSE 0
  IN  MakeAvail(h2, i1, n2)

-----------------------------------------------------------------------------
(***************************************************************************)
(* The heap and its clients.                                               *)
(***************************************************************************)
VARIABLES heap,      \* array and avail
          live,      \* [block, bytes] of what clients hold
          panicked   \* the message of the panic() that was reached, or "no"

vars == <<heap, live, panicked>>

\* heapInit: the two sentinels and one free block.  The words are whatever
\* RAM holds; the loader leaves zeros.
FreshHeap ==
  LET blank == [array |-> [i \in Index |-> 0], avail |-> 0]
  IN  MakeTaken(MakeAvail(MakeTaken(blank, 0, 2), 2, Len - 4), Len - 2, 2)

\* heapInit ends with `new SpinLock()', the first block, never given back.
Init ==
  /\ heap = Take(FreshHeap, BestFit(FreshHeap, Units(1)), Units(1))
  /\ live = {[block |-> 2, bytes |-> 1]}
  /\ panicked = "no"

TheLock == [block |-> 2, bytes |-> 1]

\* malloc returns nullptr.
IsNull(bytes) ==
  \/ bytes = 0
  \/ ~MallocPanics(heap) /\ BestFit(heap, Units(bytes)) = 0

Malloc(bytes) ==
  /\ panicked = "no"
  /\ ~IsNull(bytes)
  /\ IF MallocPanics(heap)
     THEN panicked' = "not available" /\ UNCHANGED <<heap, live>>
     ELSE LET b == BestFit(heap, Units(bytes)) IN
          /\ heap' = Take(heap, b, Units(bytes))
          /\ live' = live \union {[block |-> b, bytes |-> bytes]}
          /\ UNCHANGED panicked

\* operator new: malloc, and a panic for nullptr.
New(bytes) ==
  \/ Malloc(bytes)
  \/ /\ panicked = "no"
     /\ IsNull(bytes)
     /\ panicked' = "out of memory"
     /\ UNCHANGED <<heap, live>>

\* free(p) for the header index the source computes from p.
FreeAt(m, i) ==
  /\ panicked = "no"
  /\ m # TheLock
  /\ IF ~IsTaken(heap, i)
     THEN panicked' = "freeing free block" /\ UNCHANGED <<heap, live>>
     ELSE /\ heap' = FreeBlock(heap, i)
          /\ live' = live \ {m}
          /\ UNCHANGED panicked

\* A client writes to every word it asked for.
UserWords(m) ==
  m.block + 1 .. m.block + AskedWords(m.bytes)

ClientWrites(m, x) ==
  /\ panicked = "no"
  /\ heap' = [heap EXCEPT !.array =
                [i \in Index |-> IF i \in UserWords(m) THEN x ELSE @[i]]]
  /\ UNCHANGED <<live, panicked>>

\* panic() ends in a loop.
Halted == panicked # "no" /\ UNCHANGED vars

Clients ==
  \/ \E bytes \in Requests : New(bytes)
  \/ \E m \in live, x \in Payload : ClientWrites(m, x)
  \/ Halted

(***************************************************************************)
(* Spec is the program: free() divides by FreeDivisor.  HeaderSpec gives   *)
(* the rest of free() the header it means to find, to check the merging    *)
(* on its own.                                                             *)
(***************************************************************************)
\* operator delete.
Delete(m) == FreeAt(m, FreeIndex(m.block))

Next == Clients \/ \E m \in live : Delete(m)
Spec == Init /\ [][Next]_vars

HeaderNext == Clients \/ \E m \in live : FreeAt(m, m.block)
HeaderSpec == Init /\ [][HeaderNext]_vars

-----------------------------------------------------------------------------
TypeOK ==
  /\ heap.array \in [Index -> Int]
  /\ heap.avail \in Index
  /\ \A m \in live : m.block \in 2 .. Len - 6 /\ m.bytes \in Nat
  /\ panicked \in {"no", "not available", "freeing free block", "out of memory"}

\* The headers found by walking from block 0 with the sizes they hold.
Headers ==
  LET at[k \in 0 .. Len] ==
        IF k = 0 THEN 0
        ELSE LET i == at[k - 1] IN
             IF i \in Index THEN Right(heap, i) ELSE Len
  IN  {at[k] : k \in 0 .. Len} \ {Len}

Available == {i \in Headers : IsAvail(heap, i)}

\* The walk over the blocks ends exactly at the end of the array, and both
\* tags of a block agree: left() and right() of a header are headers
\* (heap.cpp:19-65, 99-113).
BlocksTileTheHeap ==
  /\ TypeOK
  /\ LET headers == Headers IN
     /\ headers \subseteq Index
     /\ Len - 2 \in headers
     /\ \A i \in headers :
          /\ Size(heap, i) >= 2
          /\ FooterFromHeader(heap, i) \in Index
          /\ Word(heap, FooterFromHeader(heap, i)) = Word(heap, i)

\* The free list holds the available blocks, each once, and its two
\* directions agree: no block is lost to malloc and none is offered twice
\* (heap.cpp:67-108).
FreeListIsExact ==
  LET free == Available
      at[k \in 1 .. Len] ==
        IF k = 1 THEN heap.avail
        ELSE LET i == at[k - 1] IN
             IF i \in free THEN NextFree(heap, i) ELSE i
      count == Cardinality(free)
  IN  /\ {at[k] : k \in 1 .. count + 1} = free \union {0}
      /\ at[count + 1] = 0
      /\ \A i \in free :
           PrevFree(heap, i) =
             IF i = heap.avail THEN 0
             ELSE CHOOSE j \in free : NextFree(heap, j) = i

\* free() merges all it can: two neighbours are never both free
\* (heap.cpp:218-232).
NeighboursAreMerged ==
  LET free == Available IN \A i \in free : Right(heap, i) \notin free

\* The taken blocks are the clients' blocks and the sentinels: nothing is
\* leaked, and no live block is on offer (heap.cpp:181-195, 211-232).
TakenIsLive ==
  {i \in Headers : ~IsAvail(heap, i)} = {m.block : m \in live} \union {0, Len - 2}

\* malloc and free find the tags they expect: neither "block is not
\* available in malloc" nor "freeing free block" is reached by clients that
\* free what they got (heap.cpp:165-167, 211-214).
NoFalsePanic == panicked \in {"no", "out of memory"}

\* malloc returns nullptr, and new panics, only when no free block is large
\* enough or the free list is longer than malloc looks
\* (heap.cpp:157-179, 244-248).
HonestOutOfMemory ==
  LET free == Available IN
  \A bytes \in Requests \ {0} :
    IsNull(bytes) =>
      \/ Cardinality(free) > Attempts
      \/ \A i \in free : Size(heap, i) < Units(bytes)

\* malloc and free never write to a word a client holds
\* (heap.cpp:75-113, 181-194).
Untouched ==
  [][\A m \in live \intersect live' :
       (live' # live) => \A i \in UserWords(m) : heap'.array[i] = heap.array[i]]_vars

Region(m) == [first |-> m.block + 1,
              last |-> FooterFromHeader(heap, m.block) - 1,
              asked |-> AskedWords(m.bytes)]

Abstract == INSTANCE Allocator WITH
  regions <- {Region(m) : m \in live \ {TheLock}},
  WordCounts <- {AskedWords(b) : b \in Requests}

\* The boundary-tag heap is an allocator of disjoint regions that are large
\* enough (heap.cpp:142-233).
ImplementsAllocator == Abstract!Spec
=============================================================================
