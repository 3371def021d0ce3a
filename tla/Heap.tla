-------------------------------- MODULE Heap --------------------------------
(***************************************************************************)
(* The heap handler (score/src/heap.c): blocks with boundary tags and a    *)
(* chain of the free ones.  All its routines run with dispatching disabled *)
(* and are operators here, from a heap to a heap.                          *)
(*                                                                         *)
(* Addresses and sizes are in words of four bytes.  A heap is a record of  *)
(* its Heap_Control and of the fields of its blocks, each a function of    *)
(* the block's address; HEAD and TAIL are the dummy blocks that            *)
(* Heap_Control overlays, so that next[HEAD] is `first' and previous[TAIL] *)
(* is `last'.  A flag is a size and the HEAP_BLOCK_USED bit.               *)
(***************************************************************************)
EXTENDS Integers, Sequences, SequencesExt, Bitwise

CONSTANTS
  PageSize,     \* Heap_Control.page_size
  LastAddress   \* bound on the addresses

ASSUME HeapAssumption == PageSize \in Nat \ {0} /\ LastAddress \in Nat

HEAD == -1
TAIL == -2
NULL == 0   \* a null pointer: no segment starts there

HEAP_OVERHEAD == 2
HEAP_BLOCK_USED_OVERHEAD == 2
BlockWords == 4   \* sizeof( Heap_Block )

Flag(size) == [size |-> size, used |-> FALSE]
UsedFlag(size) == [size |-> size, used |-> TRUE]   \* _Heap_Build_flag
HEAP_DUMMY_FLAG == UsedFlag(0)

NextBlock(h, b) == b + h.front[b].size
PreviousBlock(h, b) == b - h.back[b].size
IsBlockIn(h, b) == h.start <= b /\ b <= h.final

-----------------------------------------------------------------------------
\* _Heap_Initialize, of memory whose words hold anything
Initialize(start, size) ==
  LET the_size == size - HEAP_OVERHEAD
      final == start + the_size
      blank == [a \in -2 .. LastAddress |-> NULL]
      flags == [a \in 0 .. LastAddress |-> HEAP_DUMMY_FLAG]
  IN [start |-> start, final |-> final,
      back |-> [flags EXCEPT ![final] = Flag(the_size)],
      front |-> [flags EXCEPT ![start] = Flag(the_size)],
      next |-> [blank EXCEPT ![start] = TAIL, ![HEAD] = start],
      previous |-> [blank EXCEPT ![start] = HEAD, ![TAIL] = start],
      offset |-> [a \in 0 .. LastAddress |-> 0]]

\* ... and what it returns
MaximumSegment(size) == size - HEAP_OVERHEAD - HEAP_BLOCK_USED_OVERHEAD

\* The blocks on the free chain, in the order of the search.
RECURSIVE Following(_, _, _)
Following(h, b, bound) ==
  IF b \in {TAIL, NULL} \/ bound = 0 THEN << >>
  ELSE <<b>> \o Following(h, h.next[b], bound - 1)

FreeChain(h) == Following(h, h.next[HEAD], LastAddress)

-----------------------------------------------------------------------------
\* _Heap_Allocate.  How much a request takes:
TheSize(size) ==
  LET excess == size % PageSize
      rounded == size + PageSize + HEAP_BLOCK_USED_OVERHEAD
                 + (IF excess # 0 THEN PageSize - excess ELSE 0)
  IN IF rounded < BlockWords THEN BlockWords ELSE rounded

\* ... the user area of block b begins at a multiple of the page size; how far
\* it was moved is kept in front of it.
Bump(b) == LET ptr == b + 2 IN PageSize - (ptr & (PageSize - 1))
Given(h, b) ==
  LET ptr == b + 2 + Bump(b)
  IN [heap |-> [h EXCEPT !.offset[ptr] = Bump(b)], ptr |-> ptr]

\* ... the end of block b is cut off for the user
Split(h, b, the_size) ==
  LET rest == h.front[b].size - the_size
      next_block == b + rest
  IN Given([h EXCEPT !.front[b] = Flag(rest),
                     !.back[next_block] = Flag(rest),
                     !.front[next_block] = UsedFlag(the_size),
                     !.back[next_block + the_size] = UsedFlag(the_size)], next_block)

\* ... or all of it is used
Whole(h, b) ==
  LET flag == UsedFlag(h.front[b].size)
  IN Given([h EXCEPT !.back[NextBlock(h, b)] = flag, !.front[b] = flag,
                     !.previous[h.next[b]] = h.previous[b],
                     !.next[h.previous[b]] = h.next[b]], b)

WorthSplitting(rest) == rest > PageSize + HEAP_BLOCK_USED_OVERHEAD

Allocate(h, size) ==
  LET the_size == TheSize(size)
      fit == SelectSeq(FreeChain(h), LAMBDA b : h.front[b].size >= the_size)
  IN IF fit = << >> THEN [heap |-> h, ptr |-> NULL]
     ELSE LET b == Head(fit)
          IN IF WorthSplitting(h.front[b].size - the_size)
             THEN Split(h, b, the_size) ELSE Whole(h, b)

-----------------------------------------------------------------------------
\* _Heap_User_block_at
UserBlockAt(h, ptr) == ptr - h.offset[ptr] - HEAP_BLOCK_USED_OVERHEAD

\* _Heap_Free, and _Heap_Size_of_user_area: does a used block begin here?
IsUsedBlock(h, b) ==
  /\ IsBlockIn(h, b) /\ h.front[b].used
  /\ IsBlockIn(h, NextBlock(h, b))
  /\ h.front[b] = h.back[NextBlock(h, b)]

\* ... the_block goes to its neighbours, if they are free, or on the chain
JoinBoth(h, p, b, n) ==
  LET flag == Flag(h.front[p].size + h.front[b].size + h.front[n].size)
  IN [h EXCEPT !.front[p] = flag, !.back[NextBlock(h, n)] = flag,
               !.previous[h.next[n]] = h.previous[n],
               !.next[h.previous[n]] = h.next[n]]

JoinPrevious(h, p, b, n) ==
  LET flag == Flag(h.front[p].size + h.front[b].size)
  IN [h EXCEPT !.front[p] = flag, !.back[n] = flag]

JoinNext(h, b, n) ==
  LET flag == Flag(h.front[b].size + h.front[n].size)
  IN [h EXCEPT !.front[b] = flag, !.back[NextBlock(h, n)] = flag,
               !.next[b] = h.next[n], !.previous[b] = h.previous[n],
               !.next[h.previous[n]] = b, !.previous[h.next[n]] = b]

OnChain(h, b, n) ==
  LET flag == Flag(h.front[b].size)
      first == h.next[HEAD]
  IN [h EXCEPT !.front[b] = flag, !.back[n] = flag,
               !.previous[b] = HEAD, !.next[b] = first,
               !.next[HEAD] = b, !.previous[first] = b]

PreviousStays(h, b) == FALSE
PreviousFree(h, b) == ~h.back[b].used

FreeBlock(h, b) ==
  LET n == NextBlock(h, b)
      p == PreviousBlock(h, b)
      nextFree == ~h.front[n].used
  IN IF PreviousFree(h, b)
     THEN IF nextFree THEN JoinBoth(h, p, b, n) ELSE JoinPrevious(h, p, b, n)
     ELSE IF nextFree THEN JoinNext(h, b, n) ELSE OnChain(h, b, n)

\* FALSE, and nothing happens, if no used block belongs to ptr or the free block
\* before it is not in the heap.
Freeable(h, ptr) ==
  LET b == UserBlockAt(h, ptr)
  IN IsUsedBlock(h, b) /\ (PreviousFree(h, b) => IsBlockIn(h, PreviousBlock(h, b)))
Free(h, ptr) == IF Freeable(h, ptr) THEN FreeBlock(h, UserBlockAt(h, ptr)) ELSE h

-----------------------------------------------------------------------------
\* _Heap_Extend: memory that follows the heap becomes a used block, which is
\* freed.
Extendable(h, address) == address - HEAP_OVERHEAD = h.final
Extend(h, size) ==
  LET new_final == h.final + size
      ptr == h.final + 3
  IN Free([h EXCEPT !.final = new_final,
                    !.front[h.final] = UsedFlag(size),
                    !.back[new_final] = UsedFlag(size),
                    !.front[new_final] = HEAP_DUMMY_FLAG,
                    !.offset[ptr] = 1], ptr)

-----------------------------------------------------------------------------
\* The blocks from start to final, as _Heap_Walk finds them.
RECURSIVE BlocksFrom(_, _)
BlocksFrom(h, b) ==
  IF b >= h.final \/ h.front[b].size = 0 THEN <<b>>
  ELSE <<b>> \o BlocksFrom(h, NextBlock(h, b))

Blocks(h) == BlocksFrom(h, h.start)

\* The heap is sound: the blocks lie end to end from start to final, with the
\* same flag at both ends; the free ones are on the chain, once, linked both
\* ways; and no two of them are neighbours ("Any coalescing which is possible
\* with the freeing of this routine is performed").
Sound(h) ==
  LET blocks == Blocks(h)
      chain == FreeChain(h)
      free == {b \in ToSet(blocks) : ~h.front[b].used}
      closed == <<HEAD>> \o chain \o <<TAIL>>
  IN /\ Last(blocks) = h.final
     /\ h.back[h.start] = HEAP_DUMMY_FLAG /\ h.front[h.final] = HEAP_DUMMY_FLAG
     /\ \A i \in 1 .. Len(blocks) - 1 :
          /\ h.front[blocks[i]] = h.back[blocks[i + 1]]
          /\ blocks[i] \in free => blocks[i + 1] \notin free
          /\ h.front[blocks[i]].size >= BlockWords
     /\ ToSet(chain) = free /\ IsInjective(chain)
     /\ \A i \in 1 .. Len(closed) - 1 :
          h.next[closed[i]] = closed[i + 1] /\ h.previous[closed[i + 1]] = closed[i]
=============================================================================
