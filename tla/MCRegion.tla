------------------------------ MODULE MCRegion ------------------------------
(* Instances of Region for TLC. *)
EXTENDS Region, TLC

Symmetry == Permutations(Threads)

\* Words of the heap that no routine reads before it has written them hold what
\* users left there.  What is read: the flags of the blocks, the links of those on
\* the free chain, and the offsets of the segments in use.
View ==
  LET blocks == Blocks(heap)
      chain == <<HEAD>> \o FreeChain(heap) \o <<TAIL>>
  IN <<discipline, open, heap.start, heap.final, blocks,
       [i \in DOMAIN blocks |-> <<heap.front[blocks[i]], heap.back[blocks[i]]>>],
       [i \in DOMAIN chain |-> <<chain[i], heap.next[chain[i]], heap.previous[chain[i]]>>],
       {<<s.ptr, heap.offset[s.ptr]>> : s \in InHands},
       maximum_segment_size, number_of_used_blocks, queue, count, segment, status,
       serving, held, mallocVars>>
=============================================================================
