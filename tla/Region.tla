------------------------------- MODULE Region -------------------------------
(***************************************************************************)
(* A region (rtems/src/region.c), with threads that wait for segments, and *)
(* malloc (lib/libc/malloc.c), which takes its memory from a region that   *)
(* it extends.                                                             *)
(*                                                                         *)
(* Directives run with dispatching disabled; the clock tick still comes    *)
(* and times waits out.  The wait queue is what ThreadQueue shows a thread *)
(* queue to be.                                                            *)
(***************************************************************************)
EXTENDS Heap, FiniteSets, FiniteSetsExt

CONSTANTS
  Threads,
  Disciplines, \* those a region may have: "FIFO", "PRIORITY"
  Sizes,       \* of the segments that are asked for
  Start,       \* starting_address of the region
  Length,      \* its length when it is created
  SbrkAmount,  \* RTEMS_Malloc_Sbrk_amount
  Nobody

ASSUME RegionAssumption ==
  /\ Sizes \subseteq Nat \ {0}
  /\ Start \in Nat \ {0}
  /\ Length >= HEAP_OVERHEAD + BlockWords
  /\ SbrkAmount \in Nat
  /\ Nobody \notin Threads

VARIABLES
  discipline,            \* attribute_set: RTEMS_PRIORITY or RTEMS_FIFO
  open,                  \* does the region exist?
  heap,                  \* Region_Control.Memory
  maximum_segment_size,
  number_of_used_blocks,
  queue,                 \* Wait_queue, in the order of service
  count,                 \* Thread_Control.Wait.count: what a thread waits for
  segment,               \* what Wait.return_argument points to
  status,                \* "ready" in its own code; "waiting"; Wait.return_code
  serving,               \* rtems_region_return_segment: where it is, for whom
  held,                  \* history: the segments that threads were given
  libc,                  \* of each thread: where it is in malloc or realloc
  brk                    \* the end of the memory that sbrk gave

regionVars == <<discipline, open, heap, maximum_segment_size,
                number_of_used_blocks, queue, count, segment, status, serving>>
mallocVars == <<libc, brk>>
vars == <<regionVars, held, mallocVars>>

Idle == [at |-> "idle", thread |-> Nobody]
Outside == [at |-> "out", size |-> 0, chunk |-> NULL, old |-> NULL]

\* rtems_region_create, or RTEMS_Malloc_Initialize
Init ==
  /\ discipline \in Disciplines
  /\ open = TRUE
  /\ heap = Initialize(Start, Length)
  /\ maximum_segment_size = MaximumSegment(Length)
  /\ number_of_used_blocks = 0
  /\ queue = << >>
  /\ count = [t \in Threads |-> 0]
  /\ segment = [t \in Threads |-> NULL]
  /\ status = [t \in Threads |-> "ready"]
  /\ serving = Idle
  /\ held = {}
  /\ libc = [t \in Threads |-> Outside]
  /\ brk = Start + Length

\* The segments nobody is about to free.
Returnable == {s \in held : \A t \in Threads : libc[t].old # s.ptr}

\* A thread that can make a call: no other is in a directive.
Runs(t) == serving = Idle /\ status[t] = "ready"
Calls(t) == Runs(t) /\ libc[t] = Outside

-----------------------------------------------------------------------------
\* rtems_region_get_segment: RTEMS_INVALID_SIZE, ...
TooLong(size) == size > maximum_segment_size

\* ... a segment, ...
Get(t, size) ==
  LET found == Allocate(heap, size)
  IN /\ found.ptr # NULL
     /\ heap' = found.heap
     /\ number_of_used_blocks' = number_of_used_blocks + 1
     /\ held' = held \cup {[ptr |-> found.ptr, size |-> size]}

\* ... or a place in the queue; RTEMS_UNSATISFIED without the wait option.
Unsatisfied(size) == TooLong(size) \/ Allocate(heap, size).ptr = NULL
\* The place is the last one, or that of the thread's priority.
Places == IF discipline = "FIFO" THEN {Len(queue) + 1} ELSE 1 .. Len(queue) + 1

GetSegment(t, size) ==
  /\ Calls(t) /\ open /\ ~TooLong(size)
  /\ \/ /\ Get(t, size)
        /\ UNCHANGED <<queue, count, segment, status>>
     \/ /\ Unsatisfied(size)
        /\ \E place \in Places : queue' = InsertAt(queue, place, t)
        /\ count' = [count EXCEPT ![t] = size]
        /\ segment' = [segment EXCEPT ![t] = NULL]
        /\ status' = [status EXCEPT ![t] = "waiting"]
        /\ UNCHANGED <<heap, number_of_used_blocks, held>>
  /\ UNCHANGED <<discipline, open, maximum_segment_size, serving, mallocVars>>

\* The time-out of a wait, at any time.
Timeout(t) ==
  /\ t \in ToSet(queue)
  /\ queue' = Remove(queue, t)
  /\ status' = [status EXCEPT ![t] = "RTEMS_TIMEOUT"]
  /\ UNCHANGED <<discipline, open, heap, maximum_segment_size,
                 number_of_used_blocks, count, segment, serving, held, mallocVars>>

\* The directive of a thread that waited returns.
GetReturns(t) ==
  /\ serving = Idle /\ status[t] \in {"RTEMS_TIMEOUT", "RTEMS_SUCCESSFUL"}
  /\ status' = [status EXCEPT ![t] = "ready"]
  /\ held' = IF status[t] = "RTEMS_SUCCESSFUL"
             THEN held \cup {[ptr |-> segment[t], size |-> count[t]]} ELSE held
  /\ count' = [count EXCEPT ![t] = 0]
  /\ segment' = [segment EXCEPT ![t] = NULL]
  /\ UNCHANGED <<discipline, open, heap, maximum_segment_size,
                 number_of_used_blocks, queue, serving, mallocVars>>

-----------------------------------------------------------------------------
\* rtems_region_return_segment: the segment is freed, ...
Return(s) ==
  /\ Freeable(heap, s.ptr)
  /\ heap' = Free(heap, s.ptr)
  /\ number_of_used_blocks' = number_of_used_blocks - 1
  /\ serving' = [at |-> "first", thread |-> Nobody]

ReturnSegment(t, s) ==
  /\ Calls(t) /\ open
  /\ Return(s)
  /\ held' = held \ {s}
  /\ UNCHANGED <<discipline, open, maximum_segment_size, queue, count, segment,
                 status, mallocVars>>

\* ... and as long as the first of the queue (_Thread_queue_First) ...
First ==
  /\ serving.at = "first"
  /\ serving' = IF queue = << >> THEN Idle
                ELSE [at |-> "allocate", thread |-> Head(queue)]
  /\ UNCHANGED <<discipline, open, heap, maximum_segment_size,
                 number_of_used_blocks, queue, count, segment, status, held,
                 mallocVars>>

\* ... can have what it waits for ...
ServeFirst ==
  /\ serving.at = "allocate"
  /\ LET found == Allocate(heap, count[serving.thread])
     IN \/ /\ found.ptr = NULL
           /\ serving' = Idle
           /\ UNCHANGED <<heap, number_of_used_blocks, segment>>
        \/ /\ found.ptr # NULL
           /\ heap' = found.heap
           /\ segment' = [segment EXCEPT ![serving.thread] = found.ptr]
           /\ number_of_used_blocks' = number_of_used_blocks + 1
           /\ serving' = [serving EXCEPT !.at = "extract"]
  /\ UNCHANGED <<discipline, open, maximum_segment_size, queue, count, status,
                 held, mallocVars>>

\* ... it is taken off the queue (_Thread_queue_Extract), if it is still there,
\* and told.
ToldIfWaiting(t) == IF t \in ToSet(queue) THEN "RTEMS_SUCCESSFUL" ELSE status[t]
Told(t) == "RTEMS_SUCCESSFUL"
Extract ==
  /\ serving.at = "extract"
  /\ queue' = Remove(queue, serving.thread)
  /\ status' = [status EXCEPT ![serving.thread] = Told(serving.thread)]
  /\ serving' = [at |-> "first", thread |-> Nobody]
  /\ UNCHANGED <<discipline, open, heap, maximum_segment_size,
                 number_of_used_blocks, count, segment, held, mallocVars>>

-----------------------------------------------------------------------------
\* rtems_region_extend with memory at the given address; RTEMS_INVALID_ADDRESS
\* or RTEMS_NOT_IMPLEMENTED if it does not follow the region.
ExtendBy(address, size) ==
  /\ Extendable(heap, address)
  /\ heap' = Extend(heap, size)
  /\ maximum_segment_size' = maximum_segment_size + size

\* rtems_region_delete; RTEMS_RESOURCE_IN_USE if not.  Users of malloc never do.
InUse == number_of_used_blocks # 0
Delete(t) ==
  /\ Calls(t) /\ open /\ ~InUse
  /\ \A u \in Threads : libc[u] = Outside
  /\ open' = FALSE
  /\ UNCHANGED <<discipline, heap, maximum_segment_size, number_of_used_blocks,
                 queue, count, segment, status, serving, held, mallocVars>>

\* rtems_region_create again
Create(t) ==
  /\ Calls(t) /\ ~open
  /\ queue = << >>
  /\ open' = TRUE
  /\ heap' = Initialize(Start, Length)
  /\ maximum_segment_size' = MaximumSegment(Length)
  /\ number_of_used_blocks' = 0
  /\ brk' = Start + Length
  /\ UNCHANGED <<discipline, queue, count, segment, status, serving, held, libc>>

-----------------------------------------------------------------------------
\* malloc, or realloc of the segment at old: rtems_region_get_segment with
\* RTEMS_NO_WAIT.
Malloc(t, size, old) ==
  /\ Calls(t) /\ open
  /\ \/ /\ ~TooLong(size) /\ Get(t, size)
        /\ libc' = [libc EXCEPT ![t] =
             IF old = NULL THEN Outside ELSE [Outside EXCEPT !.at = "free", !.old = old]]
     \/ /\ Unsatisfied(size)
        /\ libc' = [libc EXCEPT ![t] =
             [at |-> IF SbrkAmount = 0 THEN "free" ELSE "sbrk", size |-> size,
              chunk |-> NULL, old |-> old]]
        /\ UNCHANGED <<heap, number_of_used_blocks, held>>
  /\ UNCHANGED <<discipline, open, maximum_segment_size, queue, count, segment,
                 status, serving, brk>>

\* ... more memory from the system: as many times sbrk_amount as it takes, or
\* none.
Amount(size) == ((size + SbrkAmount) \div SbrkAmount) * SbrkAmount
Sbrk(t) ==
  /\ Runs(t) /\ libc[t].at = "sbrk"
  /\ \/ /\ brk + Amount(libc[t].size) <= LastAddress
        /\ brk' = brk + Amount(libc[t].size)
        /\ libc' = [libc EXCEPT ![t].at = "extend", ![t].chunk = brk]
     \/ /\ brk + Amount(libc[t].size) > LastAddress
        /\ libc' = [libc EXCEPT ![t].at = "free"]
        /\ UNCHANGED brk
  /\ UNCHANGED <<regionVars, held>>

\* ... rtems_region_extend
MallocExtend(t) ==
  /\ Runs(t) /\ libc[t].at = "extend"
  /\ \/ /\ ExtendBy(libc[t].chunk, Amount(libc[t].size))
        /\ libc' = [libc EXCEPT ![t].at = "again", ![t].chunk = NULL]
     \/ /\ ~Extendable(heap, libc[t].chunk)
        /\ libc' = [libc EXCEPT ![t].at = "shrink"]
        /\ UNCHANGED <<heap, maximum_segment_size>>
  /\ UNCHANGED <<discipline, open, number_of_used_blocks, queue, count, segment,
                 status, serving, held, brk>>

\* ... sbrk( -the_size ) if it was not to be had
KeepMemory(t) == brk
GiveBack(t) == brk - Amount(libc[t].size)
Shrink(t) ==
  /\ Runs(t) /\ libc[t].at = "shrink"
  /\ brk' = GiveBack(t)
  /\ libc' = [libc EXCEPT ![t].at = "free", ![t].chunk = NULL]
  /\ UNCHANGED <<regionVars, held>>

\* ... and once more
MallocAgain(t) ==
  /\ Runs(t) /\ libc[t].at = "again"
  /\ \/ ~TooLong(libc[t].size) /\ Get(t, libc[t].size)
     \/ Unsatisfied(libc[t].size) /\ UNCHANGED <<heap, number_of_used_blocks, held>>
  /\ libc' = [libc EXCEPT ![t].at = "free"]
  /\ UNCHANGED <<discipline, open, maximum_segment_size, queue, count, segment,
                 status, serving, brk>>

\* realloc frees the old segment, whether there is a new one or not.
ReallocFree(t) ==
  /\ Runs(t) /\ libc[t].at = "free"
  /\ libc' = [libc EXCEPT ![t] = Outside]
  /\ \/ /\ libc[t].old = NULL
        /\ UNCHANGED <<regionVars, held>>
     \/ \E s \in held :
          /\ s.ptr = libc[t].old
          /\ Return(s)
          /\ held' = held \ {s}
          /\ UNCHANGED <<discipline, open, maximum_segment_size, queue, count,
                         segment, status>>
  /\ UNCHANGED brk

-----------------------------------------------------------------------------
MallocStep(t) ==
  \/ Sbrk(t) \/ MallocExtend(t) \/ Shrink(t) \/ MallocAgain(t) \/ ReallocFree(t)

Next ==
  \/ First \/ ServeFirst \/ Extract
  \/ \E t \in Threads :
       \/ MallocStep(t) \/ GetReturns(t) \/ Timeout(t) \/ Delete(t) \/ Create(t)
       \/ \E size \in Sizes : GetSegment(t, size)
       \/ \E s \in Returnable : ReturnSegment(t, s)
       \/ \E size \in Sizes, old \in {s.ptr : s \in Returnable} \cup {NULL} :
            Malloc(t, size, old)

Spec == Init /\ [][Next]_vars

-----------------------------------------------------------------------------
\* The segments in use: those that callers have, and those of threads that have
\* been served and not yet told so.
Served == {t \in Threads : status[t] = "RTEMS_SUCCESSFUL" \/
                           (serving.at = "extract" /\ serving.thread = t)}
InHands == held \cup
           {[ptr |-> segment[t], size |-> count[t]] : t \in Served}

\* The heap is sound, and what it takes for used are the segments in use: each
\* lies in a block of its own, on a page boundary.  No segment is lost when a
\* wait times out while it is being served, and none is given twice.
SegmentsExact ==
  /\ Sound(heap)
  /\ number_of_used_blocks = Cardinality(InHands)
  /\ {b \in ToSet(Blocks(heap)) : heap.front[b].used} =
       {UserBlockAt(heap, s.ptr) : s \in InHands} \cup {heap.final}
  /\ \A s, r \in InHands : s # r => UserBlockAt(heap, s.ptr) # UserBlockAt(heap, r.ptr)
  /\ \A s \in InHands :
       s.ptr % PageSize = 0 /\ s.ptr + s.size <= NextBlock(heap, UserBlockAt(heap, s.ptr))

\* Who waits for a segment waits for one that is in use: when all have been
\* returned nobody waits, so that rtems_region_delete, which looks only at
\* number_of_used_blocks, strands nobody.
WaitersHaveHope ==
  serving = Idle /\ queue # << >> => open /\ InUse

\* Memory beyond the heap belongs to a malloc that is about to add it or to give
\* it back: calls that race for it lose none, so that the heap can go on growing.
MemoryBeyond ==
  LET pending == {t \in Threads : libc[t].at \in {"extend", "shrink"}}
  IN open => brk = heap.final + HEAP_OVERHEAD
                   + MapThenSumSet(LAMBDA t : Amount(libc[t].size), pending)
=============================================================================
