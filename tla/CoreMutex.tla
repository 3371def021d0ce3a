----------------------------- MODULE CoreMutex -----------------------------
(***************************************************************************)
(* Mutexes of the four disciplines (score/src/coremutex.c) shared by       *)
(* threads, with the priorities their holders inherit or are raised to.    *)
(*                                                                         *)
(* Each directive runs with dispatching disabled and is one step; the wait *)
(* queue is what ThreadQueue shows a thread queue to be, with a time-out   *)
(* that may end any wait.  Smaller numbers are more important priorities.  *)
(***************************************************************************)
EXTENDS Integers, FiniteSets, SequencesExt

CONSTANTS
  Threads, Mutexes, Priorities,
  Unruly,          \* disciplines with which threads may break the protocol
  Disciplines,     \* those a mutex may have: "FIFO", "PRIORITY", "INHERIT", "CEILING"
  Ceiling,         \* of each mutex: Attributes.priority_ceiling
  Nestable,        \* the mutexes with Attributes.allow_nesting
  InitialPriority, \* of each thread: Start.initial_priority
  CreatedLocked,   \* the mutexes that may be created CORE_MUTEX_LOCKED
  MaxDepth,        \* bound on the nesting
  Modulus,         \* unsigned counters wrap here (2^32 in the code)
  HoldAndWait,     \* may a thread wait for a mutex while it holds another?
  SetWaiting,      \* may the priority of a waiting thread be set?
  NULL

ASSUME CoreMutexAssumption ==
  /\ Priorities \subseteq Nat /\ IsFiniteSet(Mutexes)
  /\ Disciplines \subseteq {"FIFO", "PRIORITY", "INHERIT", "CEILING"}
  /\ Unruly \subseteq Disciplines
  /\ Ceiling \in [Mutexes -> Priorities]
  /\ Nestable \subseteq Mutexes
  /\ InitialPriority \in [Threads -> Priorities]
  /\ CreatedLocked \subseteq Mutexes
  /\ MaxDepth \in Nat \ {0}
  /\ Modulus \in Nat /\ Modulus > MaxDepth + 2 /\ Modulus > Cardinality(Mutexes) + 2
  /\ {HoldAndWait, SetWaiting} \subseteq BOOLEAN
  /\ NULL \notin Threads \cup Mutexes

VARIABLES
  orderly,        \* do only holders release, and is nobody restarted?
  created,        \* history: the mutexes their creator holds since their creation
  discipline,     \* CORE_mutex_Control.Attributes.discipline
  holder,         \* CORE_mutex_Control.holder; NULL if UNLOCKED
  nest_count,     \* CORE_mutex_Control.nest_count
  queue,          \* CORE_mutex_Control.Wait_queue, in the order of service
  waiting,        \* the mutex a thread waits for, or NULL
  resource_count, \* Thread_Control.resource_count
  current,        \* Thread_Control.current_priority
  real            \* Thread_Control.real_priority

vars == <<orderly, created, discipline, holder, nest_count, queue, waiting, resource_count, current, real>>

\* Every variable has a value the code gives it.
TypeOK ==
  /\ orderly \in BOOLEAN
  /\ created \subseteq Mutexes
  /\ discipline \in [Mutexes -> Disciplines]
  /\ holder \in [Mutexes -> Threads \cup {NULL}]
  /\ nest_count \in [Mutexes -> 0 .. Modulus - 1]
  /\ queue \in [Mutexes -> Seq(Threads)]
  /\ waiting \in [Threads -> Mutexes \cup {NULL}]
  /\ resource_count \in [Threads -> 0 .. Modulus - 1]
  /\ current \in [Threads -> Priorities]
  /\ real \in [Threads -> Priorities]

Held(t) == {m \in Mutexes : holder[m] = t}

\* _CORE_mutex_Initialize: UNLOCKED, or LOCKED with the creator as the holder,
\* whose priority stays what it is, whatever the ceiling
Init ==
  /\ discipline \in [Mutexes -> Disciplines]
  /\ orderly \in BOOLEAN
  /\ ~orderly => \A m \in Mutexes : discipline[m] \in Unruly
  /\ holder \in [Mutexes -> Threads \cup {NULL}]
  /\ created = {m \in Mutexes : holder[m] # NULL}
  /\ created \subseteq CreatedLocked
  /\ nest_count = [m \in Mutexes |-> IF holder[m] = NULL THEN 0 ELSE 1]
  /\ queue = [m \in Mutexes |-> << >>]
  /\ waiting = [t \in Threads |-> NULL]
  /\ resource_count = [t \in Threads |-> Cardinality(Held(t))]
  /\ real = InitialPriority
  /\ current = InitialPriority

Runs(t) == waiting[t] = NULL
Locked(m) == holder[m] # NULL
Succ(n) == (n + 1) % Modulus
Pred(n) == (n + Modulus - 1) % Modulus
\* The most important of two priorities.
Raised(p, q) == IF p < q THEN p ELSE q
\* The priority p at the ceiling of m.
NotRaised(p, m) == p
AtCeiling(p, m) == IF discipline[m] = "CEILING" THEN Raised(p, Ceiling[m]) ELSE p
\* A wait queue without t.
NotExtracted(q, t) == q
Extracted(q, t) == RemoveFirst(q, t)

-----------------------------------------------------------------------------
\* _CORE_mutex_Seize

\* CORE_MUTEX_STATUS_CEILING_VIOLATED if not
CeilingOK(t, m) == discipline[m] = "CEILING" => current[t] >= Ceiling[m]

Lock(t, m) ==
  /\ ~Locked(m)
  /\ holder' = [holder EXCEPT ![m] = t]
  /\ nest_count' = [nest_count EXCEPT ![m] = 1]
  /\ resource_count' = [resource_count EXCEPT ![t] = Succ(@)]
  /\ current' = [current EXCEPT ![t] = AtCeiling(@, m)]
  /\ UNCHANGED <<orderly, created, discipline, queue, waiting, real>>

\* The holder again; CORE_MUTEX_STATUS_NESTING_NOT_ALLOWED changes nothing.
Nest(t, m) ==
  /\ holder[m] = t /\ m \in Nestable /\ nest_count[m] < MaxDepth
  /\ nest_count' = [nest_count EXCEPT ![m] = @ + 1]
  /\ UNCHANGED <<orderly, created, discipline, holder, queue, waiting, resource_count, current, real>>

\* The wait queue of m with t on it: at the end, or where the forward search of
\* a header stops.
StaysAhead(x, t) == current[x] <= current[t]
Enqueued(m, t) ==
  LET behind == {i \in DOMAIN queue[m] : ~StaysAhead(queue[m][i], t)}
      at == IF discipline[m] = "FIFO" \/ behind = {} THEN Len(queue[m]) + 1
            ELSE CHOOSE i \in behind : \A j \in behind : i <= j
  IN InsertAt(queue[m], at, t)

\* What the priority of the holder becomes when t waits.
NoInheritance(m, t) == current[holder[m]]
Inherited(m, t) ==
  IF discipline[m] = "INHERIT" THEN Raised(current[holder[m]], current[t])
                               ELSE current[holder[m]]

\* UNSATISFIED_NOWAIT changes nothing; or the thread waits.  Its own priority is
\* raised to the ceiling at once: the test of the return_code follows the
\* enqueueing, not the wait.
Wait(t, m) ==
  /\ holder[m] \notin {NULL, t}
  /\ HoldAndWait \/ Held(t) = {}
  /\ queue' = [queue EXCEPT ![m] = Enqueued(m, t)]
  /\ waiting' = [waiting EXCEPT ![t] = m]
  /\ current' = [current EXCEPT
       ![holder[m]] = Inherited(m, t),
       ![t] = AtCeiling(@, m)]
  /\ UNCHANGED <<orderly, created, discipline, holder, nest_count, resource_count, real>>

Seize(t, m) == Runs(t) /\ CeilingOK(t, m) /\ (Lock(t, m) \/ Nest(t, m) \/ Wait(t, m))

\* _Thread_queue_Timeout: no return to the mutex code, which is long past.
Timeout(t) ==
  /\ waiting[t] # NULL
  /\ queue' = [queue EXCEPT ![waiting[t]] = Extracted(@, t)]
  /\ waiting' = [waiting EXCEPT ![t] = NULL]
  /\ UNCHANGED <<orderly, created, discipline, holder, nest_count, resource_count, current, real>>

-----------------------------------------------------------------------------
\* _CORE_mutex_Surrender by the running thread t.

\* CORE_MUTEX_STATUS_NOT_OWNER_OF_RESOURCE if not
MayRelease(t, m) ==
  \/ holder[m] = t
  \/ ~orderly /\ discipline[m] \in {"FIFO", "PRIORITY"}

\* The nesting goes down by one and is not at an end; so it is too for a mutex
\* that is not locked, whose count wraps (at most twice here).
SurrenderNested(t, m) ==
  /\ Pred(nest_count[m]) # 0
  /\ Locked(m) \/ Pred(nest_count[m]) >= Modulus - 2
  /\ nest_count' = [nest_count EXCEPT ![m] = Pred(@)]
  /\ UNCHANGED <<orderly, created, discipline, holder, queue, waiting, resource_count, current, real>>

\* The resource_counts once t has released: those of t, whoever held the mutex.
Released(t) == [resource_count EXCEPT ![t] = Pred(@)]

\* Is a raised priority of t lowered when it releases m?
NeverLowered(t, m) == FALSE
Lowered(t, m) ==
  discipline[m] \in {"CEILING", "INHERIT"} /\ Released(t)[t] = 0

\* The resource_counts once the mutex was handed on to t.
Counted(counts, t) == [counts EXCEPT ![t] = Succ(@)]

HandOn(t, m) ==
  LET the_thread == Head(queue[m])
  IN /\ queue[m] # << >>
     /\ queue' = [queue EXCEPT ![m] = Tail(@)]
     /\ waiting' = [waiting EXCEPT ![the_thread] = NULL]
     /\ holder' = [holder EXCEPT ![m] = the_thread]
     /\ resource_count' = Counted(Released(t), the_thread)
     /\ nest_count' = [nest_count EXCEPT ![m] = 1]

Unlock(t, m) ==
  /\ queue[m] = << >>
  /\ holder' = [holder EXCEPT ![m] = NULL]
  /\ nest_count' = [nest_count EXCEPT ![m] = 0]
  /\ resource_count' = Released(t)
  /\ UNCHANGED <<queue, waiting>>

SurrenderLast(t, m) ==
  /\ Pred(nest_count[m]) = 0
  /\ current' = [current EXCEPT ![t] = IF Lowered(t, m) THEN real[t] ELSE @]
  /\ HandOn(t, m) \/ Unlock(t, m)
  /\ created' = created \ {m}
  /\ UNCHANGED <<orderly, discipline, real>>

Surrender(t, m) ==
  Runs(t) /\ MayRelease(t, m) /\ (SurrenderNested(t, m) \/ SurrenderLast(t, m))

\* rtems_task_set_priority of t, by any running thread
SetPriority(t, p) ==
  /\ SetWaiting \/ Runs(t)
  /\ real' = [real EXCEPT ![t] = p]
  /\ current' = [current EXCEPT ![t] =
       IF resource_count[t] = 0 \/ @ > p THEN p ELSE @]
  /\ UNCHANGED <<orderly, created, discipline, holder, nest_count, queue, waiting, resource_count>>

\* _Thread_Restart: what t holds it goes on holding; real_priority is reset only
\* if current_priority is.
Restart(t) ==
  /\ ~orderly
  /\ resource_count' = [resource_count EXCEPT ![t] = 0]
  /\ queue' = [m \in Mutexes |-> Extracted(queue[m], t)]
  /\ waiting' = [waiting EXCEPT ![t] = NULL]
  /\ current' = [current EXCEPT ![t] = InitialPriority[t]]
  /\ real' = [real EXCEPT ![t] =
       IF current[t] # InitialPriority[t] THEN InitialPriority[t] ELSE @]
  /\ UNCHANGED <<orderly, created, discipline, holder, nest_count>>

Next ==
  \/ \E t \in Threads, m \in Mutexes : Seize(t, m) \/ Surrender(t, m)
  \/ \E t \in Threads : Timeout(t) \/ Restart(t)
  \/ \E t \in Threads, p \in Priorities : SetPriority(t, p)

Spec == Init /\ [][Next]_vars

-----------------------------------------------------------------------------
\* A mutex nobody holds has nobody waiting (so that deleting it, which is refused
\* while it is locked, strands nobody), and each waiting thread is on the queue
\* of the mutex it waits for, once, and on no other.
NoIdleMutex ==
  \A m \in Mutexes :
    /\ ~Locked(m) => queue[m] = << >>
    /\ ToSet(queue[m]) = {t \in Threads : waiting[t] = m}
    /\ IsInjective(queue[m])

\* Priority inheritance does what it is for: the holder of a mutex is never less
\* important than a thread that waits for it.
HolderInherits ==
  \A m \in Mutexes : orderly /\ discipline[m] = "INHERIT" =>
    \A t \in Threads : waiting[t] = m => current[holder[m]] <= current[t]

\* Whoever came to hold a ceiling mutex by seizing it, at once or after a wait,
\* runs at its ceiling or above until it lets go of it.  The thread that created
\* it LOCKED does not: _CORE_mutex_Initialize makes it the holder and leaves its
\* priority alone.
HolderAtCeiling ==
  \A m \in Mutexes \ created :
    orderly /\ discipline[m] = "CEILING" /\ holder[m] # NULL =>
      current[holder[m]] <= Ceiling[m]

\* "an inherited priority must be lowered if this is the last mutex (i.e.
\* resource) this task has" (_CORE_mutex_Surrender): so it is where every mutex
\* is of the inheritance discipline.
InheritanceEnds ==
  orderly /\ (\A m \in Mutexes : discipline[m] = "INHERIT") =>
    \A t \in Threads : Runs(t) /\ Held(t) = {} => current[t] = real[t]
=============================================================================
