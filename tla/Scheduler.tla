----------------------------- MODULE Scheduler -----------------------------
(***************************************************************************)
(* The thread handler (score/src/thread.c): ready chains, the priority bit *)
(* map, the heir, and the dispatching of the processor.                    *)
(*                                                                         *)
(* A step is code that runs with interrupts disabled.  Between two steps   *)
(* of a routine interrupts are enabled (_ISR_Flash, or _ISR_Enable and a   *)
(* later _ISR_Disable), and handlers run to completion on top of it: the   *)
(* stack holds the routines in progress, the innermost first.              *)
(***************************************************************************)
EXTENDS Integers, FiniteSets, SequencesExt

CONSTANTS
  Threads,
  Idle,            \* the idle thread
  Lowest,          \* PRIORITY_MAXIMUM, the priority of the idle thread
  GroupSize,       \* priorities to one word of _Priority_Bit_map (16 in the code)
  MaxNest,         \* bound on the routines in progress
  HandlersSuspend  \* may a handler call rtems_task_suspend?

ASSUME SchedulerAssumption ==
  /\ Idle \in Threads
  /\ Lowest \in Nat \ {0} /\ GroupSize \in Nat \ {0} /\ MaxNest \in Nat \ {0}
  /\ HandlersSuspend \in BOOLEAN

Priorities == 0 .. Lowest
\* States_Control: BLOCKED stands for any of STATES_BLOCKED.
States == {"DORMANT", "SUSPENDED", "TRANSIENT", "BLOCKED"}

VARIABLES
  current_state,    \* a set of States; STATES_READY is {}
  priority,         \* current_priority, and the ready chain it stands for
  preemptible,      \* is_preemptible
  ready,            \* _Thread_Ready_chain
  minor, major,     \* the bits set in _Priority_Bit_map, _Priority_Major_bit_map
  heir, executing,  \* _Thread_Heir, _Thread_Executing
  switch,           \* _Context_Switch_necessary
  stack             \* the routines in progress, innermost first

chains == <<ready, minor, major>>
threads == <<current_state, priority, preemptible>>
cpu == <<heir, executing, switch>>
vars == <<threads, chains, cpu, stack>>

\* A routine in progress: the next step of it, and the thread it is about.
Frames == [pc : {"cleared", "set", "rotated", "requeued", "readied",
                 "transient", "priority_set", "restarting", "reset"},
           thread : Threads, priority : Priorities, prepend : BOOLEAN]

\* Every variable has a value the code gives it.
TypeOK ==
  /\ current_state \in [Threads -> SUBSET States]
  /\ priority \in [Threads -> Priorities]
  /\ preemptible \in [Threads -> BOOLEAN]
  /\ ready \in [Priorities -> Seq(Threads)]
  /\ minor \subseteq Priorities
  /\ major \subseteq {p \div GroupSize : p \in Priorities}
  /\ heir \in Threads /\ executing \in Threads
  /\ switch \in BOOLEAN
  /\ stack \in Seq(Frames) /\ Len(stack) <= MaxNest

\* _Thread_Create_idle and _Thread_Start_multitasking; the others are created.
Init ==
  /\ current_state = [t \in Threads |-> IF t = Idle THEN {} ELSE {"DORMANT"}]
  /\ priority \in [Threads -> Priorities]
  /\ \A t \in Threads : t = Idle <=> priority[t] = Lowest
  /\ preemptible = [t \in Threads |-> TRUE]
  /\ ready = [p \in Priorities |-> IF p = Lowest THEN <<Idle>> ELSE << >>]
  /\ minor = {Lowest} /\ major = {Lowest \div GroupSize}
  /\ heir = Idle /\ executing = Idle /\ switch = FALSE
  /\ stack = << >>

-----------------------------------------------------------------------------
\* Chains and bit maps.

IsReady(t) == current_state[t] = {}
Group(p) == p \div GroupSize

\* _Priority_Add_to_bit_map, and the chain with t at one end.
AddToBitMap(p) == minor' = minor \cup {p} /\ major' = major \cup {Group(p)}
AppendReady(t, p) ==
  ready' = [ready EXCEPT ![p] = Append(@, t)] /\ AddToBitMap(p)
PrependReady(t, p) ==
  ready' = [ready EXCEPT ![p] = <<t>> \o @] /\ AddToBitMap(p)

\* _Priority_Remove_from_bit_map
MajorWithout(p, left) ==
  IF \E q \in left : Group(q) = Group(p) THEN major ELSE major \ {Group(p)}

\* Off its ready chain; the last one takes the bit with it.
Unready(t) ==
  LET p == priority[t]
  IN IF Len(ready[p]) = 1
     THEN /\ ready' = [ready EXCEPT ![p] = << >>]
          /\ minor' = minor \ {p}
          /\ major' = MajorWithout(p, minor \ {p})
     ELSE /\ ready' = [ready EXCEPT ![p] = RemoveFirst(@, t)]
          /\ UNCHANGED <<minor, major>>

Least(S) == CHOOSE x \in S : \A y \in S : x <= y
\* _Priority_Get_highest
LastOfGroup == CHOOSE p \in minor : /\ Group(p) = Least(major)
                                    /\ \A q \in minor : Group(q) = Group(p) => q <= p
GetHighest == Least({p \in minor : Group(p) = Least(major)})
\* _Thread_Calculate_heir
CalculateHeir == Head(ready[GetHighest])

Top == Head(stack)
Push(pc, t) ==
  stack' = <<[pc |-> pc, thread |-> t, priority |-> 0, prepend |-> FALSE]>> \o stack
Pop == stack' = Tail(stack)
Goto(pc) == stack' = <<[Top EXCEPT !.pc = pc]>> \o Tail(stack)
At(pc) == stack # << >> /\ Top.pc = pc

\* Thread code runs when nothing else is in progress and no switch is due: it is
\* made on the way out of the routine or handler that called for it.  A handler
\* may run at any point between two steps.
InThread == stack = << >> /\ ~switch
InHandler == Len(stack) < MaxNest

-----------------------------------------------------------------------------
\* _Thread_Clear_state: _Thread_Unblock, _Thread_Resume

ClearState(t, s) ==
  /\ InHandler
  /\ s \in current_state[t]
  /\ current_state' = [current_state EXCEPT ![t] = @ \ {s}]
  /\ IF current_state[t] = {s}
     THEN AppendReady(t, priority[t]) /\ Push("cleared", t)
     ELSE UNCHANGED <<chains, stack>>
  /\ UNCHANGED <<priority, preemptible, cpu>>

\* Does the thread on its way back become the heir?
Outranks(t) == priority[t] < priority[heir]

ClearStateEnd ==
  /\ At("cleared") /\ Pop
  /\ LET t == Top.thread
     IN IF Outranks(t)
        THEN /\ heir' = t
             /\ switch' = (switch \/ preemptible[executing] \/ priority[t] = 0)
        ELSE UNCHANGED <<heir, switch>>
  /\ UNCHANGED <<executing, threads, chains>>

\* _Thread_Set_state

SetState(t, s) ==
  /\ current_state' = [current_state EXCEPT ![t] = @ \cup {s}]
  /\ IF IsReady(t) THEN Unready(t) /\ Push("set", t) ELSE UNCHANGED <<chains, stack>>
  /\ UNCHANGED <<priority, preemptible, cpu>>

\* The executing thread blocks.
Block == InThread /\ executing # Idle /\ SetState(executing, "BLOCKED")

\* rtems_task_suspend: RTEMS_ALREADY_SUSPENDED changes nothing.
Suspend(t) ==
  /\ InThread \/ (HandlersSuspend /\ InHandler)
  /\ t # Idle /\ current_state[t] \cap {"SUSPENDED", "DORMANT"} = {}
  /\ SetState(t, "SUSPENDED")

SetStateEnd ==
  /\ At("set") /\ Pop
  /\ heir' = IF heir = Top.thread THEN CalculateHeir ELSE heir
  /\ switch' = (switch \/ executing = Top.thread)
  /\ UNCHANGED <<executing, threads, chains>>

-----------------------------------------------------------------------------
\* _Thread_Start; _Thread_Ready

MakeReady(t, p) ==
  current_state' = [current_state EXCEPT ![t] = {}] /\ AppendReady(t, p)

Start(t) ==
  /\ InThread
  /\ "DORMANT" \in current_state[t]
  /\ MakeReady(t, priority[t]) /\ Push("readied", t)
  /\ UNCHANGED <<priority, preemptible, cpu>>

\* The end of _Thread_Ready and of _Thread_Change_priority
ForgetSwitch == switch
SwitchIfPreemptible == switch \/ (executing # heir' /\ preemptible[executing])

ReadyEnd ==
  /\ At("readied") \/ At("requeued")
  /\ Pop
  /\ heir' = CalculateHeir
  /\ switch' = SwitchIfPreemptible
  /\ UNCHANGED <<executing, threads, chains>>

-----------------------------------------------------------------------------
\* _Thread_Change_priority, by rtems_task_set_priority or a mutex

SetTransient(t) ==
  /\ current_state' = [current_state EXCEPT ![t] = @ \cup {"TRANSIENT"}]
  /\ IF IsReady(t) THEN Unready(t) ELSE UNCHANGED chains

ChangePriority(t, p, prepend) ==
  /\ InThread
  /\ t # Idle
  /\ SetTransient(t)
  /\ stack' = << [pc |-> "transient", thread |-> t, priority |-> p,
                  prepend |-> prepend] >>
  /\ UNCHANGED <<priority, preemptible, cpu>>

SetPriority ==
  /\ At("transient")
  /\ priority' = [priority EXCEPT ![Top.thread] = Top.priority]
  /\ Goto("priority_set")
  /\ UNCHANGED <<current_state, preemptible, chains, cpu>>

Requeue ==
  LET t == Top.thread
  IN /\ At("priority_set")
     /\ current_state' = [current_state EXCEPT ![t] = @ \ {"TRANSIENT"}]
     /\ IF current_state[t] # {"TRANSIENT"}
        THEN Pop /\ UNCHANGED chains
        ELSE /\ IF Top.prepend THEN PrependReady(t, priority[t])
                               ELSE AppendReady(t, priority[t])
             /\ Goto("requeued")
     /\ UNCHANGED <<priority, preemptible, cpu>>

-----------------------------------------------------------------------------
\* _Thread_Restart: the thread queue it may be on is left on the way.

Restart(t, p) ==
  /\ InThread
  /\ t # Idle /\ "DORMANT" \notin current_state[t]
  /\ SetTransient(t)
  /\ preemptible' = [preemptible EXCEPT ![t] = TRUE]
  /\ stack' = << [pc |-> "restarting", thread |-> t, priority |-> p,
                  prepend |-> FALSE] >>
  /\ UNCHANGED <<priority, cpu>>

ResetPriority ==
  /\ At("restarting")
  /\ priority' = [priority EXCEPT ![Top.thread] = Top.priority]
  /\ current_state' = [current_state EXCEPT ![Top.thread] = @ \ {"BLOCKED"}]
  /\ Goto("reset")
  /\ UNCHANGED <<preemptible, chains, cpu>>

RestartReady ==
  /\ At("reset")
  /\ MakeReady(Top.thread, priority[Top.thread]) /\ Goto("readied")
  /\ UNCHANGED <<priority, preemptible, cpu>>

-----------------------------------------------------------------------------
\* _Thread_Yield_processor, _Thread_Reset_timeslice, _Thread_Tickle_timeslice

ReadyChain == ready[priority[executing]]

Rotate ==
  /\ Len(ReadyChain) # 1
  /\ ready' = [ready EXCEPT ![priority[executing]] =
       Append(RemoveFirst(@, executing), executing)]
  /\ Push("rotated", executing)
  /\ UNCHANGED <<minor, major, threads, cpu>>

RotateEnd ==
  /\ At("rotated") /\ Pop
  /\ heir' = IF heir = Top.thread THEN Head(ready[priority[Top.thread]]) ELSE heir
  /\ switch' = TRUE
  /\ UNCHANGED <<executing, threads, chains>>

\* Alone on its chain, the yielding thread gives way only to another heir.
YieldAlone ==
  /\ Len(ReadyChain) = 1 /\ heir # executing
  /\ switch' = TRUE
  /\ UNCHANGED <<heir, executing, threads, chains, stack>>

Yield == InThread /\ (Rotate \/ YieldAlone)

\* May the clock tick take the processor from the executing thread?
TicklesAnyway == preemptible[executing]
TicklesOthers == ~preemptible[executing] /\ IsReady(executing)
Tickles == preemptible[executing] /\ IsReady(executing)

\* The tick that uses up the budget.
TickleTimeslice == InHandler /\ Tickles /\ Rotate

\* rtems_task_mode, with _Thread_Evaluate_mode
Mode(b) ==
  /\ InThread
  /\ executing # Idle /\ preemptible[executing] # b
  /\ preemptible' = [preemptible EXCEPT ![executing] = b]
  /\ switch' = (~IsReady(executing) \/ (heir # executing /\ b))
  /\ UNCHANGED <<current_state, priority, heir, executing, chains, stack>>

\* _Thread_Dispatch
Dispatch ==
  /\ stack = << >> /\ switch
  /\ switch' = FALSE
  /\ executing' = heir
  /\ UNCHANGED <<heir, threads, chains, stack>>

Next ==
  \/ \E t \in Threads : \/ ClearState(t, "BLOCKED") \/ ClearState(t, "SUSPENDED")
                        \/ Suspend(t) \/ Start(t)
                        \/ \E p \in Priorities \ {Lowest} :
                             \/ Restart(t, p)
                             \/ \E prepend \in BOOLEAN : ChangePriority(t, p, prepend)
  \/ ClearStateEnd \/ Block \/ SetStateEnd \/ ReadyEnd
  \/ SetPriority \/ Requeue \/ ResetPriority \/ RestartReady
  \/ Yield \/ TickleTimeslice \/ RotateEnd
  \/ \E b \in BOOLEAN : Mode(b)
  \/ Dispatch

Spec == Init /\ [][Next]_vars

-----------------------------------------------------------------------------
\* The ready chains hold exactly the ready threads, each once and under its own
\* priority, whatever handlers do at the flashes.
ChainsExact ==
  \A p \in Priorities :
    /\ IsInjective(ready[p])
    /\ ToSet(ready[p]) = {t \in Threads : IsReady(t) /\ priority[t] = p}

\* "the highest priority ready thread in the system" (_Thread_Heir, thread.h),
\* when no routine of the handler is in progress.
HeirIsHighest ==
  stack = << >> =>
    /\ IsReady(heir)
    /\ \A t \in Threads : IsReady(t) => priority[heir] <= priority[t]

\* "Unless the current thread is not preemptibl, then this thread will be context
\* switched to when the next dispatch occurs": no preemption is missed, and no
\* thread goes on that is not ready.
NoMissedPreemption ==
  (stack = << >> /\ executing # heir) =>
    switch \/ (~preemptible[executing] /\ IsReady(executing))
=============================================================================
