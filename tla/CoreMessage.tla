---------------------------- MODULE CoreMessage ----------------------------
(***************************************************************************)
(* The message queue of the SuperCore (score/src/coremsg.c), as used by    *)
(* the message queue directives (rtems/src/msg.c), on its thread queue.    *)
(*                                                                         *)
(* A message is its size in bytes.  Its buffers are all alike: Inactive is *)
(* how many are on the Inactive_messages chain.                            *)
(***************************************************************************)
EXTENDS ThreadQueue

CONSTANTS
  Messages,          \* the messages that are sent
  MaximumPending,    \* maximum_pending_messages
  MaximumSize,       \* maximum_message_size
  AtomicIncrement    \* is "number_of_pending_messages += 1" one instruction?

ASSUME CoreMessageAssumption ==
  /\ Messages \subseteq Nat \ {0}
  /\ MaximumPending \in Nat \ {0} /\ MaximumSize \in Nat \ {0}
  /\ AtomicIncrement \in BOOLEAN
  /\ Ops = {"send", "urgent", "broadcast", "flush", "receive"}

VARIABLES
  open,       \* does the queue exist?
  number,     \* number_of_pending_messages
  Pending,    \* Pending_messages
  Inactive,   \* the length of Inactive_messages
  message,    \* of each level: the message its call is about
  got,        \* of each thread: bytes put in its buffer, size it was told
  receives,   \* history: flips with every message taken off Pending_messages
  linked      \* history: the call that linked a message last

messageVars == <<open, number, Pending, Inactive, message, got, receives, linked>>
vars == <<tqVars, messageVars>>

Init ==
  /\ TqInit
  /\ open = TRUE
  /\ number = 0 /\ Pending = << >> /\ Inactive = MaximumPending
  /\ message = [l \in Levels |-> 0]
  /\ got = [t \in Threads |-> <<0, 0>>]
  /\ receives = FALSE /\ linked = "none"

-----------------------------------------------------------------------------
\* _CORE_message_queue_Seize by the executing thread, up to its _ISR_Enable.
SomePending == number # 0
Seize(wait, timed) ==
  /\ open /\ Calls(0)
  /\ served' = [served EXCEPT ![executing] = "none"]
  /\ return_code' = [return_code EXCEPT ![executing] =
       IF ~SomePending /\ ~wait THEN "UNSATISFIED_NOWAIT" ELSE "SUCCESSFUL"]
  /\ \/ /\ SomePending
        /\ number' = number - 1
        /\ Pending' = Tail(Pending)
        /\ message' = [message EXCEPT ![0] = Head(Pending)]
        /\ receives' = ~receives
        /\ Begin(0, [IdleFrame EXCEPT !.pc = "free", !.op = "receive",
                                      !.thread = executing])
        /\ UNCHANGED <<state, timer, calling, executing, queue, sync_state,
                       priority, discipline>>
     \/ /\ ~SomePending
        /\ IF wait THEN EnterWait(timed)
           ELSE UNCHANGED <<state, timer, calling, executing, nest, frame, queue,
                            sync_state, priority, discipline>>
        /\ UNCHANGED <<number, Pending, message, receives>>
  /\ UNCHANGED <<open, Inactive, got, linked>>

\* The level is done with its message.
Done == Finish /\ message' = [message EXCEPT ![nest] = 0]

\* ... copy the message, then _CORE_message_queue_Free_message_buffer
SeizeEnd ==
  /\ At("free")
  /\ got' = [got EXCEPT ![executing] = <<message[0], message[0]>>]
  /\ Inactive' = Inactive + 1
  /\ Done
  /\ UNCHANGED <<state, timer, return_code, calling, executing, queueVars, open,
                 number, Pending, receives, linked>>

-----------------------------------------------------------------------------
\* _CORE_message_queue_Submit, from a thread or an interrupt handler.  A message
\* that is too long is refused at once.
Submit(lv, op, m) ==
  /\ open /\ Calls(lv) /\ m <= MaximumSize
  /\ Dequeue(lv, op)
  /\ message' = [message EXCEPT ![lv] = m]
  /\ UNCHANGED <<open, number, Pending, Inactive, got, receives, linked>>

Submitting == frame[nest].op \in {"send", "urgent"}

\* ... a thread got it
SubmitHand ==
  /\ At("dequeued") /\ Submitting /\ frame[nest].thread # NULL
  /\ got' = [got EXCEPT ![frame[nest].thread] = <<message[nest], message[nest]>>]
  /\ Done
  /\ UNCHANGED <<state, timer, return_code, calling, executing, queueVars, open,
                 number, Pending, Inactive, receives, linked>>

\* ... CORE_MESSAGE_QUEUE_STATUS_TOO_MANY, or room for one more
Full == number = MaximumPending
SubmitTest ==
  /\ At("dequeued") /\ Submitting /\ frame[nest].thread = NULL
  /\ \/ Full /\ Done
     \/ ~Full /\ Goto("client") /\ UNCHANGED message
  /\ UNCHANGED <<state, timer, return_code, calling, executing, queueVars, open,
                 number, Pending, Inactive, got, receives, linked>>

\* ... _CORE_message_queue_Allocate_message_buffer;
\* CORE_MESSAGE_QUEUE_STATUS_UNSATISFIED if there is none
NoBuffer == Inactive = 0
SubmitAllocate ==
  /\ At("client") /\ Submitting
  /\ \/ NoBuffer /\ Done /\ UNCHANGED Inactive
     \/ ~NoBuffer /\ Inactive' = Inactive - 1 /\ Goto("count") /\ UNCHANGED message
  /\ UNCHANGED <<state, timer, return_code, calling, executing, queueVars, open,
                 number, Pending, got, receives, linked>>

\* ... number_of_pending_messages += 1, a load and a store on some processors
SubmitCount ==
  /\ \/ At("count") /\ AtomicIncrement /\ number' = number + 1 /\ Goto("link")
     \/ /\ At("count") /\ ~AtomicIncrement
        /\ frame' = [frame EXCEPT ![nest].pc = "store", ![nest].value = number]
        /\ UNCHANGED <<nest, number>>
     \/ At("store") /\ number' = frame[nest].value + 1 /\ Goto("link")
  /\ UNCHANGED <<state, timer, return_code, calling, executing, queueVars, open,
                 Pending, Inactive, message, got, receives, linked>>

\* ... _CORE_message_queue_Append or _CORE_message_queue_Prepend
LinkedLast(op, m) == Append(Pending, m)
Linked(op, m) == IF op = "urgent" THEN InFront(Pending, m) ELSE Behind(Pending, m)
SubmitLink ==
  /\ At("link")
  /\ Pending' = Linked(frame[nest].op, message[nest])
  /\ linked' = frame[nest].op
  /\ Done
  /\ UNCHANGED <<state, timer, return_code, calling, executing, queueVars, open,
                 number, Inactive, got, receives>>

-----------------------------------------------------------------------------
\* _CORE_message_queue_Broadcast: for every thread that waits ...
Broadcast(lv, m) ==
  /\ open /\ Calls(lv)
  /\ Dequeue(lv, "broadcast")
  /\ message' = [message EXCEPT ![lv] = m]
  /\ UNCHANGED <<open, number, Pending, Inactive, got, receives, linked>>

\* ... copy as much of the message as it has room for; tell it the whole size
Constrained(m) == IF m > MaximumSize THEN MaximumSize ELSE m
BroadcastCopy ==
  /\ At("dequeued") /\ frame[nest].op = "broadcast" /\ frame[nest].thread # NULL
  /\ got' = [got EXCEPT ![frame[nest].thread] =
               <<Constrained(message[nest]), message[nest]>>]
  /\ Goto("client")
  /\ UNCHANGED <<state, timer, return_code, calling, executing, queueVars, open,
                 number, Pending, Inactive, message, receives, linked>>

BroadcastNext ==
  /\ At("client") /\ frame[nest].op = "broadcast"
  /\ Dequeue(nest, "broadcast")
  /\ UNCHANGED messageVars

BroadcastEnd ==
  /\ At("dequeued") /\ frame[nest].op = "broadcast" /\ frame[nest].thread = NULL
  /\ Done
  /\ UNCHANGED <<state, timer, return_code, calling, executing, queueVars, open,
                 number, Pending, Inactive, got, receives, linked>>

-----------------------------------------------------------------------------
FlushDrop == Pending' = << >> /\ number' = 0 /\ UNCHANGED Inactive

\* _CORE_message_queue_Flush_support
FlushSupport ==
  /\ Inactive' = Inactive + Len(Pending)
  /\ Pending' = << >>
  /\ number' = 0

\* rtems_message_queue_flush
Flush ==
  /\ open /\ Calls(0) /\ number # 0
  /\ FlushSupport
  /\ UNCHANGED <<tqVars, open, message, got, receives, linked>>

\* rtems_message_queue_delete: _Objects_Close, then _CORE_message_queue_Close
\* flushes either the messages or the threads ...
KeepThreads == TRUE
OnlyMessages == number # 0
Delete ==
  /\ open /\ Calls(0)
  /\ open' = FALSE
  /\ \/ OnlyMessages /\ FlushSupport /\ UNCHANGED tqVars
     \/ ~OnlyMessages /\ Dequeue(0, "flush") /\ UNCHANGED <<number, Pending, Inactive>>
  /\ UNCHANGED <<message, got, receives, linked>>

DeleteStatus ==
  /\ At("dequeued") /\ frame[nest].op = "flush" /\ frame[nest].thread # NULL
  /\ return_code' = [return_code EXCEPT ![frame[nest].thread] = "WAS_DELETED"]
  /\ Goto("client")
  /\ UNCHANGED <<state, timer, calling, executing, queueVars, messageVars>>

DeleteNext ==
  /\ At("client") /\ frame[nest].op = "flush"
  /\ Dequeue(nest, "flush")
  /\ UNCHANGED messageVars

\* ... and frees the memory of the buffers.
DeleteEnd ==
  /\ At("dequeued") /\ frame[nest].op = "flush" /\ frame[nest].thread = NULL
  /\ Finish
  /\ UNCHANGED <<state, timer, return_code, calling, executing, queueVars, messageVars>>

\* rtems_message_queue_create: _CORE_message_queue_Initialize
Create ==
  /\ ~open /\ Calls(0)
  /\ open' = TRUE
  /\ number' = 0 /\ Pending' = << >> /\ Inactive' = MaximumPending
  /\ UNCHANGED <<tqVars, message, got, receives, linked>>

-----------------------------------------------------------------------------
MessageStep ==
  \/ SeizeEnd
  \/ SubmitHand \/ SubmitTest \/ SubmitAllocate \/ SubmitCount \/ SubmitLink
  \/ BroadcastCopy \/ BroadcastNext \/ BroadcastEnd
  \/ DeleteStatus \/ DeleteNext \/ DeleteEnd

Next ==
  \/ TqNext /\ UNCHANGED messageVars
  \/ MessageStep
  \/ \E wait, timed \in BOOLEAN : (timed => wait) /\ Seize(wait, timed)
  \/ \E lv \in Levels, op \in {"send", "urgent"}, m \in Messages : Submit(lv, op, m)
  \/ \E lv \in Levels, m \in Messages : Broadcast(lv, m)
  \/ Flush \/ Delete \/ Create

Spec == Init /\ [][Next]_vars

-----------------------------------------------------------------------------
\* The levels whose calls hold a buffer, and those of them that have counted
\* their message.
Holding == {l \in Levels : frame[l].pc \in {"count", "store", "link", "free"}}
Counted == {l \in Levels : frame[l].pc = "link"}

\* Every buffer is on one of the two chains or with a call, and
\* number_of_pending_messages is the length of Pending_messages, but for
\* messages that are counted and not yet linked: however calls nest, none is
\* lost, none is used twice, and a receive that finds the count positive finds
\* a message.
BuffersAccounted ==
  /\ Inactive + Len(Pending) + Cardinality(Holding) = MaximumPending
  /\ number = Len(Pending) + Cardinality(Counted)

\* Nobody waits for a message while there is one, so that a delete which flushes
\* only the messages or only the threads (_CORE_message_queue_Close) leaves
\* nobody waiting for ever on a queue that is gone.
DeleteLeavesNobody ==
  ~open /\ frame[0].op # "flush" =>
    \A t \in Threads : state[t] = "ready"
=============================================================================
