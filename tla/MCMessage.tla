----------------------------- MODULE MCMessage -----------------------------
(* Instances of CoreMessage for TLC. *)
EXTENDS CoreMessage, TLC

MessageOps == {"send", "urgent", "broadcast", "flush", "receive"}
Symmetry == Permutations(Threads)

\* What became of a thread's last call is of no interest after it.
View ==
  <<discipline, queue, sync_state, state, timer, calling, executing, nest, frame,
    open, number, Pending, Inactive, message,
    [t \in calling |-> <<return_code[t], served[t], got[t]>>]>>

\* The channel behind the queue.  A thread is handed its message when it is
\* taken off the queue, although the message is copied later, and takes a
\* pending one when it takes its buffer.
ClientState(t) ==
  CASE t \notin calling -> "out"
    [] served[t] = "flush" -> "flushed"
    [] served[t] # "none" -> "granted"
    [] return_code[t] = "TIMEOUT" -> "timedout"
    [] OTHER -> "waiting"

\* The level, if there is one, that has a message for t and has not copied it.
Copying(t) ==
  {l \in 0 .. nest : /\ frame[l].thread = t
                     /\ \/ frame[l].pc = "free"
                        \/ /\ frame[l].op \in {"send", "urgent", "broadcast"}
                           /\ frame[l].pc \in {"remove", "unblock", "dequeued"}}

Given(t) ==
  IF Copying(t) = {} THEN got[t]
  ELSE LET m == message[CHOOSE l \in Copying(t) : TRUE]
       IN <<IF m > MaximumSize THEN MaximumSize ELSE m, m>>

Channel == INSTANCE MessageChannel WITH
  Clients <- Threads, Capacity <- MaximumPending, Limit <- MaximumSize,
  pend <- Pending,
  client <- [t \in Threads |-> ClientState(t)],
  got <- [t \in Threads |-> Given(t)],
  turn <- receives, last <- linked

\* The queue keeps what MessageChannel promises: no interleaving of handlers
\* with a thread that receives, sends or deletes loses, doubles or reorders a
\* message, or lets one wait while a thread waits for it.
CarriesMessages == Channel!Spec
=============================================================================
