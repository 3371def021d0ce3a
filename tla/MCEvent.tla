------------------------------ MODULE MCEvent ------------------------------
(* Instances of Event for TLC. *)
EXTENDS Event, TLC

Symmetry == Permutations(Threads) \cup Permutations(Events)

\* What became of a thread's last receive is of no interest after it.
View ==
  <<state, timer, calling, executing, nest, frame, pending_events, Sync_state,
    [t \in calling |-> <<return_code[t], condition[t], any[t], event_out[t],
                         seized[t]>>]>>
=============================================================================
