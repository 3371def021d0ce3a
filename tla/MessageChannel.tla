--------------------------- MODULE MessageChannel ---------------------------
(***************************************************************************)
(* What a message queue promises: messages come out in the order they went *)
(* in, an urgent one first, each to one receiver; whoever waits finds no   *)
(* message pending.  Buffers, counters and interrupts do not show.         *)
(***************************************************************************)
EXTENDS Naturals, Sequences

CONSTANTS Clients, Messages, Capacity, Limit

VARIABLES
  pend,    \* the messages nobody has received, the next one first
  client,  \* where each client is in its call
  got,     \* the bytes each client was given last, and the size it was told
  turn,    \* flips with every message a client takes from pend
  last     \* how the last message went in

chanVars == <<pend, client, got, turn, last>>

Init ==
  /\ pend = << >>
  /\ client = [c \in Clients |-> "out"]
  /\ got = [c \in Clients |-> <<0, 0>>]
  /\ turn = FALSE /\ last = "none"

Move(c, from, to) == client[c] \in from /\ client' = [client EXCEPT ![c] = to]
NobodyWaits == \A c \in Clients : client[c] # "waiting"

Put(m, how) ==
  /\ NobodyWaits /\ Len(pend) < Capacity
  /\ pend' = IF how = "urgent" THEN <<m>> \o pend ELSE Append(pend, m)
  /\ last' = how
  /\ UNCHANGED <<client, got, turn>>

Get(c) ==
  /\ pend # << >> /\ client[c] = "out"
  /\ pend' = Tail(pend)
  /\ got' = [got EXCEPT ![c] = <<Head(pend), Head(pend)>>]
  /\ turn' = ~turn
  /\ UNCHANGED <<client, last>>

Wait(c) == pend = << >> /\ Move(c, {"out"}, "waiting") /\ UNCHANGED <<pend, got, turn, last>>

\* A message goes straight to one who waits.  One that is too long is cut, but
\* the client is told its size.
Hand(c, m) ==
  /\ Move(c, {"waiting"}, "granted")
  /\ got' = [got EXCEPT ![c] = <<IF m > Limit THEN Limit ELSE m, m>>]
  /\ UNCHANGED <<pend, turn, last>>

TimeOut(c) == Move(c, {"waiting"}, "timedout") /\ UNCHANGED <<pend, got, turn, last>>
Deleted(c) == Move(c, {"waiting"}, "flushed") /\ UNCHANGED <<pend, got, turn, last>>
Flush == NobodyWaits /\ pend' = << >> /\ UNCHANGED <<client, got, turn, last>>

\* The call returns; or the client is restarted in the middle of it.
Leave(c) ==
  client[c] # "out" /\ Move(c, {client[c]}, "out") /\ UNCHANGED <<pend, got, turn, last>>

Next ==
  \/ \E m \in Messages, how \in {"send", "urgent"} : m <= Limit /\ Put(m, how)
  \/ Flush
  \/ \E c \in Clients :
       \/ Get(c) \/ Wait(c) \/ TimeOut(c) \/ Deleted(c) \/ Leave(c)
       \/ \E m \in Messages : Hand(c, m)

Spec == Init /\ [][Next]_chanVars
=============================================================================
