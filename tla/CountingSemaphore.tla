------------------------- MODULE CountingSemaphore -------------------------
(***************************************************************************)
(* What a counting semaphore promises its clients: units are handed to     *)
(* those who wait, or kept for later ones if nobody waits.  Who runs, and  *)
(* how interrupt handlers interleave with it, does not show.               *)
(***************************************************************************)
EXTENDS Naturals

CONSTANTS Clients, MaxUnits

VARIABLES
  avail,   \* units nobody owns
  client,  \* where each client is in its call
  taken,   \* flips with every unit taken from avail
  made     \* flips with every new semaphore

TypeOK ==
  /\ avail \in 0 .. MaxUnits
  /\ client \in [Clients -> {"out", "waiting", "granted", "timedout", "flushed"}]
  /\ {taken, made} \subseteq BOOLEAN

Init ==
  /\ avail \in 0 .. MaxUnits
  /\ client = [c \in Clients |-> "out"]
  /\ taken = FALSE /\ made = FALSE

counters == <<taken, made>>

Move(c, from, to) == client[c] \in from /\ client' = [client EXCEPT ![c] = to]
NobodyWaits == \A c \in Clients : client[c] # "waiting"

TakeUnit ==
  avail > 0 /\ avail' = avail - 1 /\ taken' = ~taken /\ UNCHANGED <<client, made>>
Wait(c) == avail = 0 /\ Move(c, {"out"}, "waiting") /\ UNCHANGED <<avail, counters>>
Give(c) == Move(c, {"waiting"}, "granted") /\ UNCHANGED <<avail, counters>>
Keep == NobodyWaits /\ avail' = avail + 1 /\ UNCHANGED <<client, counters>>
TimeOut(c) == Move(c, {"waiting"}, "timedout") /\ UNCHANGED <<avail, counters>>
Flush(c) == Move(c, {"waiting"}, "flushed") /\ UNCHANGED <<avail, counters>>
Recreate ==
  /\ NobodyWaits /\ avail' \in 0 .. MaxUnits /\ made' = ~made
  /\ UNCHANGED <<client, taken>>
\* The call returns; or the client is restarted in the middle of it.
Leave(c) ==
  client[c] # "out" /\ Move(c, {client[c]}, "out") /\ UNCHANGED <<avail, counters>>

Next ==
  \/ TakeUnit \/ Keep \/ Recreate
  \/ \E c \in Clients : Wait(c) \/ Give(c) \/ TimeOut(c) \/ Flush(c) \/ Leave(c)

Spec == Init /\ [][Next]_<<avail, client, counters>>
=============================================================================
