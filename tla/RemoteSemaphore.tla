-------------------------- MODULE RemoteSemaphore --------------------------
(***************************************************************************)
(* A global semaphore of a multiprocessor system.  It lives on one node,   *)
(* the home node; the tasks of the other nodes operate on it by request    *)
(* packets, which the home node's receive server answers.  A remote task   *)
(* that has to wait is represented on the home node's thread queue by a    *)
(* proxy.  Every directive runs with dispatching disabled on its node, so  *)
(* it is one step of that node, except where an interrupt matters: between *)
(* a requester's blocking and the update of its state, and in the critical *)
(* section of the server's obtain.                                         *)
(***************************************************************************)
EXTENDS Naturals, FiniteSets, Sequences, SequencesExt, FiniteSetsExt

CONSTANTS
  Locals,      \* tasks of the home node
  Remotes,     \* tasks of the other nodes
  Nodes,       \* the other nodes
  NodeOf,      \* the node of each remote task
  Home,        \* the home node
  Kinds,       \* of "COUNTING" and "BINARY": the attributes tried
  MaxUnits,    \* units of a counting semaphore
  MaxCreates,  \* times the semaphore is created
  MaxProxies,  \* the home node's maximum_proxies
  Faults,      \* of "timeout", "restart" and "delete": what may befall a
               \* remote task that waits
  MaxMishaps,  \* how often that happens
  MaxLater,    \* obtain requests after it has happened
  IsrRelease,  \* interrupt handlers of the home node release the semaphore
  Server,      \* the id of the home node's receive server
  NULL

ASSUME ConstantsAssumption ==
  /\ NodeOf \in [Remotes -> Nodes] /\ Home \notin Nodes
  /\ Kinds \subseteq {"COUNTING", "BINARY"}
  /\ Faults \subseteq {"timeout", "restart", "delete"} /\ IsrRelease \in BOOLEAN
  /\ MaxUnits \in Nat \ {0} /\ {MaxCreates, MaxProxies, MaxMishaps, MaxLater} \subseteq Nat

Tasks == Locals \cup Remotes
AllNodes == Nodes \cup {Home}

VARIABLES
  kind,                   \* chosen once
  callouts,               \* chosen once: nodes of remote tasks that have initialized a
                          \* semaphore of their own and so registered its extract call-out
  creates, exists,        \* how often it was created; it is open on the home node
  count, units,           \* units kept; units there are in all
  holder_id, nest_count,  \* of a binary semaphore
  Wait_queue,             \* local tasks and proxies: [tid, option]
  sync,                   \* the packet in the server's critical section, and
                          \* what happened to it there
  known,                  \* nodes that have the id in their global table
  inbox,                  \* packets on the way to each node
  state,                  \* a task's blocking states
  sending,                \* the task has not enabled dispatching yet
  request,                \* the operation it waits for
  gone,                   \* remote tasks that were deleted in their wait
  mishaps,                \* waits that timed out or whose task was restarted
  later,                  \* obtain requests since the first of these
  held,                   \* units a task has obtained and not released
  fatal                   \* the executive has been shut down

chosen == <<kind, callouts>>
home == <<exists, creates, count, units, holder_id, nest_count, Wait_queue, sync>>
tasks == <<state, sending, request, gone, mishaps, later, held>>
vars == <<chosen, home, known, inbox, tasks, fatal>>

None == [tid |-> NULL, satisfied |-> FALSE]

Init ==
  /\ kind \in Kinds /\ callouts \in SUBSET {NodeOf[t] : t \in Remotes}
  /\ creates = 0 /\ exists = FALSE /\ count = 0 /\ units = 0
  /\ holder_id = NULL /\ nest_count = 0 /\ Wait_queue = <<>> /\ sync = None
  /\ known = {} /\ inbox = [n \in AllNodes |-> <<>>]
  /\ state = [t \in Tasks |-> {}] /\ sending = [t \in Remotes |-> FALSE]
  /\ request = [t \in Remotes |-> NULL] /\ gone = {} /\ mishaps = 0 /\ later = 0
  /\ held = [t \in Tasks |-> 0] /\ fatal = FALSE

(*************************** Packets ***************************************)

\* A request carries the operation and its options, an answer the request's
\* operation and the return code.
Packet(op, tid, arg) == [op |-> op, tid |-> tid, arg |-> arg]
Response(op, tid, code) == [op |-> "RESPONSE", tid |-> tid, arg |-> <<op, code>>]

\* The answers rs, a sequence, to the nodes of their tasks.
Respond(box, rs) ==
  [n \in AllNodes |-> box[n] \o SelectSeq(rs, LAMBDA r : n = NodeOf[r.tid])]
Broadcast(box, p) == [n \in AllNodes |-> IF n = Home THEN box[n] ELSE Append(box[n], p)]
ToHome(box, p) == [box EXCEPT ![Home] = Append(@, p)]

(*************************** The semaphore on its node *********************)

Proxies == Cardinality({i \in DOMAIN Wait_queue : Wait_queue[i].tid \in Remotes})

\* Who the core believes to execute: the server, for every remote task.
Executing(t) == IF t \in Locals THEN t ELSE Server

Free == IF kind = "COUNTING" THEN count # 0 ELSE holder_id = NULL
Nested(t) == kind = "BINARY" /\ holder_id = Executing(t)

\* The branches of an obtain that do not block.
Take(t) ==
  /\ IF kind = "COUNTING" THEN count' = count - 1 /\ UNCHANGED <<holder_id, nest_count>>
     ELSE holder_id' = Executing(t) /\ nest_count' = 1 /\ UNCHANGED count
Nest(t) == nest_count' = nest_count + 1 /\ UNCHANGED <<count, holder_id>>

\* A unit comes back: to the first task that waits, or to the count.  The
\* handed-on unit's task is Receiver; the answer to a proxy is its packet.
Receiver == IF Wait_queue = <<>> THEN NULL ELSE Head(Wait_queue).tid
LastUnit == kind = "COUNTING" \/ nest_count = 1

\* Mutated form: the count goes up although a waiting task is served.
HandOnAndKeep ==
  /\ Wait_queue' = IF Receiver = NULL THEN Wait_queue ELSE Tail(Wait_queue)
  /\ count' = count + 1 /\ UNCHANGED <<holder_id, nest_count>>

HandOn ==
  IF ~LastUnit
  THEN nest_count' = nest_count - 1 /\ UNCHANGED <<count, holder_id, Wait_queue>>
  ELSE /\ Wait_queue' = IF Receiver = NULL THEN Wait_queue ELSE Tail(Wait_queue)
       /\ IF kind = "COUNTING"
          THEN /\ count' = IF Receiver = NULL THEN count + 1 ELSE count
               /\ UNCHANGED <<holder_id, nest_count>>
          ELSE /\ holder_id' = Receiver
               /\ nest_count' = IF Receiver = NULL THEN 0 ELSE 1
               /\ UNCHANGED count

\* Mutated form: a task served through its proxy is not answered.
OnlyOwnAnswer(more) == more

\* What the unit's next owner is told.
Answers(more) ==
  IF LastUnit /\ Receiver \in Remotes
  THEN <<Response("OBTAIN", Receiver, "SUCCESSFUL")>> \o more ELSE more

\* A local task that is handed the unit runs on; whoever releases loses one.
Owners(t) ==
  IF LastUnit /\ Receiver \in Locals
  THEN /\ state' = [state EXCEPT ![Receiver] = {}]
       /\ held' = [x \in Tasks |-> held[x] + (IF x = Receiver THEN 1 ELSE 0)
                                           - (IF x = t THEN 1 ELSE 0)]
  ELSE /\ held' = [x \in Tasks |-> IF x = t THEN held[x] - 1 ELSE held[x]]
       /\ UNCHANGED state

(*************************** Tasks of the home node ************************)

HomeRuns == sync = None /\ ~fatal

\* Tasks do not wait for a unit while they hold one; a mutex nests.
MayObtain(t) == IF kind = "COUNTING" THEN held[t] = 0 ELSE held[t] < 2

Create ==
  /\ HomeRuns /\ ~exists /\ creates < MaxCreates
  /\ exists' = TRUE /\ creates' = creates + 1
  /\ \/ /\ kind = "COUNTING" /\ count' \in 0 .. MaxUnits /\ units' = count'
        /\ UNCHANGED <<holder_id, nest_count, held>>
     \/ /\ kind = "BINARY" /\ units' = 1 /\ UNCHANGED count
        /\ \/ UNCHANGED <<holder_id, nest_count, held>>
           \/ \E t \in Locals : /\ state[t] = {} /\ holder_id' = t /\ nest_count' = 1
                                /\ held' = [held EXCEPT ![t] = 1]
  /\ inbox' = Broadcast(inbox, Packet("CREATE", NULL, NULL))
  /\ UNCHANGED <<chosen, Wait_queue, sync, known, state, sending, request, gone, mishaps, later,
                 fatal>>

\* The waiting tasks are told, the remote ones by their proxies' packets, and
\* then every node that the id is gone.
Delete ==
  /\ HomeRuns /\ exists /\ holder_id = NULL
  /\ exists' = FALSE /\ count' = 0 /\ units' = 0 /\ Wait_queue' = <<>>
  /\ LET proxies == SelectSeq(Wait_queue, LAMBDA e : e.tid \in Remotes)
         told == [i \in DOMAIN proxies |-> Response("OBTAIN", proxies[i].tid, "WAS_DELETED")]
     IN inbox' = Broadcast(Respond(inbox, told), Packet("DELETE", NULL, NULL))
  /\ state' = [t \in Tasks |-> IF t \in Locals THEN {} ELSE state[t]]
  /\ held' = [t \in Tasks |-> 0]
  /\ UNCHANGED <<chosen, creates, holder_id, nest_count, sync, known, sending, request, gone,
                 mishaps, later, fatal>>

ObtainLocal(t) ==
  /\ HomeRuns /\ exists /\ state[t] = {} /\ MayObtain(t)
  /\ \/ /\ Free /\ Take(t) /\ held' = [held EXCEPT ![t] = @ + 1]
        /\ UNCHANGED <<Wait_queue, state>>
     \/ /\ ~Free /\ Nested(t) /\ Nest(t) /\ held' = [held EXCEPT ![t] = @ + 1]
        /\ UNCHANGED <<Wait_queue, state>>
     \/ /\ ~Free /\ ~Nested(t) /\ Wait_queue' = Append(Wait_queue, [tid |-> t])
        /\ state' = [state EXCEPT ![t] = {"sem"}]
        /\ UNCHANGED <<count, holder_id, nest_count, held>>
  /\ UNCHANGED <<chosen, exists, creates, units, sync, known, inbox, sending, request, gone,
                 mishaps, later, fatal>>

ReleaseLocal(t) ==
  /\ HomeRuns /\ exists /\ state[t] = {} /\ held[t] > 0
  /\ HandOn /\ Owners(t) /\ inbox' = Respond(inbox, Answers(<<>>))
  /\ UNCHANGED <<chosen, exists, creates, units, sync, known, sending, request, gone, mishaps,
                 later, fatal>>

\* A unit is made: by a task, or by an interrupt handler even within the
\* server's critical section.
Signal ==
  /\ kind = "COUNTING" /\ exists /\ units < MaxUnits /\ ~fatal
  /\ units' = units + 1
  /\ \/ sync = None \/ IsrRelease
  /\ IF Wait_queue = <<>> /\ sync.tid # NULL /\ ~sync.satisfied
     THEN sync' = [sync EXCEPT !.satisfied = TRUE]
          /\ UNCHANGED <<count, holder_id, nest_count, Wait_queue, state, held, inbox>>
     ELSE HandOn /\ Owners(NULL) /\ inbox' = Respond(inbox, Answers(<<>>)) /\ UNCHANGED sync
  /\ UNCHANGED <<chosen, exists, creates, known, sending, request, gone, mishaps, later, fatal>>

(*************************** Tasks of the other nodes **********************)

\* No wait of a remote task has been cut short yet.
Undisturbed == gone = {} /\ mishaps = 0

Dispatches(n) == ~fatal /\ \A t \in Remotes : NodeOf[t] = n => ~sending[t]

\* A task sends its request and blocks.
Request(t, op, option) ==
  /\ Dispatches(NodeOf[t]) /\ NodeOf[t] \in known /\ state[t] = {} /\ t \notin gone
  /\ Undisturbed \/ op = "RELEASE" \/ later < MaxLater
  /\ later' = IF Undisturbed \/ op = "RELEASE" THEN later ELSE later + 1
  /\ IF op = "OBTAIN" THEN MayObtain(t) /\ UNCHANGED held
     ELSE held[t] > 0 /\ held' = [held EXCEPT ![t] = @ - 1]
  /\ inbox' = ToHome(inbox, Packet(op, t, option))
  /\ state' = [state EXCEPT ![t] = {"rpc"}] /\ sending' = [sending EXCEPT ![t] = TRUE]
  /\ request' = [request EXCEPT ![t] = op]
  /\ UNCHANGED <<chosen, home, known, gone, mishaps, fatal>>

RemoteRelease(t) == Request(t, "RELEASE", "WAIT")

\* The extra state is added, and dispatching enabled.
RequestEnd(t) ==
  /\ sending[t] /\ ~fatal
  /\ state' = [state EXCEPT ![t] = @ \cup {"sem"}]
  /\ sending' = [sending EXCEPT ![t] = FALSE]
  /\ UNCHANGED <<chosen, home, known, inbox, request, gone, mishaps, later, held, fatal>>

\* Mutated form: only the remote wait is cleared of the task's state.
OnlyReplyCleared(t) ==
  /\ state' = [state EXCEPT ![t] = @ \ {"rpc"}]
  /\ request' = [request EXCEPT ![t] = NULL]

\* The task runs on.
Unblocked(t) ==
  /\ state' = [state EXCEPT ![t] = {}]
  /\ request' = [request EXCEPT ![t] = NULL]

\* The bound on what befalls waiting tasks.
MayFail == mishaps + Cardinality(gone) < MaxMishaps

\* A request may have been sent with a time-out; that of a request that does not
\* wait is what the packet held before.
TimeOut(t) ==
  /\ "timeout" \in Faults /\ request[t] # NULL /\ ~fatal /\ MayFail
  /\ mishaps' = mishaps + 1 /\ Unblocked(t)
  /\ UNCHANGED <<chosen, home, known, inbox, sending, gone, later, held, fatal>>

\* A task of the same node restarts or deletes t in its wait.  Its node says so to
\* the home node by the extract call-out, where there is one.
Restart(t, fault) ==
  /\ fault \in {"restart", "delete"} /\ MayFail /\ Dispatches(NodeOf[t]) /\ request[t] # NULL
  /\ Unblocked(t)
  /\ inbox' = IF {"rpc", "sem"} \subseteq state[t] /\ NodeOf[t] \in callouts
              THEN ToHome(inbox, Packet("EXTRACT", t, NULL)) ELSE inbox
  /\ IF fault = "delete" THEN gone' = gone \cup {t} /\ UNCHANGED mishaps
                          ELSE mishaps' = mishaps + 1 /\ UNCHANGED gone
  /\ UNCHANGED <<chosen, home, known, sending, later, held, fatal>>

(*************************** The receive servers ***************************)

Consumed(n) == [inbox EXCEPT ![n] = Tail(@)]
Reply(p, code) == <<Response(p.op, p.tid, code)>>

\* rtems_semaphore_obtain, called by the server for the task of the packet.
ServeObtain(p) ==
  /\ p.op = "OBTAIN" /\ UNCHANGED <<Wait_queue, state, held>>
  /\ \/ /\ ~exists /\ inbox' = Respond(Consumed(Home), Reply(p, "INVALID_ID"))
        /\ UNCHANGED <<count, holder_id, nest_count, sync>>
     \/ /\ exists /\ Free /\ Take(p.tid) /\ UNCHANGED sync
        /\ inbox' = Respond(Consumed(Home), Reply(p, "SUCCESSFUL"))
     \/ /\ exists /\ ~Free /\ Nested(p.tid) /\ Nest(p.tid) /\ UNCHANGED sync
        /\ inbox' = Respond(Consumed(Home), Reply(p, "SUCCESSFUL"))
     \/ /\ exists /\ ~Free /\ ~Nested(p.tid)
        /\ IF p.arg = "WAIT"
           THEN /\ sync' = [tid |-> p.tid, satisfied |-> FALSE] /\ inbox' = Consumed(Home)
           ELSE /\ inbox' = Respond(Consumed(Home), Reply(p, "UNSATISFIED")) /\ UNCHANGED sync
        /\ UNCHANGED <<count, holder_id, nest_count>>

ServeRelease(p) ==
  /\ p.op = "RELEASE" /\ UNCHANGED sync
  /\ \/ /\ exists /\ HandOn /\ Owners(NULL)
        /\ inbox' = Respond(Consumed(Home), Answers(Reply(p, "SUCCESSFUL")))
     \/ /\ ~exists /\ inbox' = Respond(Consumed(Home), Reply(p, "INVALID_ID"))
        /\ UNCHANGED <<count, holder_id, nest_count, Wait_queue, state, held>>

\* Mutated form: the packet is dropped.
DropExtract(p) ==
  /\ p.op = "EXTRACT" /\ inbox' = Consumed(Home)
  /\ UNCHANGED <<Wait_queue, count, holder_id, nest_count, sync, state, held>>

\* The first proxy of the task, if it has one, leaves the queue.
ServeExtract(p) ==
  /\ p.op = "EXTRACT"
  /\ LET found == {i \in DOMAIN Wait_queue : Wait_queue[i].tid = p.tid}
     IN Wait_queue' = IF found = {} THEN Wait_queue ELSE RemoveAt(Wait_queue, Min(found))
  /\ inbox' = Consumed(Home)
  /\ UNCHANGED <<count, holder_id, nest_count, sync, state, held>>

HomePacket ==
  /\ HomeRuns /\ inbox[Home] # <<>>
  /\ LET p == Head(inbox[Home]) IN ServeObtain(p) \/ ServeRelease(p) \/ ServeExtract(p)
  /\ UNCHANGED <<chosen, exists, creates, units, known, sending, request, gone, mishaps, later,
                 fatal>>

\* The end of the server's obtain.  A proxy is allocated first.  If the unit came
\* meanwhile it is freed at once, and the return code is the proxy's: no answer is
\* sent.
Enqueue ==
  /\ sync.tid # NULL /\ ~fatal /\ sync' = None
  /\ \/ Proxies = MaxProxies /\ fatal' = TRUE /\ UNCHANGED Wait_queue
     \/ /\ Proxies < MaxProxies /\ UNCHANGED fatal
        /\ Wait_queue' = IF sync.satisfied THEN Wait_queue
                         ELSE Append(Wait_queue, [tid |-> sync.tid])
  /\ UNCHANGED <<chosen, exists, creates, count, units, holder_id, nest_count, known,
                 inbox, tasks>>

\* An answer ends whatever the task waits for.
ProcessResponse(p) ==
  /\ p.op = "RESPONSE" /\ UNCHANGED <<known, sending, gone, mishaps, later, fatal>>
  /\ IF state[p.tid] # {}
     THEN /\ Unblocked(p.tid)
          /\ held' = IF request[p.tid] = "OBTAIN" /\ p.arg[2] = "SUCCESSFUL"
                     THEN [held EXCEPT ![p.tid] = @ + 1] ELSE held
     ELSE UNCHANGED <<state, request, held>>

Announced(n, p) ==
  /\ UNCHANGED tasks
  /\ \/ p.op = "CREATE" /\ known' = known \cup {n} /\ UNCHANGED fatal
     \/ p.op = "DELETE" /\ n \in known /\ known' = known \ {n} /\ UNCHANGED fatal
     \/ p.op = "DELETE" /\ n \notin known /\ fatal' = TRUE /\ UNCHANGED known

NodePacket(n) ==
  /\ Dispatches(n) /\ inbox[n] # <<>> /\ inbox' = Consumed(n)
  /\ LET p == Head(inbox[n]) IN ProcessResponse(p) \/ Announced(n, p)
  /\ UNCHANGED <<chosen, home>>

Next ==
  \/ Create \/ Delete \/ Signal \/ HomePacket \/ Enqueue
  \/ \E t \in Locals : ObtainLocal(t) \/ ReleaseLocal(t)
  \/ \E t \in Remotes : \/ \E option \in {"WAIT", "NO_WAIT"} : Request(t, "OBTAIN", option)
                        \/ RemoteRelease(t) \/ RequestEnd(t) \/ TimeOut(t)
                        \/ \E fault \in Faults : Restart(t, fault)
  \/ \E n \in Nodes : NodePacket(n)

Spec == Init /\ [][Next]_vars

(*************************** Properties ************************************)

InFlight(n, Such(_)) == Cardinality({i \in DOMAIN inbox[n] : Such(inbox[n][i])})

Asked(t) ==
  InFlight(Home, LAMBDA p : p.op \in {"OBTAIN", "RELEASE"} /\ p.tid = t)
  + Cardinality({i \in DOMAIN Wait_queue : Wait_queue[i].tid = t})
  + (IF sync.tid = t THEN 1 ELSE 0)
Answered(t) == InFlight(NodeOf[t], LAMBDA p : p.op = "RESPONSE" /\ p.tid = t)
Due(t) == IF request[t] = NULL THEN 0 ELSE 1

TypeOK ==
  /\ kind \in Kinds /\ callouts \subseteq Nodes /\ exists \in BOOLEAN /\ fatal \in BOOLEAN
  /\ creates \in 0 .. MaxCreates /\ {count, units} \subseteq 0 .. MaxUnits
  /\ holder_id \in Tasks \cup {Server, NULL} /\ nest_count \in Nat
  /\ Wait_queue \in Seq([tid : Tasks])
  /\ sync \in [tid : Remotes \cup {NULL}, satisfied : BOOLEAN]
  /\ known \subseteq Nodes /\ DOMAIN inbox = AllNodes
  /\ state \in [Tasks -> SUBSET {"rpc", "sem"}]
  /\ sending \in [Remotes -> BOOLEAN] /\ mishaps \in 0 .. MaxMishaps
  /\ request \in [Remotes -> {"OBTAIN", "RELEASE", NULL}] /\ gone \subseteq Remotes
  /\ held \in [Tasks -> Nat]

\* Requests, proxies and answers of _MPCI_Send_request_packet and the packet
\* processor: of a task that waits for a remote operation there is exactly one
\* request, proxy or answer under way; of a task that does not there is none,
\* and its state is not a blocking one.  (A task whose wait times out or that is
\* restarted leaves its request, and the answer finds it elsewhere.)
OneAnswerDue ==
  Undisturbed => \A t \in Remotes : /\ Asked(t) + Answered(t) = Due(t)
                                    /\ request[t] = NULL => state[t] = {}

\* _CORE_semaphore_Surrender over the nodes: every unit of a counting semaphore
\* is kept, held by a task, on its way to one or on its way back.
UnitsConserved ==
  Undisturbed /\ exists /\ kind = "COUNTING" =>
    units = count + MapThenSumSet(LAMBDA t : held[t], Tasks)
            + InFlight(Home, LAMBDA p : p.op = "RELEASE")
            + MapThenSumSet(LAMBDA n : InFlight(n, LAMBDA p :
                p.op = "RESPONSE" /\ p.arg = <<"OBTAIN", "SUCCESSFUL">>), Nodes)

\* _Thread_queue_Extract_with_proxy and _Thread_MP_Find_proxy: a task that is
\* deleted in a remote wait leaves no proxy behind, once the packet that says so
\* has come, and the proxies configured, one for every task, suffice.  The first
\* needs a node that has created a semaphore of its own: only that registers the
\* call-out that sends the packet.
ProxiesFollow ==
  mishaps = 0 =>
    /\ ~fatal
    /\ \A t \in Remotes :
         NodeOf[t] \in callouts
         /\ InFlight(Home, LAMBDA p : p.op = "EXTRACT" /\ p.tid = t) = 0 => Asked(t) <= Due(t)

\* _CORE_mutex_Seize: a global binary semaphore excludes: no two tasks hold it.
\* It does not: the receive server is the holder on behalf of every remote task,
\* and nests.
MutualExclusion ==
  kind = "BINARY" => Cardinality({t \in Tasks : held[t] > 0}) <= 1

\* Every node's server, its most urgent task, runs when dispatching is enabled,
\* and who holds a unit gives it back some time.
FairSpec ==
  /\ Spec /\ WF_vars(HomePacket) /\ WF_vars(Enqueue)
  /\ \A n \in Nodes : SF_vars(NodePacket(n))
  /\ \A t \in Remotes : WF_vars(RequestEnd(t)) /\ SF_vars(RemoteRelease(t))
  /\ \A t \in Locals : WF_vars(ReleaseLocal(t))

\* A remote request on a counting semaphore ends, with an answer for a task waits
\* in turn on the home node, or with the news that the semaphore is deleted,
\* unless there are no units at all.
RequestsEnd ==
  \A t \in Remotes :
    (Undisturbed /\ kind = "COUNTING" /\ request[t] # NULL)
      ~> (request[t] = NULL \/ (exists /\ units = 0) \/ ~Undisturbed)
=============================================================================
