--------------------------- MODULE NetworkProofs ---------------------------
(***************************************************************************)
(* The network, for any number of clients, any table and any length of the *)
(* worker's queue.  UpIsNoticed rests on the order of the queue: a change  *)
(* that is reported behind the last loss of the link is what makes a       *)
(* station noticed again, so Noticed asks for such a one.                  *)
(***************************************************************************)
EXTENDS Network, TLAPS

Queued(j) == \E i \in DOMAIN queue : queue[i] = j

\* A change is queued behind the last loss of the link.
ChangeBehindLoss ==
    \E i \in DOMAIN queue :
        /\ queue[i] = "__network_change"
        /\ \A k \in DOMAIN queue : i < k => queue[k] # "_link_down_callback"

Fields ==
    /\ joined \in BOOLEAN /\ link \in BOOLEAN /\ address \in BOOLEAN /\ reporting \in BOOLEAN
    /\ retry \in BOOLEAN /\ function \in BOOLEAN /\ assoc \in BOOLEAN /\ up \in BOOLEAN
    /\ asked \in {"start", "stopping", "stop"}

Worker ==
    /\ queue \in Seq(Job)
    /\ job \in Job \cup {"idle", "joining", "came_up", "call_callback"}
    /\ slot \in 0 .. TableSize
    /\ job = "call_callback" => slot # 0

\* The states of a client that has written its callback, and then its arg.
Wrote == {"registering", "registered", "ready"}
Told == {"registered", "ready"}

\* A client writes to its entry alone; what it has written to arg is there unless
\* another has the same entry; and it knows nothing before it looks.
Table ==
    /\ callback \in [Slot -> Client \cup {NULL}]
    /\ arg \in [Slot -> Client \cup {NULL}]
    /\ client \in [Client -> {"new", "taking"} \cup Wrote]
    /\ entry \in [Client -> 0 .. TableSize + 1]
    /\ owed \subseteq Client
    /\ known \in [Client -> BOOLEAN]
    /\ \A i \in Slot : callback[i] # NULL =>
          entry[callback[i]] = i /\ client[callback[i]] \in Wrote
    /\ \A i \in Slot : arg[i] # NULL =>
          entry[arg[i]] = i /\ client[arg[i]] \in Told /\ callback[i] # NULL
    /\ \A c \in Client :
          /\ client[c] \in {"taking", "registering"} => entry[c] \in Slot
          /\ client[c] = "registering" => callback[entry[c]] # NULL
          /\ client[c] \in Told /\ entry[c] \in Slot => arg[entry[c]] = c \/ Overwritten(c)
          /\ client[c] # "ready" => known[c] = FALSE

\* A retry is registered only when the network is not being joined.
Retry == (retry => function) /\ (job = "joining" => ~retry)

Trying ==
    asked = "start" =>
        joined \/ retry \/ job \in {"_network_init", "joining"} \/ Queued("_network_init")

Real ==
    up \/ job = "came_up" =>
        link \/ job = "_link_down_callback" \/ Queued("_link_down_callback")

Noticed ==
    link /\ address =>
        \/ up /\ job # "_link_down_callback" /\ ~Queued("_link_down_callback")
        \/ reporting
        \/ ChangeBehindLoss
        \/ job \in {"__network_change", "came_up"} /\ ~Queued("_link_down_callback")

IInv ==
    Fields /\ Worker /\ Table /\ Retry /\ Trying /\ Real /\ Noticed /\ ClientsKnow

-----------------------------------------------------------------------------
\* What sending a job and taking one do to the queue.
LEMMA SendQueue ==
    ASSUME queue \in Seq(Job), NEW j \in Job, Send(j)
    PROVE  /\ queue' \in Seq(Job)
           /\ \A k \in Job : Queued(k)' <=> Queued(k) \/ k = j
           /\ ChangeBehindLoss /\ j # "_link_down_callback" => ChangeBehindLoss'
           /\ j = "__network_change" => ChangeBehindLoss'
  <1>1. /\ queue' \in Seq(Job) /\ Len(queue) \in Nat
        /\ DOMAIN queue = 1 .. Len(queue) /\ DOMAIN queue' = 1 .. Len(queue) + 1
        /\ queue'[Len(queue) + 1] = j
        /\ \A i \in DOMAIN queue : queue'[i] = queue[i]
    BY DEF Send
  <1>2. \A k \in Job : Queued(k)' <=> Queued(k) \/ k = j
    BY <1>1 DEF Queued
  <1>3. ChangeBehindLoss /\ j # "_link_down_callback" => ChangeBehindLoss'
    BY <1>1 DEF ChangeBehindLoss
  <1>4. j = "__network_change" => ChangeBehindLoss'
    BY <1>1 DEF ChangeBehindLoss
  <1>5. QED
    BY <1>1, <1>2, <1>3, <1>4

LEMMA TakeQueue ==
    ASSUME queue \in Seq(Job), next_job
    PROVE  /\ queue' \in Seq(Job) /\ job' \in Job
           /\ \A k \in Job : Queued(k) <=> Queued(k)' \/ job' = k
           /\ ChangeBehindLoss =>
                 \/ ChangeBehindLoss'
                 \/ job' = "__network_change" /\ ~Queued("_link_down_callback")'
  <1>1. /\ queue' \in Seq(Job) /\ job' \in Job /\ Len(queue) \in Nat /\ Len(queue) # 0
        /\ DOMAIN queue = 1 .. Len(queue) /\ DOMAIN queue' = 1 .. Len(queue) - 1
        /\ queue[1] = job'
        /\ \A i \in DOMAIN queue' : queue'[i] = queue[i + 1]
    BY DEF next_job
  <1>2. \A i \in DOMAIN queue : i = 1 \/ (i - 1 \in DOMAIN queue' /\ queue'[i - 1] = queue[i])
    BY <1>1
  <1>3. \A k \in Job : Queued(k) <=> Queued(k)' \/ job' = k
    BY <1>1, <1>2 DEF Queued
  <1>4. ASSUME NEW i \in DOMAIN queue, queue[i] = "__network_change",
               \A k \in DOMAIN queue : i < k => queue[k] # "_link_down_callback"
        PROVE  \/ ChangeBehindLoss'
               \/ job' = "__network_change" /\ ~Queued("_link_down_callback")'
    <2>1. CASE i = 1
      <3>1. \A k \in DOMAIN queue' : queue'[k] # "_link_down_callback"
        BY <1>1, <1>4, <2>1
      <3>2. QED
        BY <1>1, <1>4, <2>1, <3>1 DEF Queued
    <2>2. CASE i # 1
      <3>1. i - 1 \in DOMAIN queue' /\ queue'[i - 1] = "__network_change"
        BY <1>2, <1>4, <2>2
      <3>2. \A k \in DOMAIN queue' : i - 1 < k => queue'[k] # "_link_down_callback"
        BY <1>1, <1>4
      <3>3. QED
        BY <3>1, <3>2 DEF ChangeBehindLoss
    <2>3. QED
      BY <2>1, <2>2
  <1>5. QED
    BY <1>1, <1>3, <1>4 DEF ChangeBehindLoss

-----------------------------------------------------------------------------
\* No client has registered anything yet, and the first joining is queued.
LEMMA InitInv == NetworkInit => IInv
  <1> SUFFICES ASSUME NetworkInit PROVE IInv
    OBVIOUS
  <1> USE NetworkConstants DEF NetworkInit
  <1>1. Fields /\ Retry /\ Real /\ Noticed
    BY DEF Fields, Retry, Real, Noticed
  <1>2. Worker
    BY DEF Worker, Job
  <1>3. Table
    BY DEF Table, Slot
  <1>4. Trying
    BY DEF Trying, Queued
  <1>5. ClientsKnow
    BY DEF ClientsKnow, Slot
  <1>6. QED
    BY <1>1, <1>2, <1>3, <1>4, <1>5 DEF IInv

\* What WICED and the world do: the queue grows, or a change is to be reported.
LEMMA WicedInv == ASSUME IInv, WicedStep PROVE IInv'
  <1> USE DEF WicedStep, link_lost, link_regained, address_changes, _network_change, retry_fires
  <1> USE DEF netVars, teventVars, tableVars, clientVars, workerVars, stationVars
  <1>1. /\ UNCHANGED <<job, slot, retry, function, assoc, up, callback, arg, client, entry, known, owed, asked>>
        /\ \/ queue' = queue
           \/ link_lost /\ Send("_link_down_callback")
           \/ link_regained /\ Send("_link_up_callback")
           \/ _network_change /\ Send("__network_change")
           \/ retry_fires /\ Send("_network_init")
    OBVIOUS
  <1>2. queue \in Seq(Job)
    BY DEF IInv, Worker
  <1>3. /\ queue' \in Seq(Job)
        /\ \A k \in Job : Queued(k) => Queued(k)'
        /\ link_lost => Queued("_link_down_callback")'
        /\ ~link_lost => (Queued("_link_down_callback")' <=> Queued("_link_down_callback"))
        /\ ~link_lost /\ ChangeBehindLoss => ChangeBehindLoss'
        /\ _network_change => ChangeBehindLoss'
    <2>1. CASE queue' = queue
      <3>1. ~link_lost /\ ~_network_change
        <4>1. ASSUME NEW j \in Job PROVE Append(queue, j) # queue
          BY <1>2
        <4>2. QED
          BY <2>1, <4>1 DEF Send, Job
      <3>2. QED
        BY <1>2, <2>1, <3>1 DEF Queued, ChangeBehindLoss
    <2>2. CASE link_lost /\ Send("_link_down_callback")
      BY <1>2, <2>2, SendQueue DEF Job
    <2>3. QED
      BY <1>1, <1>2, <2>1, <2>2, SendQueue DEF Job
  <1>4. Fields'
    BY <1>1 DEF IInv, Fields
  <1>5. Worker' /\ Table' /\ Retry' /\ ClientsKnow'
    BY <1>1, <1>3 DEF IInv, Worker, Table, Retry, ClientsKnow, Overwritten
  <1>6. Trying'
    BY <1>1, <1>3 DEF IInv, Trying, Job
  <1>7. Real'
    BY <1>1, <1>3 DEF IInv, Real, Job
  <1>8. Noticed'
    BY <1>1, <1>3 DEF IInv, Noticed, Fields
  <1>9. QED
    BY <1>4, <1>5, <1>6, <1>7, <1>8 DEF IInv

\* The worker takes the oldest job.
LEMMA TakeInv == ASSUME IInv, next_job PROVE IInv'
  <1>1. /\ UNCHANGED <<stationVars, slot, teventVars, netVars, tableVars, clientVars, owed, asked>>
        /\ job = "idle"
    BY DEF next_job
  <1> USE DEF netVars, teventVars, tableVars, clientVars, stationVars
  <1>2. /\ queue' \in Seq(Job) /\ job' \in Job
        /\ \A k \in Job : Queued(k) <=> Queued(k)' \/ job' = k
        /\ ChangeBehindLoss =>
              \/ ChangeBehindLoss'
              \/ job' = "__network_change" /\ ~Queued("_link_down_callback")'
    BY TakeQueue DEF IInv, Worker
  <1>3. Fields' /\ Table'
    BY <1>1 DEF IInv, Fields, Table, Overwritten
  <1>4. Worker' /\ Retry' /\ ClientsKnow'
    BY <1>1, <1>2 DEF IInv, Worker, Retry, ClientsKnow, Overwritten, Job
  <1>5. Trying' /\ Real' /\ Noticed'
    BY <1>1, <1>2 DEF IInv, Trying, Real, Noticed, Job
  <1>6. QED
    BY <1>3, <1>4, <1>5 DEF IInv

\* Joining: what it sends comes behind everything else.
LEMMA JoinInv == ASSUME IInv, _network_init \/ network_joined \/ join_failed PROVE IInv'
  <1> USE DEF netVars, teventVars, tableVars, clientVars, stationVars
  <1> USE DEF _network_init, network_joined, join_failed
  <1>1. /\ UNCHANGED <<slot, up, callback, arg, client, entry, known, owed, asked>>
        /\ job \in {"_network_init", "joining"} /\ job' \in {"joining", "idle"}
    OBVIOUS
  <1>2. /\ queue' \in Seq(Job)
        /\ \A k \in Job : Queued(k)' <=> Queued(k) \/ (network_joined /\ k = "__network_change")
        /\ ChangeBehindLoss => ChangeBehindLoss'
        /\ network_joined => ChangeBehindLoss'
    <2>1. queue \in Seq(Job)
      BY DEF IInv, Worker
    <2>2. CASE network_joined
      BY <2>1, <2>2, SendQueue DEF Job
    <2>3. CASE ~network_joined
      BY <2>1, <2>3 DEF Queued, ChangeBehindLoss
    <2>4. QED
      BY <2>2, <2>3
  <1>3. Fields'
    BY DEF IInv, Fields
  <1>4. Worker' /\ Table' /\ ClientsKnow'
    BY <1>1, <1>2 DEF IInv, Worker, Table, ClientsKnow, Overwritten
  <1>5. Retry'
    <2>1. CASE _network_init
      <3>1. retry => function
        BY DEF IInv, Retry
      <3>2. retry' <=> retry /\ ~function
        BY <2>1
      <3>3. ~retry'
        BY <3>1, <3>2
      <3>4. QED
        BY <3>3 DEF Retry
    <2>2. CASE network_joined
      BY <2>2 DEF IInv, Retry
    <2>3. CASE join_failed
      BY <2>3 DEF Retry
    <2>4. QED
      BY <2>1, <2>2, <2>3
  <1>6. Trying'
    BY <1>1 DEF IInv, Trying
  <1>7. Real' /\ Noticed'
    BY <1>1, <1>2 DEF IInv, Real, Noticed, Job
  <1>8. QED
    BY <1>3, <1>4, <1>5, <1>6, <1>7 DEF IInv

\* The changes of a_net.up, which begin the calls of the callbacks.
LEMMA ChangeInv ==
    ASSUME IInv, \/ __network_change \/ came_up \/ _link_up_callback \/ _link_down_callback
    PROVE  IInv'
  <1> USE DEF netVars, teventVars, tableVars, clientVars, stationVars
  <1> USE DEF __network_change, came_up, _link_up_callback, _link_down_callback
  <1>1. /\ UNCHANGED <<stationVars, teventVars, queue, callback, arg, client, entry, known, owed, asked>>
        /\ job \in {"__network_change", "came_up", "_link_up_callback", "_link_down_callback"}
    OBVIOUS
  <1>2. (\A k \in Job : Queued(k)' = Queued(k)) /\ (ChangeBehindLoss' = ChangeBehindLoss)
    BY <1>1 DEF Queued, ChangeBehindLoss
  <1>3. Fields' /\ Table'
    <2>1. Fields'
      BY <1>1 DEF IInv, Fields
    <2>2. Table'
      BY <1>1 DEF IInv, Table, Overwritten
    <2>3. QED
      BY <2>1, <2>2
  <1>4. Worker'
    BY <1>1, NetworkConstants DEF IInv, Worker
  <1>5. Retry' /\ Trying'
    BY <1>1, <1>2 DEF IInv, Retry, Trying, Job
  <1>6. Real'
    BY <1>1, <1>2 DEF IInv, Real, Job
  <1>7. Noticed'
    BY <1>1, <1>2 DEF IInv, Noticed, Job
  <1>8. ClientsKnow'
    <2>1. up' = up \/ (job' = "call_callback" /\ slot' = 1)
      BY DEF IInv, Fields
    <2>2. CASE up' = up
      BY <1>1, <2>2 DEF IInv, ClientsKnow, Overwritten
    <2>3. CASE job' = "call_callback" /\ slot' = 1
      BY <2>3 DEF ClientsKnow, Slot
    <2>4. QED
      BY <2>1, <2>2, <2>3
  <1>9. QED
    BY <1>3, <1>4, <1>5, <1>6, <1>7, <1>8 DEF IInv

\* A call sets the flag of the client whose entry it has come to.
LEMMA CallInv == ASSUME IInv, call_callback PROVE IInv'
  <1> USE DEF netVars, teventVars, tableVars, clientVars, stationVars
  <1>1. /\ UNCHANGED <<stationVars, teventVars, queue, assoc, up, callback, arg, client, entry, known, asked>>
        /\ job = "call_callback" /\ job' \in {"call_callback", "idle"}
        /\ owed' = owed \cup ({arg[slot]} \ {NULL})
        /\ slot \in Slot
    BY DEF call_callback, IInv, Worker, Slot
  <1>2. (\A k \in Job : Queued(k)' = Queued(k)) /\ (ChangeBehindLoss' = ChangeBehindLoss)
    BY <1>1 DEF Queued, ChangeBehindLoss
  <1>3. Fields' /\ Retry' /\ Trying' /\ Real' /\ Noticed'
    BY <1>1, <1>2 DEF IInv, Fields, Retry, Trying, Real, Noticed, Job
  <1>4. Worker'
    BY <1>1, NetworkConstants DEF IInv, Worker, call_callback
  <1>5. Table'
    BY <1>1 DEF IInv, Table, Overwritten
  <1>6. ClientsKnow'
    <2> SUFFICES ASSUME NEW c \in Client, client[c] = "ready", known[c] # up,
                        entry[c] \in Slot, ~Overwritten(c)
                 PROVE  c \in owed' \/ (job' = "call_callback" /\ slot' <= entry[c])
      BY <1>1 DEF ClientsKnow, Overwritten
    <2>1. c \in owed \/ slot <= entry[c]
      BY DEF IInv, ClientsKnow
    <2>2. CASE c \in owed
      BY <1>1, <2>2
    <2>3. CASE slot = entry[c]
      <3>1. arg[slot] = c /\ c # NULL
        BY <2>3, NetworkConstants DEF IInv, Table, Told
      <3>2. QED
        BY <1>1, <3>1
    <2>4. CASE slot < entry[c]
      BY <1>1, <2>4, NetworkConstants DEF call_callback, Slot
    <2>5. QED
      BY <1>1, <2>1, <2>2, <2>3, <2>4, NetworkConstants DEF Slot
  <1>7. QED
    BY <1>3, <1>4, <1>5, <1>6 DEF IInv

\* Starting and stopping.
LEMMA StopInv == ASSUME IInv, a_network_stop \/ network_down \/ a_network_start PROVE IInv'
  <1> USE DEF netVars, teventVars, tableVars, clientVars, workerVars
  <1> USE DEF a_network_stop, network_down, a_network_start
  <1>1. UNCHANGED <<job, slot, function, assoc, up, callback, arg, client, entry, known, owed, reporting>>
    BY DEF stationVars
  <1>2. queue \in Seq(Job)
    BY DEF IInv, Worker
  <1>3. /\ queue' \in Seq(Job)
        /\ \A k \in Job : Queued(k) => Queued(k)'
        /\ network_down /\ link => Queued("_link_down_callback")'
        /\ ~network_down => (Queued("_link_down_callback")' <=> Queued("_link_down_callback"))
        /\ ~network_down /\ ChangeBehindLoss => ChangeBehindLoss'
        /\ a_network_start => Queued("_network_init")'
    <2>1. CASE a_network_stop \/ (network_down /\ ~link)
      <3>1. queue' = queue /\ ~a_network_start
        BY <2>1
      <3>2. QED
        BY <1>2, <2>1, <3>1 DEF Queued, ChangeBehindLoss
    <2>2. CASE network_down /\ link
      <3>1. Send("_link_down_callback") /\ ~a_network_start
        BY <2>2
      <3>2. QED
        BY <1>2, <2>2, <3>1, SendQueue DEF Job
    <2>3. CASE a_network_start
      <3>1. Send("_network_init") /\ ~network_down
        BY <2>3
      <3>2. QED
        BY <1>2, <2>3, <3>1, SendQueue DEF Job
    <2>4. QED
      BY <2>1, <2>2, <2>3
  <1>4. Fields'
    BY <1>1 DEF IInv, Fields, stationVars
  <1>5. Worker' /\ Table' /\ ClientsKnow'
    BY <1>1, <1>3 DEF IInv, Worker, Table, ClientsKnow, Overwritten
  <1>6. Retry'
    <2>1. retry' => retry
      OBVIOUS
    <2>2. QED
      BY <1>1, <2>1 DEF IInv, Retry
  <1>7. Trying'
    BY <1>1, <1>3 DEF IInv, Trying
  <1>8. Real' /\ Noticed'
    BY <1>1, <1>3 DEF IInv, Real, Noticed, stationVars, Job
  <1>9. QED
    BY <1>4, <1>5, <1>6, <1>7, <1>8 DEF IInv

\* A client that goes on with its registration overwrites no other's exemption.
LEMMA StillOverwritten ==
    ASSUME Table, NEW c \in Client,
           \A d \in Client : client[d] \in Wrote => client'[d] \in Wrote /\ entry'[d] = entry[d],
           client[c] \in Wrote, Overwritten(c)
    PROVE  Overwritten(c)'
  BY DEF Overwritten, Wrote, Table

\* Registering: an entry is found free, its callback and its arg are written, and
\* a_net.up is read.
LEMMA RegisterInv ==
    ASSUME IInv, NEW c \in Client,
           \/ a_network_register_callback(c) \/ table_full(c) \/ write_callback(c)
           \/ write_arg(c) \/ client_ready(c) \/ event_net_change(c)
    PROVE  IInv'
  <1> USE DEF netVars, teventVars, tableVars, clientVars, stationVars, workerVars
  <1>1. UNCHANGED <<stationVars, workerVars, teventVars, netVars, asked>>
    BY DEF a_network_register_callback, table_full, write_callback, write_arg, client_ready,
           event_net_change
  <1>2. (\A k \in Job : Queued(k)' = Queued(k)) /\ (ChangeBehindLoss' = ChangeBehindLoss)
    BY <1>1 DEF Queued, ChangeBehindLoss
  <1>3. Fields' /\ Worker' /\ Retry' /\ Trying' /\ Real' /\ Noticed'
    BY <1>1, <1>2 DEF IInv, Fields, Worker, Retry, Trying, Real, Noticed, Job
  <1>4. up \in BOOLEAN /\ c # NULL /\ Table /\ ClientsKnow
    BY NetworkConstants DEF IInv, Fields
  <1>5. \A i \in Slot : i \in 0 .. TableSize + 1
    BY NetworkConstants DEF Slot
  <1>6. TableSize + 1 \in 0 .. TableSize + 1 /\ TableSize + 1 \notin Slot
    BY NetworkConstants DEF Slot
  <1>7. /\ client' \in [Client -> {"new", "taking"} \cup Wrote]
        /\ entry' \in [Client -> 0 .. TableSize + 1]
        /\ \A d \in Client \ {c} : client'[d] = client[d] /\ entry'[d] = entry[d]
        /\ client[c] \in Wrote => client'[c] \in Wrote /\ entry'[c] = entry[c]
    <2>1. client \in [Client -> {"new", "taking"} \cup Wrote] /\ entry \in [Client -> 0 .. TableSize + 1]
      BY <1>4 DEF Table
    <2>2. CASE a_network_register_callback(c)
      BY <1>5, <2>1, <2>2 DEF a_network_register_callback, Wrote, Free
    <2>3. CASE table_full(c)
      BY <1>6, <2>1, <2>3 DEF table_full, Wrote
    <2>4. CASE write_callback(c) \/ write_arg(c) \/ client_ready(c) \/ event_net_change(c)
      BY <2>1, <2>4 DEF write_callback, write_arg, client_ready, event_net_change, Wrote
    <2>5. QED
      BY <2>2, <2>3, <2>4
  <1>8. \A d \in Client : client[d] \in Wrote /\ Overwritten(d) => Overwritten(d)'
    BY <1>4, <1>7, StillOverwritten
  <1>9. Table'
    <2>1. CASE a_network_register_callback(c)
      <3>1. /\ client[c] = "new" /\ client'[c] = "taking" /\ entry'[c] \in Slot
            /\ UNCHANGED <<callback, arg, known, owed>>
        BY <1>4, <2>1 DEF a_network_register_callback, Table, Free
      <3>2. QED
        BY <1>4, <1>7, <1>8, <3>1 DEF Table, Wrote, Told
    <2>2. CASE table_full(c)
      <3>1. /\ client[c] = "new" /\ client'[c] = "registered" /\ entry'[c] \notin Slot
            /\ UNCHANGED <<callback, arg, known, owed>>
        BY <1>4, <1>6, <2>2 DEF table_full, Table
      <3>2. QED
        BY <1>4, <1>7, <1>8, <3>1 DEF Table, Wrote, Told
    <2>3. CASE write_callback(c)
      <3>1. /\ client[c] = "taking" /\ client'[c] = "registering" /\ entry'[c] = entry[c]
            /\ entry[c] \in Slot
            /\ callback' \in [Slot -> Client \cup {NULL}] /\ callback'[entry[c]] = c
            /\ \A i \in Slot : i # entry[c] => callback'[i] = callback[i]
            /\ UNCHANGED <<arg, known, owed>>
        BY <1>4, <2>3 DEF write_callback, Table
      <3>2. QED
        BY <1>4, <1>7, <1>8, <3>1 DEF Table, Wrote, Told
    <2>4. CASE write_arg(c)
      <3>1. /\ client[c] = "registering" /\ client'[c] = "registered" /\ entry'[c] = entry[c]
            /\ entry[c] \in Slot /\ callback[entry[c]] # NULL
            /\ arg' \in [Slot -> Client \cup {NULL}] /\ arg'[entry[c]] = c
            /\ \A i \in Slot : i # entry[c] => arg'[i] = arg[i]
            /\ UNCHANGED <<callback, known, owed>>
        BY <1>4, <2>4 DEF write_arg, Table
      <3>2. \A d \in Client : d # c /\ client[d] \in Told /\ entry[d] = entry[c] => Overwritten(d)'
        BY <1>7, <3>1 DEF Overwritten, Told
      <3>3. QED
        BY <1>4, <1>7, <1>8, <3>1, <3>2 DEF Table, Wrote, Told
    <2>5. CASE client_ready(c)
      <3>1. /\ client[c] = "registered" /\ client'[c] = "ready" /\ entry'[c] = entry[c]
            /\ owed' \subseteq Client /\ UNCHANGED <<callback, arg, known>>
        BY <1>4, <2>5 DEF client_ready, Table
      <3>2. QED
        BY <1>4, <1>7, <1>8, <3>1 DEF Table, Wrote, Told
    <2>6. CASE event_net_change(c)
      <3>1. /\ client[c] = "ready" /\ UNCHANGED <<client, entry, callback, arg>>
            /\ owed' \subseteq Client /\ known' \in [Client -> BOOLEAN]
            /\ \A d \in Client \ {c} : known'[d] = known[d]
        BY <1>4, <2>6 DEF event_net_change, Table
      <3>2. QED
        BY <1>4, <1>7, <1>8, <3>1 DEF Table, Wrote, Told
    <2>7. QED
      BY <2>1, <2>2, <2>3, <2>4, <2>5, <2>6
  <1>10. ClientsKnow'
    <2> SUFFICES ASSUME NEW d \in Client, client'[d] = "ready", known'[d] # up, entry'[d] \in Slot,
                        ~Overwritten(d)'
                 PROVE  d \in owed' \/ (job = "call_callback" /\ slot <= entry'[d])
      BY <1>1 DEF ClientsKnow
    <2>1. CASE client[d] = "ready" /\ known'[d] = known[d] /\ (d \in owed => d \in owed')
      <3>1. entry'[d] = entry[d] /\ ~Overwritten(d)
        BY <1>7, <1>8, <2>1 DEF Wrote
      <3>2. QED
        BY <1>4, <2>1, <3>1 DEF ClientsKnow
    <2>2. CASE d = c /\ client_ready(c)
      BY <1>1, <1>4, <2>2 DEF client_ready, Table
    <2>3. CASE d = c /\ event_net_change(c)
      BY <1>4, <2>3 DEF event_net_change, Table
    <2>4. \/ client[d] = "ready" /\ known'[d] = known[d] /\ (d \in owed => d \in owed')
          \/ d = c /\ (client_ready(c) \/ event_net_change(c))
      <3>1. CASE d # c
        BY <1>4, <1>7, <3>1 DEF a_network_register_callback, table_full, write_callback, write_arg,
                               client_ready, event_net_change, Table
      <3>2. CASE d = c
        BY <1>4, <1>7, <3>2 DEF a_network_register_callback, table_full, write_callback, write_arg, Table
      <3>3. QED
        BY <3>1, <3>2
    <2>5. QED
      BY <2>1, <2>2, <2>3, <2>4
  <1>11. QED
    BY <1>3, <1>9, <1>10 DEF IInv

\* Every step keeps the eight parts.
THEOREM NetworkInvHolds == NetworkSpec => []IInv
  <1>1. IInv /\ [NetworkNext]_networkVars => IInv'
    <2> SUFFICES ASSUME IInv, [NetworkNext]_networkVars PROVE IInv'
      OBVIOUS
    <2>1. CASE NetworkNext
      BY <2>1, WicedInv, TakeInv, JoinInv, ChangeInv, CallInv, StopInv, RegisterInv
      DEF NetworkNext, WorkerStep, ClientStep
    <2>2. CASE UNCHANGED networkVars
      BY <2>2 DEF networkVars, stationVars, workerVars, teventVars, netVars, tableVars, clientVars,
                  IInv, Fields, Worker, Table, Retry, Trying, Real, Noticed, ClientsKnow, Overwritten,
                  Queued, ChangeBehindLoss
    <2>3. QED
      BY <2>1, <2>2
  <1>2. QED
    BY <1>1, InitInv, PTL DEF NetworkSpec

\* network.c: the fields have their types and no client has two entries.
THEOREM NetworkTypesHold == NetworkSpec => []NetworkTypeOK
  <1>1. IInv => NetworkTypeOK
    BY DEF IInv, Fields, Worker, Table, NetworkTypeOK
  <1>2. QED
    BY <1>1, NetworkInvHolds, PTL

\* network.c: a_net.up is true only while the station is associated or the callback
\* of the lost link is queued.
THEOREM UpIsRealHolds == NetworkSpec => []UpIsReal
  <1>1. IInv => UpIsReal
    BY DEF IInv, Real, UpIsReal, Pending, Queued
  <1>2. QED
    BY <1>1, NetworkInvHolds, PTL

\* network.c: a station with an address is up, or its change is still to be handled.
THEOREM UpIsNoticedHolds == NetworkSpec => []UpIsNoticed
  <1>1. IInv => UpIsNoticed
    <2>1. ChangeBehindLoss => \E i \in DOMAIN queue : queue[i] = "__network_change"
      BY DEF ChangeBehindLoss
    <2>2. QED
      BY <2>1 DEF IInv, Noticed, UpIsNoticed, Pending, Queued
  <1>2. QED
    BY <1>1, NetworkInvHolds, PTL

\* network.c and sys_mqtt.c: a client that registers at any time misses no change of
\* a_net.up unless it found the table full or shares its entry with another one.
THEOREM ClientsKnowHolds == NetworkSpec => []ClientsKnow
  <1>1. IInv => ClientsKnow
    BY DEF IInv
  <1>2. QED
    BY <1>1, NetworkInvHolds, PTL

\* network.c: an unjoined network that was not stopped is still being tried.
THEOREM KeepsTryingHolds == NetworkSpec => []KeepsTrying
  <1>1. IInv => KeepsTrying
    BY DEF IInv, Trying, KeepsTrying, Pending, Queued
  <1>2. QED
    BY <1>1, NetworkInvHolds, PTL

\* network.c: the timed event of the retry is never registered twice.
THEOREM RetryRegisteredOnceHolds == NetworkSpec => RetryRegisteredOnce
  <1>1. IInv /\ [NetworkNext]_networkVars => [join_failed => ~retry]_networkVars
    BY DEF IInv, Retry, join_failed
  <1>2. QED
    BY <1>1, NetworkInvHolds, PTL DEF NetworkSpec, RetryRegisteredOnce
=============================================================================
