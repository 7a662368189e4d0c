------------------------------ MODULE Network ------------------------------
(***************************************************************************)
(* src/common/network.c: the networking worker thread joins the network,   *)
(* tries again later when that fails, keeps a_net.up and calls the         *)
(* registered callbacks when it changes.  Client threads start and stop    *)
(* the network and register callbacks as a_sys_mqtt_init does: register,   *)
(* then read a_net.up (src/common/sys_mqtt.c:299 and 308).                 *)
(*                                                                         *)
(* WICED is external.  It calls the link callbacks, which the source lets  *)
(* write a_net without a lock, on the worker thread, and the address       *)
(* callback on a thread of its own.                                        *)
(***************************************************************************)
EXTENDS Naturals, Sequences

CONSTANTS
    Client,         \* owners of callbacks
    TableSize,      \* entries of callback_tbl
    QueueBound,     \* bound: jobs in the worker's queue when others send one
    NULL

ASSUME NetworkConstants ==
    /\ TableSize \in Nat \ {0} /\ QueueBound \in Nat \ {0}
    /\ NULL \notin Client

VARIABLES
    joined,         \* WICED: it keeps the station associated by itself
    link, address,  \* WICED: associated, and has an IPv4 address
    reporting,      \* WICED: _network_change has still to be called for a change
    queue,          \* jobs sent to the networking worker thread
    job,            \* where the worker thread stands
    slot,           \* call_callback's i
    retry,          \* WICED: a_net.tevent is registered
    function,       \* a_net.tevent.function is set
    assoc, up,      \* a_net
    callback, arg,  \* callback_tbl[i].callback and .arg, by their owner
    client,         \* where each client's initialisation stands
    entry,          \* the i with which it left the loop of the registration
    owed,           \* clients whose NET_CHANGE flag is set
    known,          \* what each client read a_net.up to be last
    asked           \* a_network_start or a_network_stop, which came last

stationVars == <<joined, link, address, reporting>>
teventVars == <<retry, function>>
netVars == <<assoc, up>>
workerVars == <<queue, job, slot>>
tableVars == <<callback, arg>>
clientVars == <<client, entry, known>>
networkVars == <<stationVars, workerVars, teventVars, netVars, tableVars,
                 clientVars, owed, asked>>

Slot == 1 .. TableSize
Job == {"_network_init", "__network_change", "_link_up_callback", "_link_down_callback"}

\* a_network_init
NetworkInit ==
    /\ joined = FALSE /\ link = FALSE /\ address = FALSE /\ reporting = FALSE
    /\ queue = <<"_network_init">> /\ job = "idle" /\ slot = 0
    /\ retry = FALSE /\ function = FALSE
    /\ assoc = FALSE /\ up = FALSE
    /\ callback = [i \in Slot |-> NULL] /\ arg = [i \in Slot |-> NULL]
    /\ client = [c \in Client |-> "new"] /\ entry = [c \in Client |-> 0]
    /\ owed = {}
    /\ known = [c \in Client |-> FALSE]
    /\ asked = "start"

Room == Len(queue) < QueueBound
Send(j) == queue' = Append(queue, j)

-----------------------------------------------------------------------------
(* WICED and the world *)

\* The address is forgotten later, when DHCP runs again.
link_lost ==
    /\ link /\ Room
    /\ link' = FALSE
    /\ Send("_link_down_callback")
    /\ UNCHANGED <<joined, address, reporting, job, slot, teventVars, netVars, tableVars,
                   clientVars, owed, asked>>

link_regained ==
    /\ joined /\ ~link /\ Room
    /\ link' = TRUE /\ address' = FALSE
    /\ Send("_link_up_callback")
    /\ UNCHANGED <<joined, reporting, job, slot, teventVars, netVars, tableVars,
                   clientVars, owed, asked>>

address_changes ==
    /\ link /\ ~reporting
    /\ address' = ~address
    /\ reporting' = TRUE
    /\ UNCHANGED <<joined, link, workerVars, teventVars, netVars, tableVars, clientVars,
                   owed, asked>>

\* It is called on the thread that changes the address, some time after that.
_network_change ==
    /\ reporting /\ Room
    /\ reporting' = FALSE
    /\ Send("__network_change")
    /\ UNCHANGED <<joined, link, address, job, slot, teventVars, netVars, tableVars,
                   clientVars, owed, asked>>

\* a_net.tevent is periodic: it stays registered.
retry_fires ==
    /\ retry /\ Room
    /\ Send("_network_init")
    /\ UNCHANGED <<stationVars, job, slot, teventVars, netVars, tableVars, clientVars,
                   owed, asked>>

-----------------------------------------------------------------------------
(* the worker thread *)

next_job ==
    /\ job = "idle"
    /\ queue # <<>>
    /\ job' = Head(queue)
    /\ queue' = Tail(queue)
    /\ UNCHANGED <<stationVars, slot, teventVars, netVars, tableVars, clientVars, owed,
                   asked>>

keep_retrying ==
    /\ job = "_network_init"
    /\ job' = "joining"
    /\ UNCHANGED <<stationVars, queue, slot, teventVars, netVars, tableVars, clientVars,
                   owed, asked>>

\* The retry that is waiting is taken back before the network is joined,
_network_init ==
    /\ job = "_network_init"
    /\ job' = "joining"
    /\ retry' = (retry /\ ~function)
    /\ UNCHANGED <<stationVars, queue, slot, function, netVars, tableVars, clientVars,
                   owed, asked>>

\* which either succeeds, and WICED reports a new address,
network_joined ==
    /\ job = "joining"
    /\ joined' = TRUE /\ link' = TRUE /\ address' = TRUE
    /\ assoc' = TRUE
    /\ reporting' = (reporting \/ ~link \/ ~address)
    /\ Send("__network_change")
    /\ job' = "idle"
    /\ UNCHANGED <<slot, teventVars, up, tableVars, clientVars, owed, asked>>

give_up ==
    /\ job = "joining"
    /\ job' = "idle"
    /\ UNCHANGED <<stationVars, queue, slot, teventVars, netVars, tableVars, clientVars,
                   owed, asked>>

\* or is tried again later.
join_failed ==
    /\ job = "joining"
    /\ ~joined
    /\ retry' = TRUE /\ function' = TRUE
    /\ job' = "idle"
    /\ UNCHANGED <<stationVars, queue, slot, netVars, tableVars, clientVars, owed, asked>>

check_address ==
    /\ job = "__network_change"
    /\ job' = IF address /\ ~up THEN "came_up" ELSE "idle"
    /\ UNCHANGED <<stationVars, queue, slot, teventVars, netVars, tableVars, clientVars,
                   owed, asked>>

check_assoc ==
    /\ job = "__network_change"
    /\ job' = IF assoc /\ address /\ ~up THEN "came_up" ELSE "idle"
    /\ UNCHANGED <<stationVars, queue, slot, teventVars, netVars, tableVars, clientVars,
                   owed, asked>>

\* The state of the station is read first; a_net.up is written afterwards.
__network_change ==
    /\ job = "__network_change"
    /\ job' = IF link /\ address /\ ~up THEN "came_up" ELSE "idle"
    /\ UNCHANGED <<stationVars, queue, slot, teventVars, netVars, tableVars, clientVars,
                   owed, asked>>

came_up ==
    /\ job = "came_up"
    /\ up' = TRUE
    /\ job' = "call_callback" /\ slot' = 1
    /\ UNCHANGED <<stationVars, queue, teventVars, assoc, tableVars, clientVars, owed,
                   asked>>

_link_up_callback ==
    /\ job = "_link_up_callback"
    /\ assoc' = TRUE
    /\ job' = "idle"
    /\ UNCHANGED <<stationVars, queue, slot, teventVars, up, tableVars, clientVars, owed,
                   asked>>

_link_down_callback ==
    /\ job = "_link_down_callback"
    /\ assoc' = FALSE
    /\ up' = FALSE
    /\ IF up THEN job' = "call_callback" /\ slot' = 1
       ELSE job' = "idle" /\ UNCHANGED slot
    /\ UNCHANGED <<stationVars, queue, teventVars, tableVars, clientVars, owed, asked>>

\* All clients register _net_event, which sets the flag of the client in arg; with
\* an arg that is not yet written it tells nobody.
call_callback ==
    /\ job = "call_callback"
    /\ owed' = owed \cup ({arg[slot]} \ {NULL})
    /\ IF slot < TableSize THEN slot' = slot + 1 /\ UNCHANGED job
       ELSE slot' = 0 /\ job' = "idle"
    /\ UNCHANGED <<stationVars, queue, teventVars, netVars, tableVars, clientVars, asked>>

-----------------------------------------------------------------------------
(* other threads *)

Free == {i \in Slot : callback[i] = NULL}

\* The loop ends at the first free entry.  Entries are never freed, so it is the
\* first one when the test of line 115 finds it.
a_network_register_callback(c) ==
    /\ client[c] = "new"
    /\ \E i \in Free :
          /\ \A j \in Free : i <= j
          /\ entry' = [entry EXCEPT ![c] = i]
    /\ client' = [client EXCEPT ![c] = "taking"]
    /\ UNCHANGED <<stationVars, workerVars, teventVars, netVars, tableVars, owed, known,
                   asked>>

\* Without one it ends behind the table, and clients ignore the result.
table_full(c) ==
    /\ client[c] = "new"
    /\ Free = {}
    /\ entry' = [entry EXCEPT ![c] = TableSize + 1]
    /\ client' = [client EXCEPT ![c] = "registered"]
    /\ UNCHANGED <<stationVars, workerVars, teventVars, netVars, tableVars, owed, known,
                   asked>>

\* Another thread may have taken the entry since the test.
write_callback(c) ==
    /\ client[c] = "taking"
    /\ callback' = [callback EXCEPT ![entry[c]] = c]
    /\ client' = [client EXCEPT ![c] = "registering"]
    /\ UNCHANGED <<stationVars, workerVars, teventVars, netVars, arg, entry, owed, known,
                   asked>>

write_arg(c) ==
    /\ client[c] = "registering"
    /\ arg' = [arg EXCEPT ![entry[c]] = c]
    /\ client' = [client EXCEPT ![c] = "registered"]
    /\ UNCHANGED <<stationVars, workerVars, teventVars, netVars, callback, entry, owed,
                   known, asked>>

ready_unread(c) ==
    /\ client[c] = "registered"
    /\ client' = [client EXCEPT ![c] = "ready"]
    /\ UNCHANGED <<stationVars, workerVars, teventVars, netVars, tableVars, entry, owed,
                   known, asked>>

\* if (a_network_is_up()), after the callback is registered
client_ready(c) ==
    /\ client[c] = "registered"
    /\ client' = [client EXCEPT ![c] = "ready"]
    /\ owed' = IF up THEN owed \cup {c} ELSE owed
    /\ UNCHANGED <<stationVars, workerVars, teventVars, netVars, tableVars, entry, known,
                   asked>>

\* The handler of the client's flag reads a_network_is_up.
event_net_change(c) ==
    /\ client[c] = "ready" /\ c \in owed
    /\ owed' = owed \ {c}
    /\ known' = [known EXCEPT ![c] = up]
    /\ UNCHANGED <<stationVars, workerVars, teventVars, netVars, tableVars, client, entry,
                   asked>>

\* The first half takes a waiting retry back,
a_network_stop ==
    /\ asked # "stopping"
    /\ asked' = "stopping"
    /\ retry' = (retry /\ ~function)
    /\ UNCHANGED <<stationVars, workerVars, function, netVars, tableVars, clientVars, owed>>

\* the second leaves the network.
network_down ==
    /\ asked = "stopping" /\ Room
    /\ joined' = FALSE /\ link' = FALSE /\ address' = FALSE
    /\ IF link THEN Send("_link_down_callback") ELSE UNCHANGED queue
    /\ asked' = "stop"
    /\ UNCHANGED <<reporting, job, slot, teventVars, netVars, tableVars, clientVars, owed>>

\* With a_network_stop before it, this is a_network_restart.
a_network_start ==
    /\ asked # "stopping" /\ Room
    /\ asked' = "start"
    /\ Send("_network_init")
    /\ UNCHANGED <<stationVars, job, slot, teventVars, netVars, tableVars, clientVars, owed>>

-----------------------------------------------------------------------------
WicedStep == link_lost \/ link_regained \/ address_changes \/ _network_change \/ retry_fires

WorkerStep ==
    \/ next_job
    \/ _network_init \/ network_joined \/ join_failed
    \/ __network_change \/ came_up
    \/ _link_up_callback \/ _link_down_callback
    \/ call_callback

ClientStep ==
    \/ \E c \in Client :
          \/ a_network_register_callback(c) \/ table_full(c)
          \/ write_callback(c) \/ write_arg(c)
          \/ client_ready(c) \/ event_net_change(c)
    \/ a_network_stop \/ network_down \/ a_network_start

NetworkNext == WicedStep \/ WorkerStep \/ ClientStep

NetworkSpec == NetworkInit /\ [][NetworkNext]_networkVars

-----------------------------------------------------------------------------
Pending(j) == job = j \/ \E i \in DOMAIN queue : queue[i] = j

\* Every variable has its type; no client has two entries.
NetworkTypeOK ==
    /\ {joined, link, address, reporting, retry, function, assoc, up} \subseteq BOOLEAN
    /\ asked \in {"start", "stopping", "stop"}
    /\ queue \in Seq(Job)
    /\ job \in Job \cup {"idle", "joining", "came_up", "call_callback"}
    /\ slot \in 0 .. TableSize
    /\ entry \in [Client -> 0 .. TableSize + 1]
    /\ \A i \in Slot : callback[i] # NULL => entry[callback[i]] = i
    /\ \A i \in Slot : arg[i] # NULL => entry[arg[i]] = i /\ callback[i] # NULL
    /\ owed \subseteq Client
    /\ known \in [Client -> BOOLEAN]

\* a_net.up is true only while the station is associated, or until the worker
\* comes to the callback of the link that was lost, although the link may be lost
\* between the reading of the station's state and the writing of a_net.up.
UpIsReal == up => link \/ Pending("_link_down_callback")

\* A station that is associated and has an address is not left unnoticed: a_net.up
\* is true or will be, although changes of the link and of the address are
\* reported by different threads and the worker comes to them later.
UpIsNoticed ==
    link /\ address =>
        \/ up /\ ~Pending("_link_down_callback")
        \/ reporting \/ Pending("__network_change") \/ job = "came_up"

\* Another client has written its callback to c's entry, too.
Overwritten(c) ==
    \E d \in Client \ {c} :
        entry[d] = entry[c] /\ client[d] \in {"registering", "registered", "ready"}

\* A client that has initialised and owes its handler no call knows a_net.up, or
\* call_callback is on its way to its entry: no change is missed by a client that
\* registers while the worker calls the others.  Two clients may be lost for good:
\* one that found the table full (network.c:121), and one of two of which each
\* found the same entry free before the other had taken it (network.c:115).
ClientsKnow ==
    \A c \in Client :
        client[c] = "ready" /\ known[c] # up =>
            \/ c \in owed
            \/ job = "call_callback" /\ slot <= entry[c]
            \/ entry[c] \notin Slot
            \/ Overwritten(c)

\* The retry is one periodic timed event with one entry in WICED's list: it is
\* never registered while it is registered, whatever starts, stops and queued
\* retries come together.
RetryRegisteredOnce == [][join_failed => ~retry]_networkVars

\* Unless a_network_stop came last, a network that is not joined is being joined
\* or will be: no failure, no retry taken back by another _network_init and no
\* restart in the middle of one ends the attempts.
KeepsTrying ==
    asked = "start" =>
        joined \/ retry \/ Pending("_network_init") \/ job = "joining"
=============================================================================
