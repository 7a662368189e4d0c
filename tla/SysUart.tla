------------------------------ MODULE SysUart ------------------------------
(***************************************************************************)
(* src/common/sys_uart.c: a worker thread blocks until a byte is there,    *)
(* keeps it in last_data and sets a flag; the flag's handler takes what    *)
(* else has arrived, hands everything to the application and sends the     *)
(* worker back to wait.  The loop is what LoopPromise promises.            *)
(***************************************************************************)
EXTENDS Naturals, Sequences

CONSTANTS
    RingSize,       \* bytes the driver's ring buffer holds
    MaxBytes        \* bound: bytes that arrive

ASSUME UartConstants == RingSize \in Nat \ {0} /\ MaxBytes \in Nat

(***************************************************************************)
(* Bytes are numbered as they arrive, 1 and up; 0 is no byte.              *)
(***************************************************************************)
VARIABLES
    arrived,        \* bytes that have arrived on the line
    lost,           \* those the ring buffer had no room for
    rx_buffer,      \* the ring buffer
    last_data,
    jobs,           \* recv_worker jobs sent and not yet begun
    receiving,      \* the worker thread is in wiced_uart_receive_bytes
    uart_owed,      \* the flag is set and not yet dispatched
    buf,            \* the handler's buffer, <<>> when it is not running
    delivered       \* bytes handed to fn, in order

threadVars == <<jobs, receiving>>
uartVars == <<arrived, lost, rx_buffer, last_data, threadVars, uart_owed, buf,
              delivered>>

\* a_sys_uart_init and a_sys_uart_register_event
UartInit ==
    /\ arrived = 0 /\ lost = {} /\ rx_buffer = <<>>
    /\ last_data = 0
    /\ jobs = 1 /\ receiving = FALSE
    /\ uart_owed = FALSE
    /\ buf = <<>>
    /\ delivered = <<>>

byte_arrives ==
    /\ arrived < MaxBytes
    /\ arrived' = arrived + 1
    /\ IF Len(rx_buffer) < RingSize
       THEN rx_buffer' = Append(rx_buffer, arrived') /\ UNCHANGED lost
       ELSE lost' = lost \cup {arrived'} /\ UNCHANGED rx_buffer
    /\ UNCHANGED <<last_data, threadVars, uart_owed, buf, delivered>>

begin_job ==
    /\ jobs > 0 /\ ~receiving
    /\ jobs' = jobs - 1
    /\ receiving' = TRUE
    /\ UNCHANGED <<arrived, lost, rx_buffer, last_data, uart_owed, buf, delivered>>

\* recv_worker waits for ever for one byte, then sets the flag.
recv_worker ==
    /\ receiving
    /\ rx_buffer # <<>>
    /\ last_data' = Head(rx_buffer)
    /\ rx_buffer' = Tail(rx_buffer)
    /\ receiving' = FALSE
    /\ uart_owed' = TRUE
    /\ UNCHANGED <<arrived, lost, jobs, buf, delivered>>

send_worker_first ==
    /\ uart_owed /\ buf = <<>>
    /\ uart_owed' = FALSE
    /\ buf' = <<last_data>>
    /\ jobs' = jobs + 1
    /\ UNCHANGED <<arrived, lost, rx_buffer, last_data, receiving, delivered>>

\* recv_callback begins with the worker's byte,
uart_recv_callback ==
    /\ uart_owed /\ buf = <<>>
    /\ uart_owed' = FALSE
    /\ buf' = <<last_data>>
    /\ UNCHANGED <<arrived, lost, rx_buffer, last_data, threadVars, delivered>>

\* takes bytes while there are any,
drain ==
    /\ buf # <<>>
    /\ rx_buffer # <<>>
    /\ buf' = Append(buf, Head(rx_buffer))
    /\ rx_buffer' = Tail(rx_buffer)
    /\ UNCHANGED <<arrived, lost, last_data, threadVars, uart_owed, delivered>>

forget_worker ==
    /\ buf # <<>>
    /\ rx_buffer = <<>>
    /\ delivered' = delivered \o buf
    /\ buf' = <<>>
    /\ UNCHANGED <<arrived, lost, rx_buffer, last_data, threadVars, uart_owed>>

\* and hands them over; the queue has room for the worker's next job.
hand_over ==
    /\ buf # <<>>
    /\ rx_buffer = <<>>
    /\ delivered' = delivered \o buf
    /\ buf' = <<>>
    /\ jobs' = jobs + 1
    /\ UNCHANGED <<arrived, lost, rx_buffer, last_data, receiving, uart_owed>>

Worker == begin_job \/ recv_worker
Callback == uart_recv_callback \/ drain \/ hand_over

UartNext == byte_arrives \/ Worker \/ Callback

\* Both threads are scheduled, and the loop calls whom it owes a call.
UartSpec == UartInit /\ [][UartNext]_uartVars
                     /\ WF_uartVars(Worker) /\ WF_uartVars(Callback)

-----------------------------------------------------------------------------
Held == IF uart_owed THEN <<last_data>> ELSE buf
Bytes == delivered \o Held \o rx_buffer

\* Every variable has its type; the worker's queue has one slot.
UartTypeOK ==
    /\ arrived \in 0 .. MaxBytes /\ lost \subseteq 1 .. arrived
    /\ Len(rx_buffer) <= RingSize
    /\ last_data \in 0 .. arrived
    /\ jobs \in 0 .. 1
    /\ receiving \in BOOLEAN /\ uart_owed \in BOOLEAN

\* The two threads hand the byte in last_data to each other: every byte that the
\* driver accepted is delivered, held or still in the ring buffer, exactly once
\* and in the order of arrival, so neither thread overtakes the other or writes
\* over a byte that was not taken.
BytesInOrder ==
    /\ {Bytes[i] : i \in DOMAIN Bytes} = (1 .. arrived) \ lost
    /\ \A i, j \in DOMAIN Bytes : i < j => Bytes[i] < Bytes[j]

\* Each byte the driver accepted reaches the application.
BytesDelivered ==
    \A b \in 1 .. MaxBytes :
        b \in 1 .. arrived /\ b \notin lost
            ~> \E i \in DOMAIN delivered : delivered[i] = b
=============================================================================
