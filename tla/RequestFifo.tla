---------------------------- MODULE RequestFifo ----------------------------
(***************************************************************************)
(* What a MixedServer promises about the datagrams its security layer has  *)
(* accepted: they wait in a bounded queue and are served one per poll(),   *)
(* in the order in which they arrived.                                     *)
(***************************************************************************)
EXTENDS Integers, Sequences

CONSTANTS Datagrams,  \* records with a field num, the order of arrival
          Capacity    \* PHP_BACNET_PENDING_PDU_CAPACITY

VARIABLES queue,      \* accepted, not yet served
          served      \* handed to the request processing of poll()

vars == <<queue, served>>

Newest(d) ==
    /\ \A i \in DOMAIN queue : queue[i].num < d.num
    /\ \A i \in DOMAIN served : served[i].num < d.num

Init == queue = <<>> /\ served = <<>>

\* A datagram is accepted while a client call waits.
Accept(d) ==
    /\ Len(queue) < Capacity
    /\ Newest(d)
    /\ queue' = Append(queue, d)
    /\ UNCHANGED served

\* poll() takes the oldest queued datagram.
ServeQueued ==
    /\ queue # <<>>
    /\ served' = Append(served, Head(queue))
    /\ queue' = Tail(queue)

\* poll() takes a datagram from the socket; nobody is waiting in the queue.
ServeArrival(d) ==
    /\ queue = <<>>
    /\ Newest(d)
    /\ served' = Append(served, d)
    /\ UNCHANGED queue

Next == ServeQueued \/ \E d \in Datagrams : Accept(d) \/ ServeArrival(d)

Spec == Init /\ [][Next]_vars

-----------------------------------------------------------------------------
\* Queue and history hold datagrams, and the queue never exceeds its capacity.
TypeOK ==
    /\ queue \in Seq(Datagrams) /\ Len(queue) <= Capacity
    /\ served \in Seq(Datagrams)

Increasing(s) == \A i, j \in DOMAIN s : i < j => s[i].num < s[j].num

\* Nothing overtakes: what was served, followed by what still waits, is in the
\* order of arrival (pending_pdus ring and Server::poll).
ServedInOrder ==
    /\ Increasing(served)
    /\ Increasing(queue)
    /\ \A i \in DOMAIN served, j \in DOMAIN queue : served[i].num < queue[j].num
=============================================================================
