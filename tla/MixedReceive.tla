---------------------------- MODULE MixedReceive ----------------------------
(***************************************************************************)
(* The receive path of Bacnet\MixedServer.  One socket serves both roles:  *)
(* while a client call (readProperty, writeProperty, whoIs) waits, requests *)
(* of other devices pass the security layer and are put into a ring of     *)
(* pending PDUs; Server::poll serves the ring before it reads the socket.  *)
(* A poll may run a PHP callback, which may call the client or poll again. *)
(*                                                                         *)
(* The network is external: it decides what arrives and when; what is lost *)
(* never arrives.  Rate limits and blocks of the security layer appear as  *)
(* a free choice to reject; ServerSecurity models them.  Invoke ids are    *)
(* abstracted to the call they belong to; ClientCalls models their reuse.  *)
(***************************************************************************)
EXTENDS Integers, Sequences, FiniteSets

CONSTANTS
    Peers,        \* other devices
    Capacity,     \* PHP_BACNET_PENDING_PDU_CAPACITY (32)
    MaxDevices,   \* PHP_BACNET_MAX_COLLECTED_DEVICES
    MaxArrivals, MaxCalls, MaxDepth   \* bounds

ASSUME CapacityAssumption == Capacity \in Nat \ {0}
ASSUME BoundsAssumption == {MaxDevices, MaxArrivals, MaxCalls, MaxDepth} \subseteq Nat

VARIABLES
    socket,    \* datagrams received by the kernel, oldest first
    arrived,   \* number of datagrams that have arrived
    pending_head, pending_count, pending_pdus,   \* the ring
    stack,     \* the call stack: waiting calls and poll() callbacks
    calls,     \* number of client calls made
    collected, \* devices collected by the running discovery
    allowed,   \* sources the ACL lets through
    accepted_packets, drops, queue_overflows,    \* stats (drops: ACL, rate, malformed)
    served,    \* history: datagrams handed to the request processing of poll()
    discarded  \* history: number of datagrams received and thrown away

ringVars == <<pending_head, pending_count, pending_pdus>>
statVars == <<accepted_packets, drops, queue_overflows>>
histVars == <<served, discarded>>
callVars == <<calls, collected>>
vars == <<socket, arrived, pending_head, pending_count, pending_pdus, stack, calls, collected,
          allowed, accepted_packets, drops, queue_overflows, served, discarded>>

Kinds == {"request", "answer", "i-am", "undecodable"}
Datagram == [num : 1..MaxArrivals, src : Peers, kind : Kinds, call : 0..MaxCalls]
Frame == [kind : {"unicast", "discovery", "poll"}, call : 0..MaxCalls]

Top == stack[Len(stack)]
Waiting == stack # <<>> /\ Top.kind # "poll"

\* PHP code runs: the event loop or a callback of poll().
Script == ~Waiting

Push(kind, n) == stack' = Append(stack, [kind |-> kind, call |-> n])
Return == stack' = SubSeq(stack, 1, Len(stack) - 1)

-----------------------------------------------------------------------------
(* The network (external).  A reply answers a call made before.            *)

Arrive(p, k, n) ==
    /\ arrived < MaxArrivals
    /\ k = "answer" <=> n > 0
    /\ n <= calls
    /\ arrived' = arrived + 1
    /\ socket' = Append(socket, [num |-> arrived + 1, src |-> p, kind |-> k, call |-> n])
    /\ UNCHANGED <<ringVars, stack, callVars, allowed, statVars, histVars>>

\* bip_receive: the oldest datagram, if there is one.
Oldest == {socket[i] : i \in DOMAIN socket \cap {1}}
Received(d) == d \in Oldest /\ socket' = Tail(socket)

-----------------------------------------------------------------------------
(* The ring of pending PDUs.                                               *)

RingIndex(i) == (pending_head + i) % Capacity
Contents == [i \in 1..pending_count |-> pending_pdus[RingIndex(i - 1)]]

\* php_bacnet_client_queue_pdu, when the ring has room.
QueuePdu(d) ==
    /\ pending_pdus' = [pending_pdus EXCEPT ![RingIndex(pending_count)] = d]
    /\ pending_count' = pending_count + 1
    /\ UNCHANGED pending_head

\* Mutant of PopPdu: the head does not wrap.
PopPduNoWrap ==
    /\ pending_head' = pending_head + 1
    /\ pending_count' = pending_count - 1
    /\ UNCHANGED pending_pdus

\* php_bacnet_client_pop_pdu, when the ring holds a PDU.
PopPdu ==
    /\ pending_head' = RingIndex(1)
    /\ pending_count' = pending_count - 1
    /\ UNCHANGED pending_pdus

-----------------------------------------------------------------------------
(* Client calls on the shared socket.                                      *)

StartCall(kind) ==
    /\ Script
    /\ calls < MaxCalls
    /\ Len(stack) < MaxDepth
    /\ calls' = calls + 1
    /\ Push(kind, calls + 1)
    /\ collected' = {}
    /\ UNCHANGED <<socket, arrived, ringVars, allowed, statVars, histVars>>

Expected(d) == \/ Top.kind = "unicast" /\ d.kind = "answer" /\ d.call = Top.call
               \/ Top.kind = "discovery" /\ d.kind = "i-am"

\* The loop conditions of send_and_wait and broadcast_and_collect.
Listening == Waiting /\ (Top.kind = "discovery" => Cardinality(collected) < MaxDevices)

\* The reply of the waiting call: a unicast call ends with it.
CallAnswered(d) ==
    /\ Listening
    /\ Received(d)
    /\ Expected(d)
    /\ IF Top.kind = "unicast" THEN Return /\ UNCHANGED collected
                               ELSE collected' = collected \cup {d.src} /\ UNCHANGED stack
    /\ UNCHANGED <<arrived, ringVars, calls, allowed, statVars, histVars>>

\* The NPDU cannot be decoded or is a network layer message: skipped.
CallSkips(d) ==
    /\ Listening
    /\ Received(d)
    /\ d.kind = "undecodable"
    /\ discarded' = discarded + 1
    /\ UNCHANGED <<arrived, ringVars, stack, callVars, allowed, statVars, served>>

\* Anything else goes to php_bacnet_mixed_queue_unsolicited.
Unsolicited(d) ==
    /\ Listening
    /\ Received(d)
    /\ d.kind # "undecodable" /\ ~Expected(d)

Reject == /\ drops' = drops + 1
          /\ discarded' = discarded + 1
          /\ UNCHANGED <<accepted_packets, queue_overflows, served>>

CallRejects(d) ==
    /\ Unsolicited(d)
    /\ Reject
    /\ UNCHANGED <<arrived, ringVars, stack, callVars, allowed>>

CallQueues(d) ==
    /\ Unsolicited(d)
    /\ d.src \in allowed
    /\ accepted_packets' = accepted_packets + 1
    /\ pending_count < Capacity
    /\ QueuePdu(d)
    /\ UNCHANGED <<arrived, stack, callVars, allowed, drops, queue_overflows, histVars>>

\* Mutant of CallOverflows: the overflow is not counted.
CallOverflowsUncounted(d) ==
    /\ Unsolicited(d)
    /\ d.src \in allowed
    /\ accepted_packets' = accepted_packets + 1
    /\ pending_count = Capacity
    /\ discarded' = discarded + 1
    /\ UNCHANGED <<arrived, ringVars, stack, callVars, allowed, drops, queue_overflows, served>>

CallOverflows(d) ==
    /\ Unsolicited(d)
    /\ d.src \in allowed
    /\ accepted_packets' = accepted_packets + 1
    /\ pending_count = Capacity
    /\ queue_overflows' = queue_overflows + 1
    /\ discarded' = discarded + 1
    /\ UNCHANGED <<arrived, ringVars, stack, callVars, allowed, drops, served>>

\* Mutant of CallTimeout: a discovery waits until it has found enough devices.
CallTimeoutUnicast ==
    /\ Waiting
    /\ Top.kind = "discovery" => Cardinality(collected) = MaxDevices
    /\ Return
    /\ UNCHANGED <<socket, arrived, ringVars, callVars, allowed, statVars, histVars>>

\* The deadline passes (or a discovery has collected enough devices).
CallTimeout ==
    /\ Waiting
    /\ Return
    /\ UNCHANGED <<socket, arrived, ringVars, callVars, allowed, statVars, histVars>>

-----------------------------------------------------------------------------
(* Server::poll.  Processing a request runs a PHP callback; other PDUs are *)
(* looked at and ignored.                                                  *)

CanPoll == Script /\ Len(stack) < MaxDepth

Process(d) ==
    /\ served' = Append(served, d)
    /\ IF d.kind = "request" THEN Push("poll", 0) ELSE UNCHANGED stack

PollQueued ==
    /\ CanPoll
    /\ pending_count > 0
    /\ PopPdu
    /\ Process(pending_pdus[pending_head])
    /\ UNCHANGED <<socket, arrived, callVars, allowed, statVars, discarded>>

\* Mutant of PollReceives: the socket is read although PDUs are pending.
PollReceivesFirst(d) ==
    /\ CanPoll
    /\ Received(d)
    /\ d.src \in allowed /\ d.kind # "undecodable"
    /\ accepted_packets' = accepted_packets + 1
    /\ Process(d)
    /\ UNCHANGED <<arrived, ringVars, callVars, allowed, drops, queue_overflows, discarded>>

PollReceives(d) ==
    /\ CanPoll
    /\ pending_count = 0
    /\ Received(d)
    /\ d.src \in allowed /\ d.kind # "undecodable"
    /\ accepted_packets' = accepted_packets + 1
    /\ Process(d)
    /\ UNCHANGED <<arrived, ringVars, callVars, allowed, drops, queue_overflows, discarded>>

PollRejects(d) ==
    /\ CanPoll
    /\ pending_count = 0
    /\ Received(d)
    /\ Reject
    /\ UNCHANGED <<arrived, ringVars, stack, callVars, allowed>>

\* The callback returns and its answer is sent.
PollReturns ==
    /\ stack # <<>>
    /\ Top.kind = "poll"
    /\ Return
    /\ UNCHANGED <<socket, arrived, ringVars, callVars, allowed, statVars, histVars>>

\* setSecurityOptions with a new allow or deny list.
Configure(a) ==
    /\ Script
    /\ allowed' = a
    /\ UNCHANGED <<socket, arrived, ringVars, stack, callVars, statVars, histVars>>

-----------------------------------------------------------------------------
Init ==
    /\ socket = <<>> /\ arrived = 0
    /\ pending_head = 0 /\ pending_count = 0
    /\ pending_pdus \in [0..Capacity-1 -> {[num |-> 0]}]
    /\ stack = <<>>
    /\ calls = 0 /\ collected = {}
    /\ allowed = Peers
    /\ accepted_packets = 0 /\ drops = 0 /\ queue_overflows = 0
    /\ served = <<>> /\ discarded = 0

Poll == PollQueued \/ \E d \in Oldest : PollReceives(d) \/ PollRejects(d)

Next ==
    \/ \E p \in Peers, k \in Kinds, n \in 0..MaxCalls : Arrive(p, k, n)
    \/ \E kind \in {"unicast", "discovery"} : StartCall(kind)
    \/ \E d \in Oldest : \/ CallAnswered(d) \/ CallSkips(d) \/ CallRejects(d)
                           \/ CallQueues(d) \/ CallOverflows(d)
    \/ CallTimeout
    \/ Poll \/ PollReturns
    \/ \E a \in SUBSET Peers : Configure(a)

Spec == Init /\ [][Next]_vars

\* Every wait has a deadline, callbacks return, and the event loop polls.
FairSpec == Spec /\ WF_vars(CallTimeout) /\ WF_vars(PollReturns) /\ WF_vars(Poll)

-----------------------------------------------------------------------------
(* Properties.                                                             *)

\* Every variable keeps its type; the ring indices stay inside the ring.
TypeOK ==
    /\ socket \in Seq(Datagram) /\ arrived \in 0..MaxArrivals
    /\ pending_head \in 0..Capacity-1 /\ pending_count \in 0..Capacity
    /\ pending_pdus \in [0..Capacity-1 -> Datagram \cup {[num |-> 0]}]
    /\ stack \in Seq(Frame)
    /\ calls \in 0..MaxCalls /\ collected \subseteq Peers /\ allowed \subseteq Peers
    /\ {accepted_packets, drops, queue_overflows, discarded} \subseteq Nat
    /\ served \in Seq(Datagram)

\* A MixedServer serves what it accepted in the order of arrival, although it
\* comes by two ways: through the ring and straight from the socket.
Fifo == INSTANCE RequestFifo WITH queue <- Contents, Datagrams <- Datagram
FifoSpec == Fifo!Spec
ServedInOrder == Fifo!ServedInOrder

\* Every accepted PDU has been served, waits in the ring, or was counted as a
\* queue overflow: none is lost between the ring, the stack and the statistics.
AcceptedAccounted == accepted_packets = Len(served) + pending_count + queue_overflows

\* A reply never ends up in the request queue, or in poll(), while the call it
\* answers waits: callbacks and nested calls start only between waits.
ReplyReachesCall ==
    \A i \in DOMAIN stack : stack[i].kind = "unicast" =>
        /\ \A j \in DOMAIN served : served[j].kind = "answer" => served[j].call # stack[i].call
        /\ \A j \in 1..pending_count : Contents[j].kind = "answer" => Contents[j].call # stack[i].call

\* Everything the server throws away shows in getSecurityStats().  TLC refutes it
\* (README, known limits).
DropsAreCounted == discarded = drops + queue_overflows

\* A PDU is processed only if the current lists allow its source:
\* setSecurityOptions() takes effect at once.  TLC refutes it (README, known limits).
DeniedIsNotServed ==
    [][\A i \in DOMAIN served' \ DOMAIN served : served'[i].src \in allowed]_vars

\* Queued requests are eventually served.
QueueDrains == pending_count > 0 ~> pending_count = 0
=============================================================================
