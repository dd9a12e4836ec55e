------------------------- MODULE MixedReceiveProofs -------------------------
(***************************************************************************)
(* MixedReceive implements RequestFifo, for every ring capacity.           *)
(*                                                                         *)
(* The argument: the ring holds the sequence Contents; queue_pdu appends   *)
(* to it and pop_pdu takes its head, whatever the position of the head in  *)
(* the array (ring lemmas).  Served PDUs, ring and socket, in this order,  *)
(* are one line of datagrams in the order of arrival (Line), and every     *)
(* step moves the front of one part to the end of the part before it.      *)
(***************************************************************************)
EXTENDS MixedReceive, SequenceTheorems, TLAPS

-----------------------------------------------------------------------------
\* Numbers and finite sets.

(* Two numbers less than n apart with equal residues are one.               *)
LEMMA SameResidue ==
    ASSUME NEW n \in Nat \ {0}, NEW a \in Nat, NEW b \in Nat,
           a % n = b % n, a - b < n, b - a < n
    PROVE  a = b
<1>1. a = n * (a \div n) + (a % n) /\ a \div n \in Int /\ a % n \in 0..n-1
  BY Z3
<1>2. b = n * (b \div n) + (b % n) /\ b \div n \in Int /\ b % n \in 0..n-1
  BY Z3
<1>3. a - b = n * ((a \div n) - (b \div n))
  BY <1>1, <1>2, Z3
<1>4. CASE a \div n = b \div n
  BY <1>3, <1>4, Z3
<1>5. CASE (a \div n) - (b \div n) >= 1
  BY <1>1, <1>2, <1>3, <1>5, Z3
<1>6. CASE (b \div n) - (a \div n) >= 1
  BY <1>1, <1>2, <1>3, <1>6, Z3
<1>7. QED
  BY <1>1, <1>2, <1>4, <1>5, <1>6

(* The residue is what is left over when a multiple of n is taken away.      *)
LEMMA ResidueUnique ==
    ASSUME NEW n \in Nat \ {0}, NEW a \in Nat, NEW q \in Int, NEW r \in 0..n-1,
           a = n * q + r
    PROVE  a % n = r
<1>1. a = n * (a \div n) + (a % n) /\ a \div n \in Int /\ a % n \in 0..n-1
  BY Z3
<1>2. r - (a % n) = n * ((a \div n) - q)
  BY <1>1, Z3
<1>3. CASE a \div n = q
  BY <1>2, <1>3, <1>1, Z3
<1>4. CASE (a \div n) - q >= 1
  BY <1>1, <1>2, <1>4, Z3
<1>5. CASE q - (a \div n) >= 1
  BY <1>1, <1>2, <1>5, Z3
<1>6. QED
  BY <1>1, <1>3, <1>4, <1>5

Known(s) == \A i \in DOMAIN s : s[i].num <= arrived
Ordered(s) == \A i, j \in DOMAIN s : i < j => s[i].num < s[j].num
Before(s, t) == \A i \in DOMAIN s, j \in DOMAIN t : s[i].num < t[j].num

\* s has been served, q waits in the ring, k in the socket.
Line(s, q, k) ==
    /\ Ordered(s) /\ Ordered(q) /\ Ordered(k)
    /\ Before(s, q) /\ Before(s, k) /\ Before(q, k)

RingOK == \A i \in 0..pending_count-1 : pending_pdus[RingIndex(i)] \in Datagram

\* The inductive invariant.
IInv ==
    /\ TypeOK
    /\ RingOK
    /\ Known(served) /\ Known(Contents) /\ Known(socket)
    /\ Line(served, Contents, socket)

-----------------------------------------------------------------------------
(* Lemmas on sequences.                                                    *)

LEMMA TailFacts ==
    ASSUME NEW S, NEW k \in Seq(S), k # <<>>
    PROVE  /\ Tail(k) \in Seq(S) /\ Head(k) \in S /\ Head(k) = k[1]
           /\ Len(Tail(k)) = Len(k) - 1
           /\ \A i \in DOMAIN Tail(k) : i + 1 \in DOMAIN k /\ Tail(k)[i] = k[i + 1]
           /\ 1 \in DOMAIN k
OBVIOUS

LEMMA AppendFacts ==
    ASSUME NEW S, NEW k \in Seq(S), NEW d \in S
    PROVE  /\ Append(k, d) \in Seq(S)
           /\ Len(Append(k, d)) = Len(k) + 1
           /\ \A i \in DOMAIN Append(k, d) : \/ i \in DOMAIN k /\ Append(k, d)[i] = k[i]
                                             \/ i = Len(k) + 1 /\ Append(k, d)[i] = d
OBVIOUS

LEMMA AsFunction ==
    ASSUME NEW S, NEW k \in Seq(S)
    PROVE  k = [i \in 1..Len(k) |-> k[i]]
<1>1. k \in [1..Len(k) -> S]
  BY LenProperties
<1>2. QED
  BY <1>1

LEMMA LineMoves ==
    ASSUME NEW s \in Seq(Datagram), NEW q \in Seq(Datagram), NEW k \in Seq(Datagram),
           Line(s, q, k)
    PROVE  /\ k # <<>> => Line(s, q, Tail(k))
           /\ k # <<>> => Line(s, Append(q, Head(k)), Tail(k))
           /\ k # <<>> /\ q = <<>> => Line(Append(s, Head(k)), q, Tail(k))
           /\ q # <<>> => Line(Append(s, Head(q)), Tail(q), k)
<1>0. \A d \in Datagram : d.num \in Nat
  BY BoundsAssumption DEF Datagram
<1>1. ASSUME k # <<>> PROVE Line(s, q, Tail(k))
  BY <1>1, <1>0, TailFacts DEF Line, Ordered, Before
<1>2. ASSUME k # <<>> PROVE Line(s, Append(q, Head(k)), Tail(k))
  <2>1. Head(k) \in Datagram /\ Head(k) = k[1] /\ 1 \in DOMAIN k
    BY <1>2, TailFacts
  <2>2. \A i \in DOMAIN q : q[i].num < k[1].num
    BY <2>1 DEF Line, Before
  <2>3. \A i \in DOMAIN s : s[i].num < k[1].num
    BY <2>1 DEF Line, Before
  <2>4. \A i \in DOMAIN Tail(k) : k[1].num < Tail(k)[i].num
    BY <1>2, <2>1, TailFacts DEF Line, Ordered
  <2>5. Ordered(Append(q, Head(k)))
    BY <2>1, <2>2, AppendFacts DEF Line, Ordered
  <2>6. Before(s, Append(q, Head(k)))
    BY <2>1, <2>3, AppendFacts DEF Line, Before
  <2>7. Before(Append(q, Head(k)), Tail(k))
    BY <1>1, <1>2, <2>1, <2>4, AppendFacts DEF Line, Before
  <2>8. QED
    BY <1>1, <1>2, <2>5, <2>6, <2>7 DEF Line
<1>3. ASSUME k # <<>>, q = <<>> PROVE Line(Append(s, Head(k)), q, Tail(k))
  <2>1. Head(k) \in Datagram /\ Head(k) = k[1] /\ 1 \in DOMAIN k
    BY <1>3, TailFacts
  <2>2. \A i \in DOMAIN s : s[i].num < k[1].num
    BY <2>1 DEF Line, Before
  <2>3. \A i \in DOMAIN Tail(k) : k[1].num < Tail(k)[i].num
    BY <1>3, <2>1, TailFacts DEF Line, Ordered
  <2>4. Ordered(Append(s, Head(k)))
    BY <2>1, <2>2, AppendFacts DEF Line, Ordered
  <2>5. Before(Append(s, Head(k)), Tail(k))
    BY <1>1, <1>3, <2>1, <2>3, AppendFacts DEF Line, Before
  <2>6. Before(Append(s, Head(k)), q)
    BY <1>3 DEF Before
  <2>7. QED
    BY <1>1, <1>3, <2>4, <2>5, <2>6 DEF Line
<1>4. ASSUME q # <<>> PROVE Line(Append(s, Head(q)), Tail(q), k)
  <2>1. Head(q) \in Datagram /\ Head(q) = q[1] /\ 1 \in DOMAIN q
    BY <1>4, TailFacts
  <2>2. \A i \in DOMAIN s : s[i].num < q[1].num
    BY <2>1 DEF Line, Before
  <2>3. \A i \in DOMAIN Tail(q) : q[1].num < Tail(q)[i].num
    BY <1>4, <2>1, TailFacts DEF Line, Ordered
  <2>4. Ordered(Append(s, Head(q)))
    BY <2>1, <2>2, AppendFacts DEF Line, Ordered
  <2>5. Before(Append(s, Head(q)), Tail(q))
    <3>1. Before(s, Tail(q))
      BY <1>4, TailFacts DEF Line, Before
    <3>2. QED
      BY <3>1, <2>1, <2>3, AppendFacts DEF Before
  <2>6. Before(Append(s, Head(q)), k)
    BY <2>1, AppendFacts DEF Line, Before
  <2>7. Ordered(Tail(q)) /\ Before(Tail(q), k)
    <3>1. \A i \in DOMAIN Tail(q) : i \in Nat /\ i + 1 \in DOMAIN q /\ Tail(q)[i] = q[i + 1]
      BY <1>4, TailFacts, LenProperties
    <3>2. Ordered(Tail(q))
      BY <3>1 DEF Line, Ordered
    <3>3. Before(Tail(q), k)
      BY <3>1 DEF Line, Before
    <3>4. QED
      BY <3>2, <3>3
  <2>8. QED
    BY <2>4, <2>5, <2>6, <2>7 DEF Line
<1>5. QED
  BY <1>1, <1>2, <1>3, <1>4

-----------------------------------------------------------------------------
(* Lemmas on the ring.                                                     *)

LEMMA ContentsType ==
    ASSUME TypeOK, RingOK
    PROVE  /\ Contents \in Seq(Datagram)
           /\ Len(Contents) = pending_count
           /\ pending_count > 0 => pending_pdus[pending_head] = Head(Contents)
           /\ pending_count = 0 <=> Contents = <<>>
<1>1. pending_count \in Nat /\ pending_head \in 0..Capacity-1
  BY CapacityAssumption DEF TypeOK
<1>2. Contents \in [1..pending_count -> Datagram]
  BY <1>1 DEF Contents, RingOK
<1>3. Contents \in Seq(Datagram) /\ Len(Contents) = pending_count
  BY <1>1, <1>2
<1>4. pending_count > 0 => pending_pdus[pending_head] = Head(Contents)
  <2>1. SUFFICES ASSUME pending_count > 0 PROVE pending_pdus[pending_head] = Head(Contents)
    OBVIOUS
  <2>2. RingIndex(0) = pending_head
    BY <1>1, CapacityAssumption, ResidueUnique, pending_head = Capacity * 0 + pending_head
      DEF RingIndex
  <2>3. Contents[1] = pending_pdus[RingIndex(0)]
    BY <1>1, <2>1 DEF Contents
  <2>4. QED
    BY <1>3, <2>1, <2>2, <2>3
<1>5. QED
  BY <1>3, <1>4

\* queue_pdu appends, also when the ring has wrapped around.
LEMMA QueueAppends ==
    ASSUME TypeOK, RingOK, NEW d \in Datagram, pending_count < Capacity, QueuePdu(d)
    PROVE  /\ Contents' = Append(Contents, d)
           /\ RingOK'
           /\ pending_count' \in 0..Capacity
           /\ pending_pdus' \in [0..Capacity-1 -> Datagram \cup {[num |-> 0]}]
<1>1. /\ pending_count \in Nat /\ pending_head \in Nat /\ Capacity \in Nat \ {0}
      /\ pending_pdus \in [0..Capacity-1 -> Datagram \cup {[num |-> 0]}]
  BY CapacityAssumption DEF TypeOK
<1>2. \A i \in Nat : RingIndex(i) \in 0..Capacity-1
  BY <1>1, Z3 DEF RingIndex
<1>3. \A i \in 0..pending_count-1 : RingIndex(i) # RingIndex(pending_count)
  <2>1. SUFFICES ASSUME NEW i \in 0..pending_count-1, RingIndex(i) = RingIndex(pending_count)
                 PROVE  FALSE
    OBVIOUS
  <2>2. pending_head + i = pending_head + pending_count
    <3> DEFINE a == pending_head + i
               b == pending_head + pending_count
    <3>1. a \in Nat /\ b \in Nat /\ a - b < Capacity /\ b - a < Capacity
      BY <1>1, <2>1
    <3>2. a % Capacity = b % Capacity
      BY <2>1 DEF RingIndex
    <3> HIDE DEF a, b
    <3>3. a = b
      BY <3>1, <3>2, <1>1, SameResidue
    <3>4. QED
      BY <3>3 DEF a, b
  <2>3. QED
    BY <2>2, <1>1
<1>4. \A i \in Nat : RingIndex(i)' = RingIndex(i)
  BY DEF RingIndex, QueuePdu
<1>5. /\ \A i \in 0..pending_count-1 : pending_pdus'[RingIndex(i)] = pending_pdus[RingIndex(i)]
      /\ pending_pdus'[RingIndex(pending_count)] = d
  BY <1>1, <1>2, <1>3 DEF QueuePdu
<1>6. RingOK'
  <2>1. SUFFICES ASSUME NEW i \in 0..pending_count PROVE pending_pdus'[RingIndex(i)] \in Datagram
    BY <1>1, <1>4 DEF RingOK, QueuePdu
  <2>2. QED
    BY <1>1, <1>5 DEF RingOK
<1>7. Contents' = Append(Contents, d)
  <2>1. /\ Contents' = [i \in 1..pending_count+1 |-> pending_pdus'[RingIndex(i - 1)]]
    BY <1>1, <1>4 DEF Contents, QueuePdu
  <2>2. Contents \in Seq(Datagram) /\ Len(Contents) = pending_count
    BY ContentsType
  <2>3. \A i \in 1..pending_count : pending_pdus'[RingIndex(i - 1)] = Contents[i]
    BY <1>1, <1>5 DEF Contents
  <2>4. pending_pdus'[RingIndex(pending_count + 1 - 1)] = d
    BY <1>1, <1>5
  <2>5. /\ Append(Contents, d) \in Seq(Datagram)
        /\ Len(Append(Contents, d)) = pending_count + 1
        /\ \A i \in 1..pending_count : Append(Contents, d)[i] = Contents[i]
        /\ Append(Contents, d)[pending_count + 1] = d
    BY <2>2, <1>1
  <2>6. Append(Contents, d) = [i \in 1..pending_count+1 |-> Append(Contents, d)[i]]
    BY <2>5, AsFunction
  <2>7. \A i \in 1..pending_count+1 :
          pending_pdus'[RingIndex(i - 1)] = Append(Contents, d)[i]
    BY <2>3, <2>4, <2>5, <1>1
  <2>8. QED
    BY <2>1, <2>6, <2>7
<1>8. pending_count' \in 0..Capacity
      /\ pending_pdus' \in [0..Capacity-1 -> Datagram \cup {[num |-> 0]}]
  BY <1>1, <1>2 DEF QueuePdu
<1>9. QED
  BY <1>6, <1>7, <1>8

\* pop_pdu takes the head, also when the head wraps around.
LEMMA PopTakesHead ==
    ASSUME TypeOK, RingOK, pending_count > 0, PopPdu
    PROVE  /\ Contents' = Tail(Contents)
           /\ RingOK'
           /\ pending_count' \in 0..Capacity /\ pending_head' \in 0..Capacity-1
<1>1. /\ pending_count \in Nat /\ pending_head \in 0..Capacity-1 /\ Capacity \in Nat \ {0}
      /\ pending_count <= Capacity
  BY CapacityAssumption DEF TypeOK
<1>2. RingIndex(1) \in 0..Capacity-1
  BY <1>1, Z3 DEF RingIndex
<1>3. ASSUME NEW i \in Nat PROVE (RingIndex(1) + i) % Capacity = RingIndex(i + 1)
  <2>1. CASE pending_head + 1 < Capacity
    <3>1. RingIndex(1) = pending_head + 1
      BY <1>1, <2>1, ResidueUnique, pending_head + 1 = Capacity * 0 + (pending_head + 1)
        DEF RingIndex
    <3>2. QED
      BY <3>1, <1>1 DEF RingIndex
  <2>2. CASE pending_head + 1 = Capacity
    <3>1. RingIndex(1) = 0
      BY <1>1, <2>2, ResidueUnique, pending_head + 1 = Capacity * 1 + 0 DEF RingIndex
    <3> DEFINE q == i \div Capacity
               r == i % Capacity
    <3>2. i = Capacity * q + r /\ q \in Int /\ r \in 0..Capacity-1
      BY <1>1, Z3
    <3>3. pending_head + (i + 1) = Capacity * (q + 1) + r
      BY <3>2, <2>2, <1>1, Z3
    <3>4. pending_head + (i + 1) \in Nat /\ q + 1 \in Int
      BY <3>2, <1>1
    <3>5. (pending_head + (i + 1)) % Capacity = r
      <4> HIDE DEF q, r
      <4> QED BY <3>2, <3>3, <3>4, <1>1, ResidueUnique
    <3>6. QED
      BY <3>1, <3>5 DEF RingIndex
  <2>3. QED
    BY <1>1, <2>1, <2>2
<1>4. \A i \in Nat : RingIndex(i)' = RingIndex(i + 1)
  BY <1>3 DEF RingIndex, PopPdu
<1>5. RingOK'
  BY <1>1, <1>4 DEF RingOK, PopPdu
<1>6. Contents' = Tail(Contents)
  <2>1. Contents \in Seq(Datagram) /\ Len(Contents) = pending_count
    BY ContentsType
  <2>2. Contents' = [i \in 1..pending_count-1 |-> pending_pdus[RingIndex(i)]]
    <3>1. Contents' = [i \in 1..pending_count-1 |-> pending_pdus[RingIndex(i - 1)']]
      BY DEF Contents, PopPdu, RingIndex
    <3>2. \A i \in 1..pending_count-1 : RingIndex(i - 1)' = RingIndex(i)
      BY <1>4, <1>1
    <3>3. QED
      BY <3>1, <3>2
  <2>3. \A i \in 1..pending_count-1 : pending_pdus[RingIndex(i)] = Contents[i + 1]
    BY <1>1 DEF Contents
  <2>4. /\ Tail(Contents) \in Seq(Datagram) /\ Len(Tail(Contents)) = pending_count - 1
        /\ \A i \in 1..pending_count-1 : Tail(Contents)[i] = Contents[i + 1]
    BY <2>1, <1>1
  <2>5. Tail(Contents) = [i \in 1..pending_count-1 |-> Tail(Contents)[i]]
    BY <2>4, AsFunction
  <2>6. \A i \in 1..pending_count-1 : pending_pdus[RingIndex(i)] = Tail(Contents)[i]
    BY <2>3, <2>4
  <2>7. QED
    BY <2>2, <2>5, <2>6
<1>7. QED
  BY <1>1, <1>2, <1>5, <1>6 DEF PopPdu

-----------------------------------------------------------------------------
(* The steps, as they move the line.                                       *)

LEMMA OldestIsHead ==
    ASSUME TypeOK, NEW d \in Oldest
    PROVE  /\ d \in Datagram /\ socket # <<>> /\ d = Head(socket)
           /\ Tail(socket) \in Seq(Datagram)
           /\ \A i \in DOMAIN Tail(socket) : i + 1 \in DOMAIN socket /\ Tail(socket)[i] = socket[i + 1]
<1>1. socket \in Seq(Datagram) /\ 1 \in DOMAIN socket /\ d = socket[1]
  BY DEF TypeOK, Oldest
<1>2. socket # <<>>
  BY <1>1
<1>3. QED
  BY <1>1, <1>2, TailFacts

\* What a step does to the line, and the abstract step that it is.
Stutters == /\ Contents' = Contents /\ served' = served
            /\ RingOK'
Accepts(d) == /\ Contents' = Append(Contents, d) /\ served' = served
              /\ pending_count < Capacity
              /\ RingOK'
ServesQueued == /\ Contents # <<>>
                /\ Contents' = Tail(Contents) /\ served' = Append(served, Head(Contents))
                /\ RingOK'
ServesArrival(d) == /\ Contents = <<>>
                    /\ Contents' = Contents /\ served' = Append(served, d)
                    /\ RingOK'

SocketStays == socket' = socket /\ arrived' = arrived
SocketRead == socket # <<>> /\ socket' = Tail(socket) /\ arrived' = arrived
SocketFills == /\ arrived < MaxArrivals
               /\ arrived' = arrived + 1
               /\ \E d \in Datagram : /\ d.num = arrived + 1 /\ d.call <= calls
                                      /\ socket' = Append(socket, d)

LineStep ==
    \/ Stutters /\ (SocketStays \/ SocketRead \/ SocketFills)
    \/ SocketRead /\ (Accepts(Head(socket)) \/ ServesArrival(Head(socket)))
    \/ SocketStays /\ ServesQueued

LEMMA RingStays ==
    ASSUME RingOK, UNCHANGED ringVars
    PROVE  Contents' = Contents /\ RingOK'
<1>1. \A i \in Int : RingIndex(i)' = RingIndex(i)
  BY DEF RingIndex, ringVars
<1>2. RingOK'
  BY <1>1 DEF RingOK, ringVars, RingIndex
<1>3. Contents' = Contents
  BY DEF Contents, ringVars, RingIndex
<1>4. QED
  BY <1>2, <1>3

LEMMA EveryStep ==
    ASSUME TypeOK, RingOK, [Next]_vars
    PROVE  LineStep
<1> USE RingStays DEF LineStep, Stutters, SocketStays, SocketRead, histVars
<1>1. CASE \E p \in Peers, k \in Kinds, n \in 0..MaxCalls : Arrive(p, k, n)
  <2>1. PICK p \in Peers, k \in Kinds, n \in 0..MaxCalls : Arrive(p, k, n)
    BY <1>1
  <2> DEFINE d == [num |-> arrived + 1, src |-> p, kind |-> k, call |-> n]
  <2>2. d \in Datagram /\ d.num = arrived + 1
    <3>1. arrived \in 0..MaxArrivals /\ MaxArrivals \in Nat /\ arrived < MaxArrivals
      BY <2>1, BoundsAssumption DEF Arrive, TypeOK
    <3>2. arrived + 1 \in 1..MaxArrivals
      BY <3>1
    <3>3. QED
      BY <3>2 DEF Datagram
  <2>3. /\ socket' = Append(socket, d) /\ d.call <= calls
        /\ arrived' = arrived + 1 /\ arrived < MaxArrivals
    BY <2>1 DEF Arrive
  <2> HIDE DEF d
  <2>4. SocketFills
    BY <2>2, <2>3 DEF SocketFills
  <2>5. QED
    BY <2>1, <2>4 DEF Arrive
<1>2. CASE \E kind \in {"unicast", "discovery"} : StartCall(kind)
  BY <1>2 DEF StartCall
<1>3. CASE \E d \in Oldest : CallAnswered(d)
  BY <1>3, OldestIsHead DEF CallAnswered, Received
<1>4. CASE \E d \in Oldest : CallSkips(d)
  BY <1>4, OldestIsHead DEF CallSkips, Received
<1>5. CASE \E d \in Oldest : CallRejects(d)
  BY <1>5, OldestIsHead DEF CallRejects, Unsolicited, Received, Reject
<1>6. CASE \E d \in Oldest : CallQueues(d)
  <2>1. PICK d \in Oldest : CallQueues(d)
    BY <1>6
  <2>2. d \in Datagram /\ d = Head(socket) /\ socket # <<>>
    BY OldestIsHead
  <2>3. Contents' = Append(Contents, d) /\ RingOK'
    BY <2>1, <2>2, QueueAppends DEF CallQueues
  <2>4. Accepts(Head(socket))
    BY <2>1, <2>2, <2>3 DEF Accepts, CallQueues
  <2>5. QED
    BY <2>1, <2>2, <2>4 DEF CallQueues, Unsolicited, Received
<1>7. CASE \E d \in Oldest : CallOverflows(d)
  BY <1>7, OldestIsHead DEF CallOverflows, Unsolicited, Received
<1>8. CASE CallTimeout
  BY <1>8 DEF CallTimeout
<1>9. CASE PollQueued
  <2>1. pending_count > 0 /\ PopPdu
    BY <1>9 DEF PollQueued
  <2>2. Contents' = Tail(Contents) /\ RingOK'
    BY <2>1, PopTakesHead
  <2>3. Contents # <<>> /\ pending_pdus[pending_head] = Head(Contents)
    BY <2>1, ContentsType DEF TypeOK
  <2>4. ServesQueued
    BY <1>9, <2>2, <2>3 DEF ServesQueued, PollQueued, Process
  <2>5. QED
    BY <1>9, <2>4 DEF PollQueued
<1>10. CASE \E d \in Oldest : PollReceives(d)
  <2>1. PICK d \in Oldest : PollReceives(d)
    BY <1>10
  <2>2. d = Head(socket) /\ socket # <<>>
    BY OldestIsHead
  <2>3. Contents = <<>>
    BY <2>1, ContentsType DEF PollReceives
  <2>4. ServesArrival(Head(socket))
    BY <2>1, <2>2, <2>3 DEF ServesArrival, PollReceives, Process
  <2>5. QED
    BY <2>1, <2>2, <2>4 DEF PollReceives, Received
<1>11. CASE \E d \in Oldest : PollRejects(d)
  BY <1>11, OldestIsHead DEF PollRejects, Received, Reject
<1>12. CASE PollReturns
  BY <1>12 DEF PollReturns
<1>13. CASE \E a \in SUBSET Peers : Configure(a)
  BY <1>13 DEF Configure
<1>14. CASE UNCHANGED vars
  BY <1>14 DEF vars, ringVars
<1>15. QED
  BY <1>1, <1>2, <1>3, <1>4, <1>5, <1>6, <1>7, <1>8, <1>9, <1>10, <1>11, <1>12, <1>13, <1>14
    DEF Next, Poll

-----------------------------------------------------------------------------
(* Types.                                                                  *)

LEMMA StackType ==
    ASSUME stack \in Seq(Frame)
    PROVE  /\ stack # <<>> /\ Return => stack' \in Seq(Frame)
           /\ \A kind \in {"unicast", "discovery", "poll"}, n \in 0..MaxCalls :
                Push(kind, n) => stack' \in Seq(Frame)
<1>1. ASSUME stack # <<>>, Return PROVE stack' \in Seq(Frame)
  <2>1. Len(stack) \in Nat /\ \A i \in 1..Len(stack)-1 : stack[i] \in Frame
    OBVIOUS
  <2>2. SubSeq(stack, 1, Len(stack) - 1) \in Seq(Frame)
    BY <2>1, SubSeqProperties
  <2>3. QED
    BY <1>1, <2>2 DEF Return
<1>2. ASSUME NEW kind \in {"unicast", "discovery", "poll"}, NEW n \in 0..MaxCalls, Push(kind, n)
      PROVE  stack' \in Seq(Frame)
  <2>1. [kind |-> kind, call |-> n] \in Frame
    BY DEF Frame
  <2>2. QED
    BY <1>2, <2>1 DEF Push
<1>3. QED
  BY <1>1, <1>2

LEMMA TypeStep ==
    ASSUME TypeOK, RingOK, [Next]_vars
    PROVE  TypeOK'
<1> USE BoundsAssumption, CapacityAssumption
<1>0. /\ 0 \in 0..MaxCalls /\ calls \in Nat /\ arrived \in Nat
      /\ accepted_packets + 1 \in Nat /\ drops + 1 \in Nat
      /\ queue_overflows + 1 \in Nat /\ discarded + 1 \in Nat
  <2>1. /\ MaxCalls \in Nat /\ calls \in 0..MaxCalls
        /\ MaxArrivals \in Nat /\ arrived \in 0..MaxArrivals
    BY DEF TypeOK
  <2>2. accepted_packets \in Nat /\ drops \in Nat /\ queue_overflows \in Nat /\ discarded \in Nat
    BY DEF TypeOK
  <2>3. QED
    BY <2>1, <2>2
<1>1. CASE \E p \in Peers, k \in Kinds, n \in 0..MaxCalls : Arrive(p, k, n)
  <2>1. PICK p \in Peers, k \in Kinds, n \in 0..MaxCalls : Arrive(p, k, n)
    BY <1>1
  <2>2. [num |-> arrived + 1, src |-> p, kind |-> k, call |-> n] \in Datagram
    BY <2>1, <1>0 DEF Datagram, Arrive
  <2>3. arrived + 1 \in 0..MaxArrivals
    BY <2>1, <1>0 DEF Arrive
  <2>4. socket' \in Seq(Datagram)
    BY <2>1, <2>2 DEF TypeOK, Arrive
  <2>5. arrived' \in 0..MaxArrivals /\ UNCHANGED <<ringVars, stack, callVars, allowed, statVars, histVars>>
    BY <2>1, <2>3 DEF Arrive
  <2>6. QED
    BY <2>4, <2>5 DEF TypeOK, ringVars, callVars, statVars, histVars
<1>2. CASE \E kind \in {"unicast", "discovery"} : StartCall(kind)
  <2>1. PICK kind \in {"unicast", "discovery"} : StartCall(kind)
    BY <1>2
  <2>2. calls + 1 \in 0..MaxCalls
    BY <2>1, <1>0 DEF StartCall
  <2>3. stack' \in Seq(Frame)
    BY <2>1, <2>2, StackType DEF StartCall, TypeOK
  <2>4. QED
    BY <2>1, <2>2, <2>3 DEF TypeOK, StartCall, ringVars, statVars, histVars
<1>3. ASSUME NEW d \in Oldest, CallAnswered(d) PROVE TypeOK'
  <2>1. d \in Datagram /\ Tail(socket) \in Seq(Datagram)
    BY OldestIsHead
  <2>2. stack' \in Seq(Frame) /\ collected' \subseteq Peers
    BY <1>3, <2>1, StackType DEF TypeOK, CallAnswered, Listening, Waiting, Datagram
  <2>3. QED
    BY <1>3, <2>1, <2>2 DEF TypeOK, CallAnswered, Received, ringVars, statVars, histVars
<1>4. ASSUME NEW d \in Oldest, CallSkips(d) \/ CallRejects(d) \/ CallOverflows(d) PROVE TypeOK'
  <2>1. Tail(socket) \in Seq(Datagram)
    BY OldestIsHead
  <2>2. QED
    BY <1>4, <1>0, <2>1 DEF TypeOK, CallSkips, CallRejects, CallOverflows, Unsolicited, Reject,
       Received, ringVars, callVars, statVars
<1>5. ASSUME NEW d \in Oldest, CallQueues(d) PROVE TypeOK'
  <2>1. d \in Datagram /\ Tail(socket) \in Seq(Datagram)
    BY OldestIsHead
  <2>2. /\ pending_count' \in 0..Capacity /\ pending_head' \in 0..Capacity-1
        /\ pending_pdus' \in [0..Capacity-1 -> Datagram \cup {[num |-> 0]}]
    BY <1>5, <2>1, QueueAppends DEF CallQueues, QueuePdu, TypeOK
  <2>3. QED
    BY <1>5, <1>0, <2>1, <2>2 DEF TypeOK, CallQueues, Unsolicited, Received, callVars, histVars
<1>6. CASE CallTimeout
  BY <1>6, StackType DEF TypeOK, CallTimeout, Waiting, ringVars, callVars, statVars, histVars
<1>7. ASSUME NEW d \in Datagram, Process(d)
      PROVE  stack' \in Seq(Frame) /\ served' \in Seq(Datagram)
  <2>1. stack \in Seq(Frame) /\ served \in Seq(Datagram)
    BY DEF TypeOK
  <2>2. served' \in Seq(Datagram)
    BY <2>1, <1>7 DEF Process
  <2>3. CASE d.kind = "request"
    BY <2>1, <2>2, <2>3, <1>7, <1>0, StackType DEF Process
  <2>4. CASE d.kind # "request"
    BY <2>1, <2>2, <2>4, <1>7 DEF Process
  <2>5. QED
    BY <2>3, <2>4
<1>8. CASE PollQueued
  <2>1. pending_pdus[pending_head] \in Datagram
    <3>1. /\ pending_count > 0 /\ Contents \in Seq(Datagram) /\ Len(Contents) = pending_count
          /\ pending_pdus[pending_head] = Head(Contents)
      BY <1>8, ContentsType DEF PollQueued
    <3> HIDE DEF Contents
    <3>2. Contents # <<>>
      BY <3>1
    <3>3. QED
      BY <3>1, <3>2
  <2>2. /\ pending_count' \in 0..Capacity /\ pending_head' \in 0..Capacity-1
    BY <1>8, PopTakesHead DEF PollQueued
  <2>3. stack' \in Seq(Frame) /\ served' \in Seq(Datagram)
    BY <1>8, <1>7, <2>1 DEF PollQueued
  <2>4. QED
    BY <1>8, <2>2, <2>3 DEF TypeOK, PollQueued, PopPdu, callVars, statVars
<1>9. ASSUME NEW d \in Oldest, PollReceives(d) PROVE TypeOK'
  <2>1. d \in Datagram /\ Tail(socket) \in Seq(Datagram)
    BY OldestIsHead
  <2>2. stack' \in Seq(Frame) /\ served' \in Seq(Datagram)
    BY <1>9, <1>7, <2>1 DEF PollReceives
  <2>3. QED
    BY <1>9, <1>0, <2>1, <2>2 DEF TypeOK, PollReceives, Received, ringVars, callVars
<1>10. ASSUME NEW d \in Oldest, PollRejects(d) PROVE TypeOK'
  <2>1. Tail(socket) \in Seq(Datagram)
    BY OldestIsHead
  <2>2. QED
    BY <1>10, <1>0, <2>1 DEF TypeOK, PollRejects, Reject, Received, ringVars, callVars
<1>11. CASE PollReturns
  BY <1>11, StackType DEF TypeOK, PollReturns, ringVars, callVars, statVars, histVars
<1>12. CASE \E a \in SUBSET Peers : Configure(a)
  BY <1>12 DEF TypeOK, Configure, ringVars, callVars, statVars, histVars
<1>13. CASE UNCHANGED vars
  BY <1>13 DEF TypeOK, vars
<1>14. QED
  BY <1>1, <1>2, <1>3, <1>4, <1>5, <1>6, <1>8, <1>9, <1>10, <1>11, <1>12, <1>13 DEF Next, Poll

-----------------------------------------------------------------------------
(* The invariant and the refinement.                                       *)

LEMMA InitHolds == Init => IInv
<1> SUFFICES ASSUME Init PROVE IInv
  OBVIOUS
<1>1. TypeOK
  BY BoundsAssumption, CapacityAssumption DEF Init, TypeOK
<1>2. RingOK
  BY DEF Init, RingOK
<1>3. Contents = <<>>
  BY <1>1, <1>2, ContentsType DEF Init
<1>4. QED
  BY <1>1, <1>2, <1>3 DEF IInv, Init, Line, Ordered, Before, Known

LEMMA LineTypes ==
    ASSUME IInv
    PROVE  /\ socket \in Seq(Datagram) /\ served \in Seq(Datagram) /\ Contents \in Seq(Datagram)
           /\ arrived \in Nat /\ \A e \in Datagram : e.num \in Nat
<1>1. socket \in Seq(Datagram) /\ served \in Seq(Datagram) /\ arrived \in 0..MaxArrivals
  BY DEF IInv, TypeOK
<1>2. Contents \in Seq(Datagram)
  BY ContentsType DEF IInv
<1>3. MaxArrivals \in Nat
  BY BoundsAssumption
<1>4. \A e \in Datagram : e.num \in Nat
  BY <1>3 DEF Datagram
<1>5. QED
  BY <1>1, <1>2, <1>3, <1>4

\* An arriving datagram has the largest number so far.
LEMMA LineGrows ==
    ASSUME IInv, SocketFills
    PROVE  Line(served, Contents, socket')
<1>1. PICK d \in Datagram : d.num = arrived + 1 /\ socket' = Append(socket, d)
  BY DEF SocketFills
<1>2. \A k \in Seq(Datagram) : Known(k) => \A i \in DOMAIN k : k[i].num < d.num
  BY <1>1, LineTypes DEF Known
<1>3. /\ \A i \in DOMAIN socket : socket[i].num < d.num
      /\ \A i \in DOMAIN served : served[i].num < d.num
      /\ \A i \in DOMAIN Contents : Contents[i].num < d.num
  BY <1>2, LineTypes DEF IInv
<1>4. Ordered(Append(socket, d))
  BY <1>3, LineTypes, AppendFacts DEF IInv, Line, Ordered
<1>5. Before(served, Append(socket, d)) /\ Before(Contents, Append(socket, d))
  BY <1>3, LineTypes, AppendFacts DEF IInv, Line, Before
<1>6. QED
  BY <1>1, <1>4, <1>5 DEF IInv, Line

\* Numbers already given stay at most arrived.
LEMMA KnownMoves ==
    ASSUME IInv, LineStep
    PROVE  Known(served)' /\ Known(Contents)' /\ Known(socket)'
<1>1. arrived' >= arrived /\ arrived' \in Nat
  BY LineTypes DEF LineStep, SocketStays, SocketRead, SocketFills
<1>2. \A k \in Seq(Datagram) : Known(k) => \A i \in DOMAIN k : k[i].num <= arrived'
  BY <1>1, LineTypes DEF Known
<1>3. \A k \in Seq(Datagram), d \in Datagram :
        Known(k) /\ d.num <= arrived' => \A i \in DOMAIN Append(k, d) : Append(k, d)[i].num <= arrived'
  BY <1>2, AppendFacts
<1>4. \A k \in Seq(Datagram) : k # <<>> /\ Known(k) =>
        /\ Head(k) \in Datagram /\ Head(k).num <= arrived'
        /\ \A i \in DOMAIN Tail(k) : Tail(k)[i].num <= arrived'
  BY <1>2, TailFacts
<1> USE LineTypes DEF IInv
<1>5. CASE Stutters /\ SocketStays
  BY <1>2, <1>5 DEF Stutters, SocketStays, Known
<1>6. CASE Stutters /\ SocketRead
  BY <1>2, <1>4, <1>6 DEF Stutters, SocketRead, Known
<1>7. CASE Stutters /\ SocketFills
  BY <1>1, <1>2, <1>3, <1>7 DEF Stutters, SocketFills, Known
<1>8. CASE SocketRead /\ Accepts(Head(socket))
  BY <1>2, <1>3, <1>4, <1>8 DEF Accepts, SocketRead, Known
<1>9. CASE SocketRead /\ ServesArrival(Head(socket))
  BY <1>2, <1>3, <1>4, <1>9 DEF ServesArrival, SocketRead, Known
<1>10. CASE SocketStays /\ ServesQueued
  BY <1>2, <1>3, <1>4, <1>10 DEF ServesQueued, SocketStays, Known
<1>11. QED
  BY <1>5, <1>6, <1>7, <1>8, <1>9, <1>10 DEF LineStep

LEMMA InvariantStep == IInv /\ [Next]_vars => IInv'
<1> SUFFICES ASSUME IInv, [Next]_vars PROVE IInv'
  OBVIOUS
<1>1. TypeOK' /\ LineStep
  BY EveryStep, TypeStep DEF IInv
<1>2. RingOK'
  BY <1>1 DEF LineStep, Stutters, Accepts, ServesQueued, ServesArrival
<1>3. Line(served', Contents', socket')
  <2>1. Line(served, Contents, socket)
    BY DEF IInv
  <2>2. CASE Stutters /\ SocketFills
    BY <2>2, LineGrows DEF Stutters
  <2>3. CASE ~SocketFills
    BY <1>1, <2>1, <2>3, LineMoves, LineTypes
      DEF LineStep, Stutters, SocketStays, SocketRead, Accepts, ServesQueued, ServesArrival
  <2>4. CASE ~Stutters
    BY <1>1, <2>1, <2>4, LineMoves, LineTypes
      DEF LineStep, SocketStays, SocketRead, Accepts, ServesQueued, ServesArrival
  <2>5. QED
    BY <2>2, <2>3, <2>4
<1>4. Line(served, Contents, socket)'
  BY <1>3 DEF Line, Ordered, Before
<1>5. QED
  BY <1>1, <1>2, <1>4, KnownMoves DEF IInv

\* The invariant holds in every reachable state.
LEMMA Invariance == Spec => []IInv
BY InitHolds, InvariantStep, PTL DEF Spec

\* The state of the receive path always has its type; in particular the ring
\* indices stay inside the ring (pending_head, pending_count).
THEOREM TypeCorrect == Spec => []TypeOK
<1>1. IInv => TypeOK
  BY DEF IInv
<1>2. QED
  BY <1>1, Invariance, PTL

\* Requests are served in the order of their arrival (pending_pdus and poll).
THEOREM ServedInOrderHolds == Spec => []ServedInOrder
<1>1. IInv => ServedInOrder
  BY DEF IInv, Line, Ordered, Before, ServedInOrder, Fifo!ServedInOrder, Fifo!Increasing
<1>2. QED
  BY <1>1, Invariance, PTL

\* The receive path implements the bounded queue of RequestFifo, whatever the
\* capacity: every step of it is a step of the queue or leaves the queue alone.
THEOREM Refinement == Spec => FifoSpec
<1>1. Init => Fifo!Init
  <2> SUFFICES ASSUME Init PROVE Fifo!Init
    OBVIOUS
  <2>1. Contents = <<>>
    BY InitHolds, ContentsType DEF IInv, Init
  <2>2. QED
    BY <2>1 DEF Init, Fifo!Init
<1>2. IInv /\ [Next]_vars => [Fifo!Next]_(Fifo!vars)
  <2> SUFFICES ASSUME IInv, [Next]_vars PROVE [Fifo!Next]_(Fifo!vars)
    OBVIOUS
  <2>1. LineStep
    BY EveryStep DEF IInv
  <2>2. CASE Stutters
    BY <2>2 DEF Stutters, Fifo!vars
  <2>3. ASSUME SocketRead PROVE Head(socket) \in Datagram /\ Fifo!Newest(Head(socket))
    BY <2>3, LineTypes, TailFacts DEF SocketRead, IInv, Line, Before, Fifo!Newest
  <2>4. CASE SocketRead /\ Accepts(Head(socket))
    <3>1. Len(Contents) = pending_count
      BY ContentsType DEF IInv
    <3>2. Fifo!Accept(Head(socket))
      BY <2>3, <2>4, <3>1 DEF Accepts, Fifo!Accept
    <3>3. QED
      BY <2>3, <2>4, <3>2 DEF Fifo!Next
  <2>5. CASE SocketRead /\ ServesArrival(Head(socket))
    <3>1. Fifo!ServeArrival(Head(socket))
      BY <2>3, <2>5 DEF ServesArrival, Fifo!ServeArrival
    <3>2. QED
      BY <2>3, <2>5, <3>1 DEF Fifo!Next
  <2>6. CASE ServesQueued
    BY <2>6 DEF ServesQueued, Fifo!ServeQueued, Fifo!Next
  <2>7. QED
    BY <2>1, <2>2, <2>4, <2>5, <2>6 DEF LineStep
<1>3. QED
  BY <1>1, <1>2, Invariance, PTL DEF Spec, FifoSpec, Fifo!Spec

-----------------------------------------------------------------------------
\* The statistics account for every accepted PDU: it was served, it waits in the
\* ring, or it was counted by php_bacnet_security_queue_overflow.
THEOREM AcceptedAccountedHolds == Spec => []AcceptedAccounted
<1>1. Init => AcceptedAccounted
  BY DEF Init, AcceptedAccounted
<1>2. IInv /\ AcceptedAccounted /\ [Next]_vars => AcceptedAccounted'
  <2> SUFFICES ASSUME IInv, AcceptedAccounted, [Next]_vars PROVE AcceptedAccounted'
    OBVIOUS
  <2> USE DEF AcceptedAccounted
  <2>1. /\ served \in Seq(Datagram) /\ pending_count \in Nat
        /\ accepted_packets \in Nat /\ queue_overflows \in Nat
    BY CapacityAssumption DEF IInv, TypeOK
  <2>2. ASSUME NEW d \in Datagram, Process(d) PROVE Len(served') = Len(served) + 1
    BY <2>1, <2>2 DEF Process
  <2>3. CASE PollQueued
    <3>1. pending_pdus[pending_head] \in Datagram
      <4>1. /\ pending_count > 0 /\ Contents \in Seq(Datagram) /\ Len(Contents) = pending_count
            /\ pending_pdus[pending_head] = Head(Contents)
        BY <2>3, ContentsType DEF PollQueued, IInv
      <4> HIDE DEF Contents
      <4>2. Contents # <<>>
        BY <4>1
      <4>3. QED
        BY <4>1, <4>2, TailFacts
    <3>2. Len(served') = Len(served) + 1
      BY <2>2, <2>3, <3>1 DEF PollQueued
    <3>3. QED
      BY <2>1, <2>3, <3>2 DEF PollQueued, PopPdu, statVars
  <2>4. ASSUME NEW d \in Oldest, PollReceives(d) PROVE AcceptedAccounted'
    <3>1. Len(served') = Len(served) + 1
      BY <2>2, <2>4, OldestIsHead DEF PollReceives, IInv
    <3>2. QED
      BY <2>1, <2>4, <3>1 DEF PollReceives, ringVars
  <2>5. ASSUME NEW d \in Oldest, CallQueues(d) PROVE AcceptedAccounted'
    BY <2>1, <2>5 DEF CallQueues, QueuePdu, histVars
  <2>6. ASSUME NEW d \in Oldest, CallOverflows(d) PROVE AcceptedAccounted'
    BY <2>1, <2>6 DEF CallOverflows, ringVars
  <2>7. ASSUME NEW d \in Oldest,
               CallAnswered(d) \/ CallSkips(d) \/ CallRejects(d) \/ PollRejects(d)
        PROVE  AcceptedAccounted'
    BY <2>7 DEF CallAnswered, CallSkips, CallRejects, PollRejects, Reject, ringVars, statVars,
       histVars
  <2>8. ASSUME \/ \E p \in Peers, k \in Kinds, n \in 0..MaxCalls : Arrive(p, k, n)
               \/ \E kind \in {"unicast", "discovery"} : StartCall(kind)
               \/ CallTimeout \/ PollReturns
               \/ \E a \in SUBSET Peers : Configure(a)
               \/ UNCHANGED vars
        PROVE  AcceptedAccounted'
    BY <2>8 DEF Arrive, StartCall, CallTimeout, PollReturns, Configure, vars, ringVars, statVars,
       histVars
  <2>9. QED
    BY <2>3, <2>4, <2>5, <2>6, <2>7, <2>8 DEF Next, Poll
<1>3. QED
  BY <1>1, <1>2, Invariance, PTL DEF Spec

-----------------------------------------------------------------------------
(* Calls on the shared socket.  Only the top frame of the stack waits, it is *)
(* the latest call, and what is queued or served was sent for earlier ones.  *)

Past(s) == \A i \in DOMAIN s : s[i].call <= calls
NoAnswer(s) == \A i \in DOMAIN s : s[i].kind = "answer" => s[i].call # calls

CallInv ==
    /\ Past(socket) /\ Past(Contents) /\ Past(served)
    /\ \A i \in 1..Len(stack)-1 : stack[i].kind = "poll"
    /\ Waiting => /\ Top.call = calls
                  /\ Top.kind = "unicast" => NoAnswer(Contents) /\ NoAnswer(served)

\* What a step does to the call stack, and to the line at the same time.
StackStays == stack' = stack /\ calls' = calls /\ (Script \/ Stutters)
QueuesOther == /\ stack' = stack /\ calls' = calls
               /\ SocketRead /\ Accepts(Head(socket)) /\ ~Expected(Head(socket))
CallStarts == /\ calls' = calls + 1 /\ Script
              /\ \E kind \in {"unicast", "discovery"} : Push(kind, calls + 1)
              /\ Stutters /\ SocketStays
Returns == stack # <<>> /\ Return /\ calls' = calls
PollStarts == Script /\ Push("poll", 0) /\ calls' = calls

LEMMA StackStep ==
    ASSUME TypeOK, RingOK, [Next]_vars
    PROVE  StackStays \/ QueuesOther \/ CallStarts \/ Returns \/ PollStarts
<1> USE RingStays DEF StackStays, Stutters, callVars, histVars
<1>1. CASE \E p \in Peers, k \in Kinds, n \in 0..MaxCalls : Arrive(p, k, n)
  BY <1>1 DEF Arrive
<1>2. CASE \E kind \in {"unicast", "discovery"} : StartCall(kind)
  BY <1>2 DEF StartCall, CallStarts, SocketStays
<1>3. CASE \E d \in Oldest : CallAnswered(d)
  BY <1>3 DEF CallAnswered, Listening, Waiting, Returns
<1>4. CASE \E d \in Oldest : CallSkips(d) \/ CallRejects(d) \/ CallOverflows(d)
  BY <1>4 DEF CallSkips, CallRejects, CallOverflows, Reject
<1>5. CASE \E d \in Oldest : CallQueues(d)
  <2>1. PICK d \in Oldest : CallQueues(d)
    BY <1>5
  <2>2. d \in Datagram /\ d = Head(socket) /\ socket # <<>>
    BY OldestIsHead
  <2>3. Contents' = Append(Contents, d) /\ RingOK'
    BY <2>1, <2>2, QueueAppends DEF CallQueues
  <2>4. QueuesOther
    BY <2>1, <2>2, <2>3 DEF QueuesOther, Accepts, SocketRead, CallQueues, Unsolicited, Received
  <2>5. QED
    BY <2>4
<1>6. CASE CallTimeout
  BY <1>6 DEF CallTimeout, Waiting, Returns
<1>7. CASE PollQueued
  BY <1>7 DEF PollQueued, CanPoll, Process, PollStarts
<1>8. CASE \E d \in Oldest : PollReceives(d) \/ PollRejects(d)
  BY <1>8 DEF PollReceives, PollRejects, CanPoll, Process, PollStarts
<1>9. CASE PollReturns
  BY <1>9 DEF PollReturns, Returns
<1>10. CASE \E a \in SUBSET Peers : Configure(a)
  BY <1>10 DEF Configure
<1>11. CASE UNCHANGED vars
  BY <1>11 DEF vars, ringVars
<1>12. QED
  BY <1>1, <1>2, <1>3, <1>4, <1>5, <1>6, <1>7, <1>8, <1>9, <1>10, <1>11 DEF Next, Poll

\* Nothing that moves along the line belongs to a call not made yet.
LEMMA PastMoves ==
    ASSUME IInv, Past(socket), Past(Contents), Past(served), LineStep, calls' >= calls,
           calls' \in Nat
    PROVE  Past(socket)' /\ Past(Contents)' /\ Past(served)'
<1>0. calls \in Nat /\ \A d \in Datagram : d.call \in Nat
  BY BoundsAssumption DEF IInv, TypeOK, Datagram
<1>1. \A k \in Seq(Datagram) : Past(k) => \A i \in DOMAIN k : k[i].call <= calls'
  BY <1>0 DEF Past
<1>2. \A k \in Seq(Datagram), d \in Datagram :
        Past(k) /\ d.call <= calls => \A i \in DOMAIN Append(k, d) : Append(k, d)[i].call <= calls'
  BY <1>0, <1>1, AppendFacts
<1>3. \A k \in Seq(Datagram) : k # <<>> /\ Past(k) =>
        /\ Head(k) \in Datagram /\ Head(k).call <= calls
        /\ \A i \in DOMAIN Tail(k) : Tail(k)[i].call <= calls'
  BY <1>1, TailFacts DEF Past
<1> USE LineTypes
<1>4. CASE Stutters /\ SocketStays
  BY <1>1, <1>4 DEF Stutters, SocketStays, Past
<1>5. CASE Stutters /\ SocketRead
  BY <1>1, <1>3, <1>5 DEF Stutters, SocketRead, Past
<1>6. CASE Stutters /\ SocketFills
  BY <1>1, <1>2, <1>6 DEF Stutters, SocketFills, Past
<1>7. CASE SocketRead /\ Accepts(Head(socket))
  BY <1>1, <1>2, <1>3, <1>7 DEF Accepts, SocketRead, Past
<1>8. CASE SocketRead /\ ServesArrival(Head(socket))
  BY <1>1, <1>2, <1>3, <1>8 DEF ServesArrival, SocketRead, Past
<1>9. CASE SocketStays /\ ServesQueued
  BY <1>1, <1>2, <1>3, <1>9 DEF ServesQueued, SocketStays, Past
<1>10. QED
  BY <1>4, <1>5, <1>6, <1>7, <1>8, <1>9 DEF LineStep

\* The call stack: pushing on frames that all poll leaves one frame that may wait.
LEMMA Pushed ==
    ASSUME TypeOK, CallInv, Script, NEW kind, NEW n, Push(kind, n)
    PROVE  /\ \A i \in 1..Len(stack')-1 : stack'[i].kind = "poll"
           /\ stack' # <<>> /\ Top' = [kind |-> kind, call |-> n]
<1>1. stack \in Seq(Frame) /\ Len(stack) \in Nat
  BY DEF TypeOK
<1>2. \A i \in 1..Len(stack) : stack[i].kind = "poll"
  <2>1. stack # <<>> => Top.kind = "poll"
    BY DEF Script, Waiting
  <2>2. \A i \in 1..Len(stack) : i \in 1..Len(stack)-1 \/ (i = Len(stack) /\ stack # <<>>)
    BY <1>1
  <2>3. QED
    BY <2>1, <2>2 DEF CallInv, Top
<1> DEFINE f == [kind |-> kind, call |-> n]
<1>3. stack' = Append(stack, f)
  BY DEF Push
<1> HIDE DEF f
<1>4. /\ Len(stack') = Len(stack) + 1
      /\ \A i \in 1..Len(stack) : stack'[i] = stack[i]
      /\ stack'[Len(stack) + 1] = f
  BY <1>1, <1>3
<1>5. stack' # <<>>
  BY <1>1, <1>3, <1>4
<1>6. QED
  BY <1>1, <1>2, <1>4, <1>5 DEF Top, f

LEMMA WithoutLast ==
    ASSUME NEW S, NEW s \in Seq(S), Len(s) \in Nat \ {0}
    PROVE  /\ Len(SubSeq(s, 1, Len(s) - 1)) = Len(s) - 1
           /\ \A i \in 1..Len(s)-1 : SubSeq(s, 1, Len(s) - 1)[i] = s[i]
<1> DEFINE n == Len(s) - 1
           t == SubSeq(s, 1, n)
<1>1. n \in Nat /\ 1 \in Int /\ \A i \in 1..n : s[i] \in S
  BY ElementOfSeq
<1> HIDE DEF n
<1>2. /\ Len(t) = IF 1 <= n THEN n - 1 + 1 ELSE 0
      /\ \A i \in 1..n-1+1 : t[i] = s[1+i-1]
  BY <1>1, SubSeqProperties
<1> HIDE DEF t
<1>3. Len(t) = n
  BY <1>1, <1>2
<1>4. \A i \in 1..n : t[i] = s[i]
  BY <1>1, <1>2
<1>5. QED
  BY <1>3, <1>4 DEF n, t

LEMMA Returned ==
    ASSUME TypeOK, CallInv, Returns
    PROVE  ~Waiting' /\ \A i \in 1..Len(stack')-1 : stack'[i].kind = "poll"
<1>1. stack \in Seq(Frame) /\ Len(stack) \in Nat \ {0}
  BY DEF TypeOK, Returns
<1>2. /\ Len(stack') = Len(stack) - 1
      /\ \A i \in 1..Len(stack)-1 : stack'[i] = stack[i]
  BY <1>1, WithoutLast DEF Returns, Return
<1>3. \A i \in 1..Len(stack') : stack'[i].kind = "poll"
  BY <1>2 DEF CallInv
<1>4. stack' # <<>> => Len(stack') \in 1..Len(stack')
  <2>1. stack' \in Seq(Frame)
    BY StackType DEF TypeOK, Returns
  <2>2. QED
    BY <2>1
<1>5. ~Waiting'
  BY <1>3, <1>4 DEF Waiting, Top
<1>6. QED
  BY <1>1, <1>2, <1>3, <1>5

LEMMA CallStep ==
    ASSUME IInv, CallInv, [Next]_vars
    PROVE  CallInv'
<1>1. LineStep /\ (StackStays \/ QueuesOther \/ CallStarts \/ Returns \/ PollStarts)
  BY EveryStep, StackStep DEF IInv
<1>2. TypeOK /\ calls \in Nat
  BY BoundsAssumption DEF IInv, TypeOK
<1>3. Past(socket)' /\ Past(Contents)' /\ Past(served)'
  <2>1. calls' >= calls /\ calls' \in Nat
    BY <1>1, <1>2 DEF StackStays, QueuesOther, CallStarts, Returns, PollStarts
  <2>2. QED
    BY <1>1, <2>1, PastMoves DEF CallInv
<1>4. CASE StackStays
  BY <1>3, <1>4 DEF StackStays, CallInv, Script, Waiting, Top, Stutters, NoAnswer
<1>5. CASE QueuesOther
  <2>1. socket # <<>> /\ Head(socket) \in Datagram /\ Contents \in Seq(Datagram)
    BY <1>5, LineTypes, TailFacts DEF QueuesOther, SocketRead
  <2> DEFINE d == Head(socket)
  <2>2. Contents' = Append(Contents, d) /\ served' = served /\ d \in Datagram
    BY <1>5, <2>1 DEF QueuesOther, Accepts
  <2>3. Waiting /\ Top.kind = "unicast" => NoAnswer(Contents')
    <3>1. SUFFICES ASSUME Waiting, Top.kind = "unicast" PROVE NoAnswer(Contents')
      OBVIOUS
    <3>2. d.kind = "answer" => d.call # calls
      BY <1>5, <3>1 DEF QueuesOther, Expected, CallInv
    <3>3. NoAnswer(Contents)
      BY <3>1 DEF CallInv
    <3> HIDE DEF d
    <3>4. QED
      BY <2>1, <2>2, <3>2, <3>3, AppendFacts DEF NoAnswer
  <2>4. QED
    BY <1>3, <1>5, <2>2, <2>3 DEF QueuesOther, CallInv, Waiting, Top, NoAnswer
<1>6. CASE CallStarts
  <2>1. PICK kind \in {"unicast", "discovery"} : Push(kind, calls + 1)
    BY <1>6 DEF CallStarts
  <2>2. /\ \A i \in 1..Len(stack')-1 : stack'[i].kind = "poll"
        /\ Top' = [kind |-> kind, call |-> calls + 1]
    BY <1>2, <1>6, <2>1, Pushed DEF CallStarts
  <2>3. \A k \in Seq(Datagram) : Past(k) => \A i \in DOMAIN k : k[i].call # calls + 1
    BY <1>2, BoundsAssumption DEF Past, Datagram
  <2>4. NoAnswer(Contents)' /\ NoAnswer(served)'
    BY <1>6, <2>3, LineTypes DEF CallInv, CallStarts, Stutters, NoAnswer
  <2>5. QED
    BY <1>3, <1>6, <2>2, <2>4 DEF CallStarts, CallInv
<1>7. CASE Returns
  BY <1>2, <1>3, <1>7, Returned DEF CallInv
<1>8. CASE PollStarts
  <2>1. /\ \A i \in 1..Len(stack')-1 : stack'[i].kind = "poll"
        /\ Top' = [kind |-> "poll", call |-> 0]
    BY <1>2, <1>8, Pushed DEF PollStarts
  <2>2. ~Waiting'
    BY <2>1 DEF Waiting
  <2>3. QED
    BY <1>3, <2>1, <2>2 DEF CallInv
<1>9. QED
  BY <1>1, <1>4, <1>5, <1>6, <1>7, <1>8

\* A reply never ends up in the request queue, or in poll(), while the call it
\* answers waits, however polls and calls are nested and whatever the capacity.
THEOREM RepliesReachCalls == Spec => []ReplyReachesCall
<1>1. Init => CallInv
  <2> SUFFICES ASSUME Init PROVE CallInv
    OBVIOUS
  <2>1. Contents = <<>>
    BY InitHolds, ContentsType DEF IInv, Init
  <2>2. QED
    BY <2>1 DEF Init, CallInv, Past, Waiting
<1>2. IInv /\ CallInv /\ [Next]_vars => CallInv'
  BY CallStep
<1>3. IInv /\ CallInv => ReplyReachesCall
  <2> SUFFICES ASSUME IInv, CallInv, NEW i \in DOMAIN stack, stack[i].kind = "unicast"
               PROVE  /\ \A j \in DOMAIN served :
                           served[j].kind = "answer" => served[j].call # stack[i].call
                      /\ \A j \in 1..pending_count :
                           Contents[j].kind = "answer" => Contents[j].call # stack[i].call
    BY DEF ReplyReachesCall
  <2>1. stack \in Seq(Frame) /\ DOMAIN Contents = 1..pending_count
    BY ContentsType, LenProperties DEF IInv, TypeOK
  <2>2. i = Len(stack) /\ stack # <<>>
    <3>1. i \in 1..Len(stack) /\ ~(i \in 1..Len(stack)-1)
      BY <2>1 DEF CallInv
    <3>2. QED
      BY <2>1, <3>1
  <2>3. Waiting /\ Top = stack[i]
    BY <2>2 DEF Waiting, Top
  <2>4. QED
    BY <2>1, <2>3 DEF CallInv, NoAnswer
<1>4. QED
  BY <1>1, <1>2, <1>3, Invariance, PTL DEF Spec
=============================================================================
