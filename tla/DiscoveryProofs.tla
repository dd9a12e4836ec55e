--------------------------- MODULE DiscoveryProofs ---------------------------
(***************************************************************************)
(* whoIs() for every number of devices, ranges, calls and callbacks: the   *)
(* types; and, until a COV handler is installed, that the DEVICE cache and *)
(* the routes follow the last search.                                      *)
(*                                                                         *)
(* Without a handler one call at a time waits (OneSearch), its range is    *)
(* not in the cache while it does, and the addresses that reach it only    *)
(* grow: known to the script, collected, in the socket, in the network     *)
(* (Newer).                                                                *)
(***************************************************************************)
EXTENDS Discovery, SequenceTheorems, TLAPS

-----------------------------------------------------------------------------
(* Sequences.                                                              *)

LEMMA Front ==
    ASSUME NEW S, NEW s \in Seq(S), NEW n \in 0..Len(s)
    PROVE  /\ SubSeq(s, 1, n) \in Seq(S)
           /\ Len(SubSeq(s, 1, n)) = n
           /\ \A i \in 1..n : SubSeq(s, 1, n)[i] = s[i]
<1>1. n \in Int /\ 1 \in Int /\ n \in Nat /\ \A i \in 1..n : s[i] \in S
  BY ElementOfSeq
<1> DEFINE t == SubSeq(s, 1, n)
<1>2. /\ t \in Seq(S)
      /\ Len(t) = IF 1 <= n THEN n - 1 + 1 ELSE 0
      /\ \A i \in 1..n-1+1 : t[i] = s[1+i-1]
  BY <1>1, SubSeqProperties
<1> HIDE DEF t
<1>3. Len(t) = n
  BY <1>1, <1>2
<1>4. \A i \in 1..n : t[i] = s[i]
  BY <1>1, <1>2
<1>5. QED
  BY <1>2, <1>3, <1>4 DEF t

LEMMA Longer ==
    ASSUME NEW S, NEW s \in Seq(S), NEW x \in S
    PROVE  /\ Append(s, x) \in Seq(S)
           /\ Append(s, x) # <<>>
           /\ Len(Append(s, x)) = Len(s) + 1
           /\ \A i \in 1..Len(s) : Append(s, x)[i] = s[i]
           /\ Append(s, x)[Len(s) + 1] = x
           /\ \A i \in DOMAIN Append(s, x) : i \in 1..Len(s) \/ i = Len(s) + 1
BY AppendProperties, LenProperties

LEMMA WithoutHead ==
    ASSUME NEW S, NEW s \in Seq(S), s # <<>>
    PROVE  /\ Tail(s) \in Seq(S) /\ Head(s) \in S /\ Head(s) = s[1] /\ 1 \in DOMAIN s
           /\ Len(Tail(s)) = Len(s) - 1
           /\ \A i \in DOMAIN Tail(s) : i + 1 \in DOMAIN s /\ Tail(s)[i] = s[i + 1]
OBVIOUS

LEMMA LastOf ==
    ASSUME NEW S, NEW s \in Seq(S), s # <<>>
    PROVE  Len(s) \in Nat \ {0} /\ Len(s) \in DOMAIN s /\ s[Len(s)] \in S
BY EmptySeq, LenProperties, ElementOfSeq

(* The last element is replaced.                                           *)
LEMMA LastReplaced ==
    ASSUME NEW S, NEW s \in Seq(S), s # <<>>, NEW x \in S
    PROVE  LET t == [s EXCEPT ![Len(s)] = x]
           IN  /\ t \in Seq(S) /\ t # <<>> /\ Len(t) = Len(s) /\ t[Len(s)] = x
               /\ \A i \in DOMAIN t : i \in DOMAIN s /\ (i # Len(s) => t[i] = s[i])
<1> DEFINE n == Len(s)
           t == [s EXCEPT ![n] = x]
<1>1. n \in Nat \ {0} /\ n \in 1..n /\ s \in [1..n -> S]
  BY LastOf, LenProperties
<1> HIDE DEF n
<1>2. t \in [1..n -> S] /\ t[n] = x /\ DOMAIN t = 1..n /\ DOMAIN s = 1..n
      /\ \A i \in 1..n : i # n => t[i] = s[i]
  BY <1>1
<1> HIDE DEF t
<1>3. t \in Seq(S) /\ Len(t) = n
  BY <1>1, <1>2, SeqDef, LenProperties
<1>4. t # <<>>
  BY <1>1, <1>3, EmptySeq
<1>5. QED
  BY <1>2, <1>3, <1>4 DEF n, t

-----------------------------------------------------------------------------
(* The call stack: calls at odd positions, callbacks at even ones.         *)

StackOK(s) ==
    /\ s \in Seq(Frame)
    /\ \A i \in DOMAIN s : /\ (s[i].range = NoRange) = (i % 2 = 0)
                           /\ i % 2 = 0 => s[i] = Callback
                           /\ Len(s[i].entries) <= Capacity

\* The inductive invariant for the types.
TInv == TypeOK /\ StackOK(stack)

LEMMA Parity == \A n \in Nat : (n + 1) % 2 = 0 <=> n % 2 # 0
OBVIOUS

LEMMA NewCall ==
    ASSUME NEW r \in Ranges, NEW n \in 0..2, NEW entries \in Seq(Entry)
    PROVE  [range |-> r, attempt |-> n, entries |-> entries] \in Frame
BY DEF Frame

LEMMA StackPush ==
    ASSUME StackOK(stack), NEW f \in Frame, Len(f.entries) <= Capacity,
           \/ Script /\ f.range # NoRange
           \/ Waiting /\ f = Callback
    PROVE  StackOK(Append(stack, f))
<1>1. stack \in Seq(Frame) /\ Len(stack) \in Nat /\ DOMAIN stack = 1..Len(stack)
  BY LenProperties DEF StackOK
<1>2. f = Callback => f.range = NoRange
  BY DEF Callback
<1>3. (f.range = NoRange) = ((Len(stack) + 1) % 2 = 0) /\ (f.range = NoRange => f = Callback)
  <2>1. CASE stack = <<>>
    <3>1. Len(stack) = 0
      BY <2>1, EmptySeq
    <3>2. QED
      BY <2>1, <3>1, Parity DEF Waiting
  <2>2. CASE stack # <<>>
    <3>1. Len(stack) \in DOMAIN stack
      BY <1>1, <2>2, LastOf
    <3>2. Top = Callback <=> Len(stack) % 2 = 0
      BY <3>1 DEF StackOK, Top, Callback
    <3>3. QED
      BY <1>1, <1>2, <2>2, <3>2, Parity DEF Script, Waiting
  <2>3. QED
    BY <2>1, <2>2
<1> DEFINE t == Append(stack, f)
<1>4. /\ t \in Seq(Frame) /\ t[Len(stack) + 1] = f
      /\ \A i \in DOMAIN t : (i \in DOMAIN stack /\ t[i] = stack[i]) \/ i = Len(stack) + 1
  BY <1>1, Longer
<1> HIDE DEF t
<1>5. ASSUME NEW i \in DOMAIN t
      PROVE  /\ (t[i].range = NoRange) = (i % 2 = 0)
             /\ i % 2 = 0 => t[i] = Callback
             /\ Len(t[i].entries) <= Capacity
  <2>1. CASE i \in DOMAIN stack /\ t[i] = stack[i]
    BY <2>1 DEF StackOK
  <2>2. CASE i = Len(stack) + 1
    BY <1>3, <1>4, <2>2
  <2>3. QED
    BY <1>4, <2>1, <2>2
<1>6. QED
  BY <1>4, <1>5 DEF StackOK, t

LEMMA StackPop ==
    ASSUME StackOK(stack), NEW n \in 0..Len(stack)
    PROVE  StackOK(SubSeq(stack, 1, n))
<1>1. stack \in Seq(Frame) /\ DOMAIN stack = 1..Len(stack) /\ Len(stack) \in Nat
  BY LenProperties DEF StackOK
<1> DEFINE t == SubSeq(stack, 1, n)
<1>2. t \in Seq(Frame) /\ Len(t) = n /\ \A i \in 1..n : t[i] = stack[i]
  BY <1>1, Front
<1> HIDE DEF t
<1>3. DOMAIN t = 1..n /\ \A i \in DOMAIN t : i \in DOMAIN stack /\ t[i] = stack[i]
  BY <1>1, <1>2, LenProperties
<1>4. QED
  BY <1>2, <1>3 DEF StackOK, t

LEMMA StackReplace ==
    ASSUME StackOK(stack), Waiting, NEW f \in Frame, f.range = Top.range,
           Len(f.entries) <= Capacity
    PROVE  StackOK([stack EXCEPT ![Len(stack)] = f])
<1>1. stack \in Seq(Frame) /\ Len(stack) \in DOMAIN stack
  BY LastOf DEF StackOK, Waiting
<1>2. Len(stack) % 2 # 0
  BY <1>1 DEF StackOK, Waiting, Top
<1> DEFINE t == [stack EXCEPT ![Len(stack)] = f]
<1>3. /\ t \in Seq(Frame) /\ t[Len(stack)] = f
      /\ \A i \in DOMAIN t : i \in DOMAIN stack /\ (i # Len(stack) => t[i] = stack[i])
  BY <1>1, LastReplaced DEF Waiting
<1> HIDE DEF t
<1>4. f.range # NoRange
  BY <1>1, <1>2 DEF StackOK, Top
<1>5. ASSUME NEW i \in DOMAIN t
      PROVE  /\ (t[i].range = NoRange) = (i % 2 = 0)
             /\ i % 2 = 0 => t[i] = Callback
             /\ Len(t[i].entries) <= Capacity
  <2>1. CASE i = Len(stack)
    BY <1>2, <1>3, <1>4, <2>1
  <2>2. CASE i # Len(stack)
    BY <1>3, <2>2 DEF StackOK
  <2>3. QED
    BY <2>1, <2>2
<1>6. QED
  BY <1>3, <1>5 DEF StackOK, t

(* The waiting call.                                                       *)
LEMMA WaitingFrame ==
    ASSUME TInv, Waiting
    PROVE  /\ Top \in Frame /\ Top.range \in Ranges /\ Top.entries \in Seq(Entry)
           /\ Top.attempt \in 0..2 /\ Len(Top.entries) <= Capacity
           /\ Len(stack) - 1 \in 0..Len(stack)
<1>1. stack \in Seq(Frame) /\ Len(stack) \in DOMAIN stack /\ Top \in Frame /\ Len(stack) \in Nat \ {0}
  BY LastOf DEF TInv, StackOK, Waiting, Top
<1>2. Top.range # NoRange /\ Len(Top.entries) <= Capacity
  BY <1>1 DEF TInv, StackOK, Waiting, Top
<1>3. QED
  BY <1>1, <1>2 DEF Frame

(* A callback stands on the call that waits for it.                        *)
LEMMA CallbackFrame ==
    ASSUME TInv, InCallback
    PROVE  /\ Len(stack) - 1 \in 0..Len(stack) /\ Len(stack) - 2 \in 0..Len(stack)
           /\ stack[Len(stack) - 1].range \in Ranges
<1>1. /\ stack \in Seq(Frame) /\ Len(stack) \in DOMAIN stack /\ Len(stack) \in Nat \ {0}
      /\ DOMAIN stack = 1..Len(stack)
  BY LastOf, LenProperties DEF TInv, StackOK, InCallback
<1>2. Len(stack) % 2 = 0
  BY <1>1 DEF TInv, StackOK, InCallback, Top, Callback
<1> DEFINE n == Len(stack)
<1>3. n # 1 /\ n \in Nat \ {0} /\ n % 2 = 0
  BY <1>1, <1>2
<1> HIDE DEF n
<1>4. n - 1 \in 1..n /\ n - 2 \in 0..n /\ (n - 1) % 2 # 0
  BY <1>3
<1>5. n - 1 \in DOMAIN stack
  BY <1>1, <1>4 DEF n
<1>6. stack[n - 1] \in Frame /\ stack[n - 1].range # NoRange
  BY <1>1, <1>4, <1>5, ElementOfSeq DEF TInv, StackOK, n
<1>7. QED
  BY <1>4, <1>6 DEF Frame, n

-----------------------------------------------------------------------------
(* Results.                                                                *)

LEMMA AddressOfEntry ==
    ASSUME NEW entries \in Seq(Entry), NEW d \in Ids(entries)
    PROVE  /\ \E i \in DOMAIN entries : /\ entries[i].device = d
                                        /\ AddressIn(entries, d) = entries[i].address
           /\ AddressIn(entries, d) \in Nat /\ d \in Devices
<1>1. \E i \in DOMAIN entries : entries[i].device = d
  BY DEF Ids
<1>2. \A i \in DOMAIN entries : entries[i] \in Entry
  BY LenProperties, ElementOfSeq
<1>3. PICK i \in DOMAIN entries : entries[i].device = d /\ AddressIn(entries, d) = entries[i].address
  BY <1>1 DEF AddressIn
<1>4. entries[i].address \in Nat /\ entries[i].device \in Devices
  BY <1>2 DEF Entry
<1>5. QED
  BY <1>3, <1>4

LEMMA UpdatedTyped ==
    ASSUME NEW f \in [Devices -> Nat], NEW entries \in Seq(Entry)
    PROVE  Updated(f, entries) \in [Devices -> Nat]
BY AddressOfEntry DEF Updated

(* What a result leaves behind has its type.                               *)
LEMMA ResultTyped ==
    ASSUME TypeOK, NEW entries \in Seq(Entry), Result(entries)
    PROVE  route' \in [Devices -> Nat] /\ held' \in [Devices -> Nat]
BY UpdatedTyped DEF TypeOK, Result

LEMMA StoreTyped ==
    ASSUME TypeOK, NEW r \in Ranges, NEW entries \in Seq(Entry), Store(r, entries)
    PROVE  /\ {route', held', known'} \subseteq [Devices -> Nat]
           /\ {device_cache', found'} \subseteq [Ranges -> Seq(Entry)]
           /\ negative' \subseteq Ranges
           /\ ended' \in [Ranges -> {"never", "found", "silent", "exception"}]
<1>1. Updated(known, entries) \in [Devices -> Nat]
  BY UpdatedTyped DEF TypeOK
<1> DEFINE u == Updated(known, entries)
<1>2. known' = [d \in Devices |-> IF u[d] > known[d] THEN u[d] ELSE known[d]]
  BY DEF Store
<1>3. known' \in [Devices -> Nat]
  <2> HIDE DEF u
  <2> QED BY <1>1, <1>2 DEF TypeOK, u
<1>4. route' \in [Devices -> Nat] /\ held' \in [Devices -> Nat]
  BY ResultTyped DEF Store
<1>5. QED
  BY <1>3, <1>4 DEF Store, TypeOK

LEMMA StoreEmptyTyped ==
    ASSUME TypeOK, NEW r \in Ranges, NEW how \in {"silent", "exception"}, StoreEmpty(r, how)
    PROVE  /\ {route', held', known'} \subseteq [Devices -> Nat]
           /\ device_cache' \in [Ranges -> Seq(Entry)]
           /\ negative' \subseteq Ranges
           /\ ended' \in [Ranges -> {"never", "found", "silent", "exception"}]
BY DEF TypeOK, StoreEmpty

LEMMA ArriveTyped ==
    ASSUME TypeOK, NEW k \in {"i-am", "cov"}, NEW d \in Devices
    PROVE  Arrive(k, d) \in Seq(Datagram)
<1>1. [kind |-> k, device |-> d, address |-> address[d]] \in Datagram
  BY DEF TypeOK, Datagram
<1>2. QED
  BY <1>1, Longer DEF TypeOK, Arrive

-----------------------------------------------------------------------------
(* The types are inductive.                                                *)

LEMMA EmptyFacts == \A S : <<>> \in Seq(S) /\ Len(<<>>) = 0 /\ DOMAIN <<>> = {}
OBVIOUS

LEMMA TypeInit == Init => TInv
<1> SUFFICES ASSUME Init PROVE TInv
  OBVIOUS
<1>1. StackOK(stack)
  BY EmptyFacts DEF Init, StackOK
<1>2. TypeOK
  <2>1. /\ {address, route, held, known} \subseteq [Devices -> Nat]
        /\ asked \subseteq Devices /\ negative \subseteq Ranges
        /\ ended \in [Ranges -> {"never", "found", "silent", "exception"}]
        /\ handler \in BOOLEAN /\ calls \in Nat
    <3>1. address \in [Devices -> Nat] /\ route \in [Devices -> Nat]
      BY DEF Init
    <3>2. held \in [Devices -> Nat] /\ known \in [Devices -> Nat]
      BY DEF Init
    <3>3. ended \in [Ranges -> {"never", "found", "silent", "exception"}]
      BY DEF Init
    <3>4. QED
      BY <3>1, <3>2, <3>3 DEF Init
  <2>2. device_cache \in [Ranges -> Seq(Entry)] /\ found \in [Ranges -> Seq(Entry)]
    BY EmptyFacts DEF Init
  <2>3. socket \in Seq(Datagram)
    BY EmptyFacts DEF Init
  <2>4. QED
    BY <1>1, <2>1, <2>2, <2>3 DEF TypeOK, StackOK
<1>3. QED
  BY <1>1, <1>2 DEF TInv

\* The parts of TInv, for the steps.
Caches == /\ {route, held, known} \subseteq [Devices -> Nat]
          /\ {device_cache, found} \subseteq [Ranges -> Seq(Entry)]
          /\ negative \subseteq Ranges
          /\ ended \in [Ranges -> {"never", "found", "silent", "exception"}]
Net == address \in [Devices -> Nat] /\ asked \subseteq Devices /\ socket \in Seq(Datagram)
Caller == handler \in BOOLEAN /\ calls \in Nat

LEMMA TInvParts == TInv <=> Caches /\ Net /\ Caller /\ StackOK(stack)
BY DEF TInv, TypeOK, StackOK, Caches, Net, Caller

LEMMA TypeStep == TInv /\ [Next]_vars => TInv'
<1> SUFFICES ASSUME TInv, [Next]_vars PROVE TInv'
  OBVIOUS
<1> USE DEF netVars, cacheVars, histVars
<1>0. /\ Caches /\ Net /\ Caller /\ StackOK(stack) /\ TypeOK
      /\ Ranges \subseteq SUBSET Devices /\ Capacity \in Nat \ {0}
  BY TInvParts, RangesAssumption DEF TInv
<1>a. ASSUME Caches', Net', Caller', StackOK(stack') PROVE TInv'
  BY <1>a, TInvParts DEF TInv, TypeOK, StackOK, Caches, Net, Caller
<1>b. UNCHANGED <<cacheVars, held, histVars>> => Caches'
  BY <1>0 DEF Caches
<1>c. UNCHANGED netVars => Net'
  BY <1>0 DEF Net
<1>d. handler' \in BOOLEAN /\ (calls' = calls \/ calls' = calls + 1) => Caller'
  BY <1>0 DEF Caller
<1>e. handler' = handler => handler' \in BOOLEAN
  BY <1>0 DEF Caller
<1>f. stack' = stack => StackOK(stack')
  BY <1>0
<1>g. CanCall => Script /\ calls' = calls + 1
  BY DEF CanCall
<1>1. ASSUME NEW r \in Ranges, WhoIsCached(r) PROVE TInv'
  <2>1. device_cache[r] \in Seq(Entry)
    BY <1>0 DEF Caches
  <2>2. Caches'
    BY <1>0, <1>1, <2>1, ResultTyped DEF WhoIsCached, Caches
  <2>3. QED
    BY <1>1, <1>a, <1>c, <1>d, <1>e, <1>f, <2>2 DEF WhoIsCached
<1>2. ASSUME NEW r \in Ranges, WhoIsNegative(r) PROVE TInv'
  BY <1>2, <1>a, <1>b, <1>c, <1>d, <1>e, <1>f DEF WhoIsNegative
<1>3. ASSUME NEW r \in Ranges, NEW refresh \in BOOLEAN, WhoIsSends(r, refresh) PROVE TInv'
  <2> DEFINE f == [range |-> r, attempt |-> 1, entries |-> <<>>]
  <2>1. f \in Frame /\ Len(f.entries) <= Capacity /\ f.range # NoRange
    <3>1. <<>> \in Seq(Entry) /\ Len(<<>>) = 0
      BY EmptyFacts
    <3>2. f \in Frame
      BY <3>1, NewCall, 1 \in 0..2
    <3>3. QED
      BY <1>0, <3>1, <3>2, RangesAssumption
  <2>2. stack' = Append(stack, f) /\ Script
    BY <1>3 DEF WhoIsSends, CanCall
  <2>3. StackOK(stack')
    <3> HIDE DEF f
    <3> QED BY <1>0, <2>1, <2>2, StackPush
  <2>4. device_cache' \in [Ranges -> Seq(Entry)] /\ negative' \subseteq Ranges
    <3>1. <<>> \in Seq(Entry)
      BY EmptyFacts
    <3>2. QED
      BY <1>0, <1>3, <3>1 DEF WhoIsSends, Caches
  <2>5. Caches' /\ Net'
    BY <1>0, <1>3, <2>4 DEF WhoIsSends, Caches, Net, Broadcast
  <2>6. QED
    BY <1>3, <1>a, <1>d, <1>e, <1>g, <2>3, <2>5 DEF WhoIsSends
<1>h. ASSUME Collecting PROVE /\ Waiting /\ Len(Top.entries) < Capacity
                              /\ socket # <<>> /\ Head(socket) \in Datagram /\ socket' \in Seq(Datagram)
  BY <1>0, <1>h, WithoutHead DEF Collecting, Net
<1>4. CASE CollectIAm
  <2>1. /\ Waiting /\ Len(Top.entries) < Capacity /\ Head(socket) \in Datagram
        /\ socket' \in Seq(Datagram)
    BY <1>4, <1>h DEF CollectIAm
  <2>2. Net'
    BY <1>0, <1>4, <2>1 DEF CollectIAm, Net
  <2>3. StackOK(stack')
    <3> DEFINE e == [device |-> Head(socket).device, address |-> Head(socket).address]
               f == [Top EXCEPT !.entries = Append(@, e)]
    <3>1. e \in Entry
      BY <2>1 DEF Datagram, Entry
    <3>2. /\ Top \in Frame /\ Top.range \in Ranges /\ Top.entries \in Seq(Entry)
          /\ Top.attempt \in 0..2
      BY <2>1, WaitingFrame
    <3>3. Append(Top.entries, e) \in Seq(Entry) /\ Len(Append(Top.entries, e)) <= Capacity
      <4> HIDE DEF e
      <4>1. Append(Top.entries, e) \in Seq(Entry)
            /\ Len(Append(Top.entries, e)) = Len(Top.entries) + 1 /\ Len(Top.entries) \in Nat
        BY <3>1, <3>2, Longer, LenProperties
      <4>2. QED
        BY <1>0, <2>1, <4>1
    <3>4. f \in Frame /\ f.range = Top.range /\ f.entries = Append(Top.entries, e)
      <4> HIDE DEF e
      <4> QED BY <3>2, <3>3 DEF Frame
    <3>5. stack' = stack \/ stack' = [stack EXCEPT ![Len(stack)] = f]
      BY <1>4 DEF CollectIAm, Top
    <3> HIDE DEF e, f
    <3>6. QED
      BY <1>0, <2>1, <3>3, <3>4, <3>5, StackReplace
  <2>4. QED
    BY <1>4, <1>a, <1>b, <1>d, <1>e, <2>2, <2>3 DEF CollectIAm
<1>i. Callback \in Frame /\ Len(Callback.entries) <= Capacity
  <2>1. <<>> \in Seq(Entry) /\ Len(<<>>) = 0
    BY EmptySeq
  <2>2. QED
    BY <1>0, <2>1 DEF Callback, Frame
<1>5. CASE CollectCov
  <2>1. Waiting /\ socket' \in Seq(Datagram)
    BY <1>5, <1>h DEF CollectCov
  <2>2. Net'
    BY <1>0, <1>5, <2>1 DEF CollectCov, Net
  <2>3. StackOK(stack')
    BY <1>0, <1>5, <1>i, <2>1, StackPush DEF CollectCov
  <2>4. QED
    BY <1>5, <1>a, <1>b, <1>d, <1>e, <2>2, <2>3 DEF CollectCov
<1>6. CASE EndCollect
  <2>1. /\ Waiting /\ Top \in Frame /\ Top.range \in Ranges /\ Top.entries \in Seq(Entry)
        /\ Len(Top.entries) <= Capacity /\ Len(stack) - 1 \in 0..Len(stack)
    BY <1>6, WaitingFrame DEF EndCollect
  <2>2. StackOK(Below)
    BY <1>0, <2>1, StackPop DEF Below
  <2>3. CASE Top.entries = <<>> /\ Top.attempt = 1
    <3> DEFINE f == [Top EXCEPT !.attempt = 2]
    <3>1. f \in Frame /\ f.range = Top.range /\ f.entries = Top.entries
      BY <2>1 DEF Frame
    <3>2. stack' = [stack EXCEPT ![Len(stack)] = f]
      BY <1>6, <2>3 DEF EndCollect, Top
    <3>3. StackOK(stack')
      <4> HIDE DEF f
      <4> QED BY <1>0, <2>1, <3>1, <3>2, StackReplace
    <3>4. Net' /\ Caches' /\ Caller'
      BY <1>0, <1>6, <1>b, <1>d, <1>e, <2>1, <2>3 DEF EndCollect, Net, Broadcast
    <3>5. QED
      BY <1>a, <3>3, <3>4
  <2>4. CASE Top.entries = <<>> /\ Top.attempt = 2
    <3>1. StoreEmpty(Top.range, "silent") /\ found' = [found EXCEPT ![Top.range] = <<>>]
          /\ stack' = Below /\ UNCHANGED netVars /\ Caller'
      BY <1>6, <1>d, <1>e, <2>4 DEF EndCollect
    <3>2. Caches'
      BY <1>0, <2>1, <3>1, StoreEmptyTyped DEF Caches
    <3>3. QED
      BY <1>a, <1>c, <2>2, <3>1, <3>2
  <2>5. CASE Top.entries # <<>>
    <3>1. Store(Top.range, Top.entries) /\ stack' = Below /\ UNCHANGED netVars /\ Caller'
      BY <1>6, <1>d, <1>e, <2>5 DEF EndCollect
    <3>2. Caches'
      BY <1>0, <2>1, <3>1, StoreTyped DEF Caches
    <3>3. QED
      BY <1>a, <1>c, <2>2, <3>1, <3>2
  <2>6. QED
    BY <1>6, <2>3, <2>4, <2>5 DEF EndCollect
<1>7. CASE CallbackReturns
  <2>1. StackOK(stack')
    BY <1>0, <1>7, CallbackFrame, StackPop DEF CallbackReturns, Below
  <2>2. QED
    BY <1>7, <1>a, <1>b, <1>c, <1>d, <1>e, <2>1 DEF CallbackReturns
<1>8. CASE CallbackThrows
  <2> DEFINE r == stack[Len(stack) - 1].range
  <2>1. r \in Ranges /\ StackOK(stack')
    BY <1>0, <1>8, CallbackFrame, StackPop DEF CallbackThrows
  <2>2. StoreEmpty(r, "exception") /\ found' = found
    BY <1>8 DEF CallbackThrows
  <2>3. Caches'
    <3> HIDE DEF r
    <3> QED BY <1>0, <2>1, <2>2, StoreEmptyTyped DEF Caches
  <2>4. QED
    BY <1>8, <1>a, <1>c, <1>d, <1>e, <2>1, <2>3 DEF CallbackThrows
<1>9. ASSUME NEW d \in Devices, RefreshRoute(d) PROVE TInv'
  <2>1. Caches'
    BY <1>0, <1>9 DEF RefreshRoute, Caches
  <2>2. QED
    BY <1>9, <1>a, <1>c, <1>d, <1>e, <1>f, <2>1 DEF RefreshRoute
<1>10. CASE OnCovNotification
  BY <1>10, <1>a, <1>b, <1>c, <1>d, <1>f DEF OnCovNotification
<1>11. CASE Discard
  <2>1. Net'
    BY <1>0, <1>11, WithoutHead DEF Discard, Net
  <2>2. QED
    BY <1>11, <1>a, <1>b, <1>d, <1>e, <1>f, <2>1 DEF Discard
<1>12. CASE Expire
  <2>1. Caches'
    <3>1. <<>> \in Seq(Entry)
      OBVIOUS
    <3>2. CASE \E r \in Ranges : /\ device_cache' = [device_cache EXCEPT ![r] = <<>>]
                                 /\ UNCHANGED <<negative, route>>
      BY <1>0, <1>12, <3>1, <3>2 DEF Expire, Caches
    <3>3. CASE \E r \in negative : negative' = negative \ {r} /\ UNCHANGED <<device_cache, route>>
      BY <1>0, <1>12, <3>3 DEF Expire, Caches
    <3>4. CASE \E d \in Devices : /\ route' = [route EXCEPT ![d] = 0]
                                  /\ UNCHANGED <<device_cache, negative>>
      BY <1>0, <1>12, <3>4 DEF Expire, Caches
    <3>5. QED
      BY <1>12, <3>2, <3>3, <3>4 DEF Expire
  <2>2. QED
    BY <1>12, <1>a, <1>c, <1>d, <1>e, <1>f, <2>1 DEF Expire
<1>13. ASSUME NEW d \in Devices, Answer(d) PROVE TInv'
  <2>1. Net'
    BY <1>0, <1>13, ArriveTyped DEF Answer, Net
  <2>2. QED
    BY <1>13, <1>a, <1>b, <1>d, <1>e, <1>f, <2>1 DEF Answer
<1>14. ASSUME NEW d \in Devices, Notification(d) PROVE TInv'
  <2>1. Net'
    BY <1>0, <1>14, ArriveTyped DEF Notification, Net
  <2>2. QED
    BY <1>14, <1>a, <1>b, <1>d, <1>e, <1>f, <2>1 DEF Notification
<1>15. ASSUME NEW d \in Devices, Move(d) PROVE TInv'
  <2>1. Net'
    BY <1>0, <1>15 DEF Move, Net
  <2>2. QED
    BY <1>15, <1>a, <1>b, <1>d, <1>e, <1>f, <2>1 DEF Move
<1>16. CASE UNCHANGED vars
  BY <1>16, <1>a, <1>b, <1>c, <1>d, <1>e, <1>f DEF vars
<1>17. QED
  BY <1>1, <1>2, <1>3, <1>4, <1>5, <1>6, <1>7, <1>8, <1>9, <1>10, <1>11, <1>12, <1>13, <1>14,
     <1>15, <1>16 DEF Next, WhoIs, Collect, Network

(* Every variable keeps its type, for any number of devices, ranges, calls   *)
(* and callbacks: a call collects no more devices than its array holds, and  *)
(* calls and callbacks alternate on the stack.                               *)
THEOREM TypeCorrect == Spec => []TypeOK
<1>1. TInv => TypeOK
  BY DEF TInv
<1>2. QED
  BY <1>1, TypeInit, TypeStep, PTL DEF Spec

-----------------------------------------------------------------------------
(* Until onCovNotification() is called, one search at a time waits, and the  *)
(* DEVICE partition has no result for the range it asks for.                 *)

OneSearch ==
    /\ Len(stack) <= 1
    /\ stack # <<>> => device_cache[Top.range] = <<>>

CInv == ~handler => /\ OneSearch
                    /\ \A r \in Ranges : device_cache[r] # <<>> => device_cache[r] = found[r]

(* Replacing the only frame.                                               *)
LEMMA OnlyFrame ==
    ASSUME NEW s \in Seq(Frame), Len(s) = 1, NEW f, NEW t \in Seq(Frame),
           t = [s EXCEPT ![Len(s)] = f]
    PROVE  Len(t) = 1 /\ t[Len(t)] = f /\ t # <<>>
<1>1. DOMAIN s = {1} /\ DOMAIN t = DOMAIN s /\ 1 \in DOMAIN s
  BY LenProperties
<1>2. t # <<>>
  BY <1>1, EmptySeq
<1>3. Len(t) \in DOMAIN t
  BY <1>2, LastOf
<1>4. Len(t) = 1 /\ t[1] = f
  BY <1>1, <1>3
<1>5. QED
  BY <1>2, <1>4

(* Without a handler the stack is empty, or holds one call that waits.       *)
LEMMA Single ==
    ASSUME TInv, OneSearch
    PROVE  /\ stack # <<>> => Waiting /\ Len(stack) = 1 /\ Below = <<>>
           /\ Script => stack = <<>>
           /\ ~InCallback
<1>1. stack \in Seq(Frame)
  BY DEF TInv, StackOK
<1>2. ASSUME stack # <<>> PROVE Waiting /\ Len(stack) = 1 /\ Below = <<>>
  <2>1. Len(stack) = 1 /\ 1 \in DOMAIN stack
    <3> DEFINE n == Len(stack)
    <3>1. n \in Nat \ {0} /\ n \in DOMAIN stack /\ n <= 1
      BY <1>1, <1>2, LastOf DEF OneSearch
    <3> HIDE DEF n
    <3>2. n = 1
      BY <3>1
    <3>3. QED
      BY <3>1, <3>2 DEF n
  <2>2. stack[1] # Callback
    BY <2>1 DEF TInv, StackOK, Callback
  <2>3. Waiting
    BY <1>2, <2>1, <2>2 DEF Waiting, Top
  <2>4. Below \in Seq(Frame) /\ Len(Below) = 0
    <3>1. 0 \in 0..Len(stack) /\ Len(stack) - 1 = 0
      BY <2>1
    <3>2. QED
      BY <1>1, <3>1, Front DEF Below
  <2>5. QED
    BY <2>1, <2>3, <2>4, EmptySeq
<1>3. QED
  BY <1>2 DEF Script, Waiting, InCallback

(* A call is sent on an empty stack.                                       *)
LEMMA FirstFrame ==
    ASSUME NEW f
    PROVE  Append(<<>>, f) = <<f>> /\ Len(<<f>>) = 1 /\ <<f>>[Len(<<f>>)] = f /\ <<f>> # <<>>
OBVIOUS

(* The handler, once installed, stays.                                     *)
LEMMA HandlerStays == [Next]_vars => OnCovNotification \/ handler' = handler
<1>1. \A r \in Ranges : WhoIs(r) => handler' = handler
  BY DEF WhoIs, WhoIsCached, WhoIsNegative, WhoIsSends
<1>2. Collect \/ EndCollect \/ CallbackReturns \/ CallbackThrows => handler' = handler
  BY DEF Collect, CollectIAm, CollectCov, EndCollect, CallbackReturns, CallbackThrows
<1>3. \A d \in Devices : RefreshRoute(d) => handler' = handler
  BY DEF RefreshRoute
<1>4. Discard \/ Expire \/ Network \/ UNCHANGED vars => handler' = handler
  BY DEF Discard, Expire, Network, Answer, Notification, Move, vars
<1>5. QED
  BY <1>1, <1>2, <1>3, <1>4 DEF Next

LEMMA CacheStep == TInv /\ CInv /\ [Next]_vars => CInv'
<1> SUFFICES ASSUME TInv, CInv, [Next]_vars, ~handler' PROVE CInv'
  BY DEF CInv
<1> USE DEF netVars, cacheVars, histVars
<1>0. ~handler /\ ~OnCovNotification
  BY HandlerStays DEF OnCovNotification
<1>1. /\ OneSearch
      /\ \A r \in Ranges : device_cache[r] # <<>> => device_cache[r] = found[r]
  BY <1>0 DEF CInv
<1>2. /\ stack # <<>> => Waiting /\ Len(stack) = 1 /\ Below = <<>>
      /\ Script => stack = <<>>
      /\ ~InCallback
  BY <1>1, Single
<1>a. UNCHANGED <<stack, device_cache, found>> => CInv'
  BY <1>1 DEF CInv, OneSearch, Top
<1>3. ASSUME NEW r \in Ranges, WhoIsCached(r) \/ WhoIsNegative(r) PROVE CInv'
  BY <1>3, <1>a DEF WhoIsCached, WhoIsNegative
<1>4. ASSUME NEW r \in Ranges, NEW refresh \in BOOLEAN, WhoIsSends(r, refresh) PROVE CInv'
  <2> DEFINE f == [range |-> r, attempt |-> 1, entries |-> <<>>]
  <2>1. stack' = Append(stack, f) /\ Script /\ found' = found
    BY <1>4 DEF WhoIsSends, CanCall
  <2>2. f.range = r
    OBVIOUS
  <2>3. Len(stack') = 1 /\ Top' = f
    <3> HIDE DEF f
    <3> QED BY <1>2, <2>1, FirstFrame DEF Top
  <2>4. device_cache'[r] = <<>> /\ \A x \in Ranges : device_cache'[x] \in {device_cache[x], <<>>}
    BY <1>4 DEF WhoIsSends
  <2>5. OneSearch'
    BY <2>2, <2>3, <2>4 DEF OneSearch
  <2>6. QED
    BY <1>1, <2>1, <2>4, <2>5 DEF CInv
<1>5. CASE CollectIAm
  <2> DEFINE e == [device |-> Head(socket).device, address |-> Head(socket).address]
             f == [Top EXCEPT !.entries = Append(@, e)]
  <2>1. Waiting /\ Top \in Frame /\ stack \in Seq(Frame)
    BY <1>5, WaitingFrame DEF CollectIAm, Collecting, TInv, StackOK
  <2>2. f.range = Top.range
    BY <2>1 DEF Frame
  <2>3. stack' = stack \/ stack' = [stack EXCEPT ![Len(stack)] = f]
    BY <1>5 DEF CollectIAm, Top
  <2>4. Len(stack') = Len(stack) /\ Top'.range = Top.range
    <3>1. CASE stack' = stack
      BY <3>1 DEF Top
    <3>2. CASE stack' = [stack EXCEPT ![Len(stack)] = f]
      <4>1. Len(stack) = 1 /\ stack' \in Seq(Frame)
        BY <1>2, <2>1, TypeStep DEF Waiting, TInv, TypeOK
      <4>2. Len(stack') = 1 /\ Top' = f
        <5> HIDE DEF f
        <5> QED BY <2>1, <3>2, <4>1, OnlyFrame DEF Top
      <4>3. QED
        BY <2>2, <4>1, <4>2
    <3>3. QED
      BY <2>3, <3>1, <3>2
  <2>5. QED
    BY <1>1, <1>5, <2>1, <2>4 DEF CInv, OneSearch, CollectIAm, Waiting
<1>6. CASE CollectCov
  BY <1>0, <1>6, <1>a DEF CollectCov
<1>7. CASE EndCollect
  <2>1. Waiting /\ Top.range \in Ranges /\ stack # <<>> /\ Len(stack) = 1
    BY <1>2, <1>7, WaitingFrame DEF EndCollect, Waiting
  <2>2. CASE stack' = Below /\ Top.entries = <<>>
    <3>1. device_cache' = device_cache /\ \A r \in Ranges : r # Top.range => found'[r] = found[r]
      BY <1>7, <2>1, <2>2 DEF EndCollect, StoreEmpty, TInv, TypeOK
    <3>2. device_cache[Top.range] = <<>> /\ stack' = <<>>
      BY <1>1, <1>2, <2>1, <2>2 DEF OneSearch
    <3>3. QED
      BY <1>1, <3>1, <3>2 DEF CInv, OneSearch
  <2>3. CASE stack' = Below /\ Top.entries # <<>>
    <3>1. \A r \in Ranges : \/ r = Top.range /\ device_cache'[r] = found'[r]
                            \/ device_cache'[r] = device_cache[r] /\ found'[r] = found[r]
      BY <1>7, <2>1, <2>3 DEF EndCollect, Store, TInv, TypeOK
    <3>2. stack' = <<>>
      BY <1>2, <2>1, <2>3
    <3>3. QED
      BY <1>1, <3>1, <3>2 DEF CInv, OneSearch
  <2>4. CASE /\ stack' = [stack EXCEPT ![Len(stack)].attempt = 2]
             /\ UNCHANGED <<cacheVars, held, histVars>>
    <3> DEFINE f == [Top EXCEPT !.attempt = 2]
    <3>1. Top \in Frame /\ stack \in Seq(Frame)
      BY <2>1, WaitingFrame DEF TInv, StackOK
    <3>2. f.range = Top.range /\ stack' = [stack EXCEPT ![Len(stack)] = f]
      BY <2>4, <3>1 DEF Frame, Top
    <3>3. stack' \in Seq(Frame)
      BY TypeStep DEF TInv, TypeOK
    <3>4. Len(stack') = 1 /\ Top' = f
      <4> HIDE DEF f
      <4> QED BY <2>1, <3>1, <3>2, <3>3, OnlyFrame DEF Top
    <3>5. QED
      BY <1>1, <2>1, <2>4, <3>2, <3>4 DEF CInv, OneSearch
  <2>5. QED
    BY <1>7, <2>2, <2>3, <2>4 DEF EndCollect
<1>8. ~CallbackReturns /\ ~CallbackThrows
  BY <1>2 DEF CallbackReturns, CallbackThrows
<1>9. ASSUME NEW d \in Devices, RefreshRoute(d) PROVE CInv'
  BY <1>9, <1>a DEF RefreshRoute
<1>10. CASE Discard
  BY <1>10, <1>a DEF Discard
<1>11. CASE Expire
  <2>1. /\ \A r \in Ranges : device_cache'[r] \in {device_cache[r], <<>>}
        /\ UNCHANGED <<stack, found>>
    BY <1>11 DEF Expire, TInv, TypeOK
  <2>2. stack # <<>> => Top.range \in Ranges
    BY <1>2, WaitingFrame
  <2>3. QED
    BY <1>1, <2>1, <2>2 DEF CInv, OneSearch, Top
<1>12. CASE Network
  BY <1>12, <1>a DEF Network, Answer, Notification, Move
<1>13. CASE UNCHANGED vars
  BY <1>13, <1>a DEF vars
<1>14. QED
  BY <1>0, <1>3, <1>4, <1>5, <1>6, <1>7, <1>8, <1>9, <1>10, <1>11, <1>12, <1>13
     DEF Next, WhoIs, Collect

LEMMA CacheCorrect == Spec => []CInv
<1>1. Init => CInv
  <2> SUFFICES ASSUME Init PROVE CInv
    OBVIOUS
  <2>1. Len(stack) = 0
    BY EmptyFacts DEF Init
  <2>2. QED
    BY <2>1 DEF Init, CInv, OneSearch
<1>2. QED
  BY <1>1, CacheStep, TypeInit, TypeStep, PTL DEF Spec

(* Without a COV handler a whoIs() answered by the cache returns what the    *)
(* network last answered for this range: a search that ends in silence never *)
(* leaves an older result behind.                                            *)
THEOREM CacheFollowsSearch == Spec => []CacheReflectsDiscovery
<1>1. CInv => CacheReflectsDiscovery
  BY DEF CInv, CacheReflectsDiscovery
<1>2. QED
  BY <1>1, CacheCorrect, PTL

-----------------------------------------------------------------------------
(* Routes.  The addresses of a device only grow on their way from the script *)
(* back to the network: those that searches have shown (k), the entries      *)
(* collected (es), the datagrams in the socket (s), the address now (a).     *)

SocketOK(s, k, a) ==
    /\ \A i \in DOMAIN s : k[s[i].device] <= s[i].address /\ s[i].address <= a[s[i].device]
    /\ \A i, j \in DOMAIN s : i < j /\ s[i].device = s[j].device => s[i].address <= s[j].address

SearchOK(es, s, k, a) ==
    /\ \A i \in DOMAIN es : k[es[i].device] <= es[i].address /\ es[i].address <= a[es[i].device]
    /\ \A i \in DOMAIN es, j \in DOMAIN s :
          es[i].device = s[j].device => es[i].address <= s[j].address

Newer ==
    /\ \A d \in Devices : known[d] <= address[d]
    /\ SocketOK(socket, known, address)
    /\ stack # <<>> => SearchOK(Top.entries, socket, known, address)

(* The oldest datagram is taken out of the socket; it may become an entry.   *)
LEMMA TakeOldest ==
    ASSUME NEW s \in Seq(Datagram), s # <<>>, NEW k \in [Devices -> Nat],
           NEW a \in [Devices -> Nat], SocketOK(s, k, a)
    PROVE  /\ SocketOK(Tail(s), k, a)
           /\ \A es \in Seq(Entry) : SearchOK(es, s, k, a) =>
                /\ SearchOK(es, Tail(s), k, a)
                /\ \A e \in Entry : e.device = Head(s).device /\ e.address = Head(s).address
                                     => SearchOK(Append(es, e), Tail(s), k, a)
<1>1. /\ Tail(s) \in Seq(Datagram) /\ Head(s) = s[1] /\ 1 \in DOMAIN s /\ Head(s) \in Datagram
      /\ \A i \in DOMAIN Tail(s) : i + 1 \in DOMAIN s /\ Tail(s)[i] = s[i + 1]
      /\ DOMAIN Tail(s) \subseteq Nat \ {0}
  BY WithoutHead, LenProperties
<1>2. SocketOK(Tail(s), k, a)
  <2> DEFINE t == Tail(s)
  <2>1. \A i \in DOMAIN t : i \in Nat /\ i + 1 \in DOMAIN s /\ t[i] = s[i + 1]
    BY <1>1
  <2> HIDE DEF t
  <2>2. \A i, j \in DOMAIN t : i < j => i + 1 < j + 1
    BY <2>1
  <2>3. SocketOK(t, k, a)
    BY <2>1, <2>2 DEF SocketOK
  <2>4. QED
    BY <2>3 DEF t
<1>3. ASSUME NEW es \in Seq(Entry), SearchOK(es, s, k, a) PROVE SearchOK(es, Tail(s), k, a)
  BY <1>1, <1>3 DEF SearchOK
<1>4. ASSUME NEW es \in Seq(Entry), SearchOK(es, s, k, a), NEW e \in Entry,
             e.device = Head(s).device, e.address = Head(s).address
      PROVE  SearchOK(Append(es, e), Tail(s), k, a)
  <2> DEFINE t == Append(es, e)
  <2>1. \A i \in DOMAIN t : (i \in DOMAIN es /\ t[i] = es[i]) \/ t[i] = e
    BY Longer, LenProperties
  <2> HIDE DEF t
  <2>2. k[e.device] <= e.address /\ e.address <= a[e.device]
    BY <1>1, <1>4 DEF SocketOK
  <2>3. \A j \in DOMAIN Tail(s) : e.device = Tail(s)[j].device => e.address <= Tail(s)[j].address
    <3>1. \A j \in DOMAIN Tail(s) : j + 1 \in DOMAIN s /\ 1 < j + 1 /\ Tail(s)[j] = s[j + 1]
      BY <1>1
    <3>2. QED
      BY <1>1, <1>4, <3>1 DEF SocketOK
  <2>4. SearchOK(es, Tail(s), k, a)
    BY <1>3, <1>4
  <2>5. SearchOK(t, Tail(s), k, a)
    BY <2>1, <2>2, <2>3, <2>4 DEF SearchOK
  <2>6. QED
    BY <2>5 DEF t
<1>5. QED
  BY <1>2, <1>3, <1>4

(* A datagram arrives with the address its device has now.                   *)
LEMMA NewestArrives ==
    ASSUME NEW s \in Seq(Datagram), NEW k \in [Devices -> Nat], NEW a \in [Devices -> Nat],
           SocketOK(s, k, a), NEW g \in Datagram, g.address = a[g.device],
           \A d \in Devices : k[d] <= a[d]
    PROVE  /\ SocketOK(Append(s, g), k, a)
           /\ \A es \in Seq(Entry) : SearchOK(es, s, k, a) => SearchOK(es, Append(s, g), k, a)
<1> DEFINE t == Append(s, g)
<1>1. /\ \A i \in DOMAIN t : \/ i \in DOMAIN s /\ i \in 1..Len(s) /\ t[i] = s[i]
                             \/ i = Len(s) + 1 /\ t[i] = g
      /\ Len(s) \in Nat
  BY Longer, LenProperties
<1>2. g.device \in Devices /\ a[g.device] \in Nat
  BY DEF Datagram
<1> HIDE DEF t
<1>3. SocketOK(t, k, a)
  <2>1. ASSUME NEW i \in DOMAIN t
        PROVE  k[t[i].device] <= t[i].address /\ t[i].address <= a[t[i].device]
    <3>1. CASE i \in DOMAIN s /\ t[i] = s[i]
      BY <3>1 DEF SocketOK
    <3>2. CASE t[i] = g
      BY <1>2, <3>2
    <3>3. QED
      BY <1>1, <3>1, <3>2
  <2>2. ASSUME NEW i \in DOMAIN t, NEW j \in DOMAIN t, i < j, t[i].device = t[j].device
        PROVE  t[i].address <= t[j].address
    <3>1. i \in DOMAIN s /\ t[i] = s[i]
      <4>1. DOMAIN s = 1..Len(s)
        BY LenProperties
      <4>2. i # Len(s) + 1
        BY <1>1, <2>2, <4>1
      <4>3. QED
        BY <1>1, <4>2
    <3>2. CASE j \in DOMAIN s /\ t[j] = s[j]
      BY <2>2, <3>1, <3>2 DEF SocketOK
    <3>3. CASE t[j] = g
      BY <2>2, <3>1, <3>3 DEF SocketOK
    <3>4. QED
      BY <1>1, <3>2, <3>3
  <2>3. QED
    BY <2>1, <2>2 DEF SocketOK
<1>4. ASSUME NEW es \in Seq(Entry), SearchOK(es, s, k, a) PROVE SearchOK(es, t, k, a)
  BY <1>1, <1>4 DEF SearchOK
<1>5. QED
  BY <1>3, <1>4 DEF t

\* k2 is k, raised to collected addresses.
Raised(k, k2, es) ==
    \A d \in Devices : \/ k2[d] = k[d]
                       \/ \E i \in DOMAIN es : es[i].device = d /\ k2[d] = es[i].address

(* A result raises what is known to addresses that were collected.           *)
LEMMA ResultRaises ==
    ASSUME NEW s \in Seq(Datagram), NEW es \in Seq(Entry), NEW k \in [Devices -> Nat],
           NEW a \in [Devices -> Nat], NEW k2 \in [Devices -> Nat],
           SocketOK(s, k, a), SearchOK(es, s, k, a), \A d \in Devices : k[d] <= a[d],
           Raised(k, k2, es)
    PROVE  SocketOK(s, k2, a) /\ \A d \in Devices : k2[d] <= a[d]
<1>1. \A i \in DOMAIN s : s[i].device \in Devices
  <2>1. \A i \in DOMAIN s : s[i] \in Datagram
    BY LenProperties, ElementOfSeq
  <2>2. QED
    BY <2>1 DEF Datagram
<1>2. \A d \in Devices : k2[d] <= a[d]
  BY DEF SearchOK, Raised
<1>3. ASSUME NEW j \in DOMAIN s PROVE k2[s[j].device] <= s[j].address
  <2> DEFINE d == s[j].device
  <2>1. d \in Devices
    BY <1>1
  <2>2. CASE k2[d] = k[d]
    BY <2>2 DEF SocketOK
  <2>3. CASE \E i \in DOMAIN es : es[i].device = d /\ k2[d] = es[i].address
    BY <2>3 DEF SearchOK
  <2>4. QED
    BY <2>1, <2>2, <2>3 DEF Raised
<1>4. QED
  BY <1>2, <1>3 DEF SocketOK

(* The value that Store gives to known.                                    *)
LEMMA StoreKnown ==
    ASSUME TInv, NEW r \in Ranges, NEW es \in Seq(Entry), Store(r, es),
           SearchOK(es, socket, known, address)
    PROVE  /\ known' \in [Devices -> Nat]
           /\ \A d \in Devices : IF d \in Ids(es) THEN known'[d] = AddressIn(es, d)
                                                  ELSE known'[d] = known[d]
           /\ Raised(known, known', es)
<1> DEFINE u == Updated(known, es)
<1>1. known \in [Devices -> Nat] /\ u \in [Devices -> Nat] /\ known' \in [Devices -> Nat]
  BY UpdatedTyped, StoreTyped DEF TInv, TypeOK
<1>2. \A d \in Devices : known'[d] = IF u[d] > known[d] THEN u[d] ELSE known[d]
  BY DEF Store
<1>3. \A d \in Devices : u[d] = IF d \in Ids(es) THEN AddressIn(es, d) ELSE known[d]
  BY DEF Updated
<1>4. ASSUME NEW d \in Ids(es) PROVE AddressIn(es, d) >= known[d] /\ d \in Devices
  BY AddressOfEntry DEF SearchOK
<1> HIDE DEF u
<1>5. ASSUME NEW d \in Devices
      PROVE  IF d \in Ids(es) THEN known'[d] = AddressIn(es, d) ELSE known'[d] = known[d]
  <2>1. CASE d \in Ids(es)
    <3>1. u[d] = AddressIn(es, d) /\ u[d] >= known[d] /\ u[d] \in Nat /\ known[d] \in Nat
      BY <1>1, <1>3, <1>4, <2>1
    <3>2. QED
      BY <1>2, <2>1, <3>1
  <2>2. CASE d \notin Ids(es)
    BY <1>1, <1>2, <1>3, <2>2
  <2>3. QED
    BY <2>1, <2>2
<1>6. ASSUME NEW d \in Devices
      PROVE  \/ known'[d] = known[d]
             \/ \E i \in DOMAIN es : es[i].device = d /\ known'[d] = es[i].address
  <2>1. CASE d \in Ids(es)
    <3>1. PICK i \in DOMAIN es : es[i].device = d /\ AddressIn(es, d) = es[i].address
      BY <2>1, AddressOfEntry
    <3>2. QED
      BY <1>5, <2>1, <3>1
  <2>2. CASE d \notin Ids(es)
    BY <1>5, <2>2
  <2>3. QED
    BY <2>1, <2>2
<1>7. QED
  BY <1>1, <1>5, <1>6 DEF Raised

LEMMA NewerStep ==
    ASSUME TInv, TInv', OneSearch, Newer, ~OnCovNotification, ~handler, [Next]_vars
    PROVE  Newer'
<1> USE DEF netVars, cacheVars, histVars
<1>0. /\ address \in [Devices -> Nat] /\ known \in [Devices -> Nat] /\ route \in [Devices -> Nat]
      /\ socket \in Seq(Datagram) /\ device_cache \in [Ranges -> Seq(Entry)]
      /\ held \in [Devices -> Nat] /\ stack \in Seq(Frame)
  BY DEF TInv, TypeOK
<1>1. /\ stack # <<>> => Waiting /\ Len(stack) = 1 /\ Below = <<>>
      /\ Script => stack = <<>>
      /\ ~InCallback
  BY Single
<1>2. /\ \A d \in Devices : known[d] <= address[d]
      /\ SocketOK(socket, known, address)
      /\ stack # <<>> => SearchOK(Top.entries, socket, known, address)
  BY DEF Newer
<1>3. stack # <<>> => Top.entries \in Seq(Entry) /\ Top.range \in Ranges
  BY <1>1, WaitingFrame
<1>a. UNCHANGED <<address, socket, known, stack>> => Newer'
  BY <1>2 DEF Newer, Top
<1>4. ASSUME NEW r \in Ranges, WhoIsCached(r) PROVE Newer'
  BY <1>4, <1>a DEF WhoIsCached
<1>5. ASSUME NEW r \in Ranges, WhoIsNegative(r) PROVE Newer'
  BY <1>5, <1>a DEF WhoIsNegative
<1>6. ASSUME NEW r \in Ranges, NEW refresh \in BOOLEAN, WhoIsSends(r, refresh) PROVE Newer'
  <2> DEFINE f == [range |-> r, attempt |-> 1, entries |-> <<>>]
  <2>1. /\ stack' = Append(stack, f) /\ stack = <<>>
        /\ UNCHANGED <<address, socket, known>>
    BY <1>1, <1>6 DEF WhoIsSends, CanCall
  <2>2. f.entries = <<>>
    OBVIOUS
  <2>3. Top' = f
    <3> HIDE DEF f
    <3> QED BY <2>1, FirstFrame DEF Top
  <2>4. SearchOK(<<>>, socket, known, address)
    BY EmptyFacts DEF SearchOK
  <2> HIDE DEF f
  <2>5. QED
    BY <1>2, <2>1, <2>2, <2>3, <2>4 DEF Newer
<1>7. CASE CollectIAm
  <2> DEFINE e == [device |-> Head(socket).device, address |-> Head(socket).address]
             f == [Top EXCEPT !.entries = Append(@, e)]
  <2>1. /\ stack # <<>> /\ socket # <<>> /\ socket' = Tail(socket)
        /\ UNCHANGED <<address, known>>
    BY <1>7 DEF CollectIAm, Collecting, Waiting
  <2>2. e \in Entry /\ e.device = Head(socket).device /\ e.address = Head(socket).address
    <3>1. Head(socket) \in Datagram
      BY <1>0, <2>1, WithoutHead
    <3>2. QED
      BY <3>1 DEF Datagram, Entry
  <2>3. Top \in Frame /\ f.entries = Append(Top.entries, e)
    BY <1>1, <2>1, WaitingFrame DEF Frame
  <2>4. stack' = stack \/ stack' = [stack EXCEPT ![Len(stack)] = f]
    BY <1>7 DEF CollectIAm, Top
  <2>5. Top'.entries \in {Top.entries, Append(Top.entries, e)}
    <3>1. CASE stack' = stack
      BY <3>1 DEF Top
    <3>2. CASE stack' = [stack EXCEPT ![Len(stack)] = f]
      <4>1. Top' = f
        <5>1. Len(stack) = 1 /\ stack' \in Seq(Frame)
          BY <1>1, <2>1 DEF TInv, TypeOK
        <5> HIDE DEF f
        <5>2. QED
          BY <1>0, <3>2, <5>1, OnlyFrame DEF Top
      <4>2. QED
        BY <2>3, <4>1
    <3>3. QED
      BY <2>4, <3>1, <3>2
  <2> HIDE DEF e, f
  <2>6. /\ SocketOK(Tail(socket), known, address)
        /\ SearchOK(Top.entries, Tail(socket), known, address)
        /\ SearchOK(Append(Top.entries, e), Tail(socket), known, address)
    BY <1>0, <1>2, <1>3, <2>1, <2>2, TakeOldest
  <2>7. QED
    BY <1>2, <2>1, <2>5, <2>6 DEF Newer
<1>8. CASE CollectCov
  <2>1. /\ stack # <<>> /\ socket # <<>> /\ socket' = Tail(socket)
        /\ UNCHANGED <<address, known, stack>>
    BY <1>8 DEF CollectCov, Collecting, Waiting
  <2>2. /\ SocketOK(Tail(socket), known, address)
        /\ SearchOK(Top.entries, Tail(socket), known, address)
    BY <1>0, <1>2, <1>3, <2>1, TakeOldest
  <2>3. QED
    BY <1>2, <2>1, <2>2 DEF Newer, Top
<1>9. CASE EndCollect
  <2>1. stack # <<>> /\ Top.range \in Ranges /\ Top.entries \in Seq(Entry)
    BY <1>3, <1>9 DEF EndCollect, Waiting
  <2>2. CASE stack' = Below /\ Top.entries = <<>>
    <3>1. stack' = <<>> /\ UNCHANGED <<address, socket, known>>
      BY <1>1, <1>9, <2>1, <2>2 DEF EndCollect, StoreEmpty
    <3>2. QED
      BY <1>2, <3>1 DEF Newer
  <2>3. CASE stack' = Below /\ Top.entries # <<>>
    <3> DEFINE es == Top.entries
               r == Top.range
    <3>1. Store(r, es) /\ stack' = <<>> /\ UNCHANGED <<address, socket>>
      BY <1>1, <1>9, <2>1, <2>3 DEF EndCollect
    <3>2. SearchOK(es, socket, known, address)
      BY <1>2, <2>1
    <3> HIDE DEF es, r
    <3>3. r \in Ranges /\ es \in Seq(Entry)
      BY <2>1 DEF es, r
    <3>4. /\ known' \in [Devices -> Nat]
          /\ \A d \in Devices : IF d \in Ids(es) THEN known'[d] = AddressIn(es, d)
                                                 ELSE known'[d] = known[d]
          /\ SocketOK(socket, known', address) /\ \A d \in Devices : known'[d] <= address[d]
      <4>1. /\ known' \in [Devices -> Nat]
            /\ \A d \in Devices : IF d \in Ids(es) THEN known'[d] = AddressIn(es, d)
                                                   ELSE known'[d] = known[d]
            /\ Raised(known, known', es)
        BY <3>1, <3>2, <3>3, StoreKnown
      <4>2. SocketOK(socket, known', address) /\ \A d \in Devices : known'[d] <= address[d]
        BY <1>0, <1>2, <3>2, <3>3, <4>1, ResultRaises
      <4>3. QED
        BY <4>1, <4>2
    <3>5. QED
      BY <3>1, <3>4 DEF Newer
  <2>4. CASE /\ stack' = [stack EXCEPT ![Len(stack)].attempt = 2]
             /\ UNCHANGED <<cacheVars, held, histVars>>
    <3> DEFINE f == [Top EXCEPT !.attempt = 2]
    <3>1. Top \in Frame
      BY <1>1, <2>1, WaitingFrame
    <3>2. f.entries = Top.entries /\ stack' = [stack EXCEPT ![Len(stack)] = f]
      BY <2>4, <3>1 DEF Frame, Top
    <3>3. Len(stack) = 1 /\ stack' \in Seq(Frame)
      BY <1>1, <2>1 DEF TInv, TypeOK
    <3>4. Top' = f
      <4> HIDE DEF f
      <4> QED BY <1>0, <3>2, <3>3, OnlyFrame DEF Top
    <3>5. UNCHANGED <<address, socket, known>>
      BY <1>9, <2>4 DEF EndCollect
    <3>6. QED
      BY <1>2, <2>1, <3>2, <3>4, <3>5 DEF Newer
  <2>5. QED
    BY <1>9, <2>2, <2>3, <2>4 DEF EndCollect
<1>10. ~CallbackReturns /\ ~CallbackThrows
  BY <1>1 DEF CallbackReturns, CallbackThrows
<1>11. ASSUME NEW d \in Devices, RefreshRoute(d) PROVE Newer'
  BY <1>11, <1>a DEF RefreshRoute
<1>12. CASE Discard
  <2>1. /\ socket # <<>> /\ socket' = Tail(socket) /\ stack = <<>>
        /\ UNCHANGED <<address, known, stack>>
    BY <1>1, <1>12 DEF Discard
  <2>2. SocketOK(Tail(socket), known, address)
    BY <1>0, <1>2, <2>1, TakeOldest
  <2>3. QED
    BY <1>2, <2>1, <2>2 DEF Newer
<1>13. CASE Expire
  <2>1. UNCHANGED <<address, socket, known, stack>>
    BY <1>13 DEF Expire
  <2>2. QED
    BY <1>2, <2>1 DEF Newer, Top
<1>14. ASSUME NEW d \in Devices, NEW k \in {"i-am", "cov"}, socket' = Arrive(k, d),
              UNCHANGED <<address, known, stack>>
       PROVE  Newer'
  <2> DEFINE g == [kind |-> k, device |-> d, address |-> address[d]]
  <2>1. g \in Datagram /\ g.address = address[g.device]
    BY <1>0 DEF Datagram
  <2>2. socket' = Append(socket, g)
    BY <1>14 DEF Arrive
  <2> HIDE DEF g
  <2>3. /\ SocketOK(socket', known, address)
        /\ \A es \in Seq(Entry) : SearchOK(es, socket, known, address)
                                  => SearchOK(es, socket', known, address)
    BY <1>0, <1>2, <2>1, <2>2, NewestArrives
  <2>4. QED
    BY <1>2, <1>3, <1>14, <2>3 DEF Newer, Top
<1>15. ASSUME NEW d \in Devices, Answer(d) \/ Notification(d) PROVE Newer'
  BY <1>14, <1>15 DEF Answer, Notification
<1>16. ASSUME NEW d \in Devices, Move(d) PROVE Newer'
  <2>1. UNCHANGED <<socket, known, stack>>
    BY <1>16 DEF Move
  <2>2. \A x \in Devices : address'[x] \in Nat /\ address[x] <= address'[x]
    BY <1>0, <1>16 DEF Move
  <2>3. \A x \in Devices : known[x] <= address'[x]
    BY <1>0, <1>2, <2>2
  <2>4. SocketOK(socket, known, address')
    <3>1. \A i \in DOMAIN socket : socket[i].device \in Devices /\ socket[i].address \in Nat
      <4>1. \A i \in DOMAIN socket : socket[i] \in Datagram
        BY <1>0, LenProperties, ElementOfSeq
      <4>2. QED
        BY <4>1 DEF Datagram
    <3>2. SocketOK(socket, known, address)
      BY <1>2
    <3>3. ASSUME NEW i \in DOMAIN socket PROVE socket[i].address <= address'[socket[i].device]
      <4>1. socket[i].address <= address[socket[i].device]
        BY <3>2 DEF SocketOK
      <4>2. /\ address[socket[i].device] \in Nat /\ address'[socket[i].device] \in Nat
            /\ address[socket[i].device] <= address'[socket[i].device]
        BY <1>0, <2>2, <3>1
      <4>3. QED
        BY <3>1, <4>1, <4>2
    <3>4. QED
      BY <3>2, <3>3 DEF SocketOK
  <2>5. stack # <<>> => SearchOK(Top.entries, socket, known, address')
    <3>1. SUFFICES ASSUME stack # <<>> PROVE SearchOK(Top.entries, socket, known, address')
      OBVIOUS
    <3> DEFINE es == Top.entries
    <3>2. \A i \in DOMAIN es : es[i] \in Entry
      BY <1>3, <3>1, LenProperties, ElementOfSeq
    <3>3. \A i \in DOMAIN es : es[i].device \in Devices /\ es[i].address \in Nat
      BY <3>2 DEF Entry
    <3>4. SearchOK(es, socket, known, address)
      BY <1>2, <3>1
    <3> HIDE DEF es
    <3>5. SearchOK(es, socket, known, address')
      BY <1>0, <2>2, <3>3, <3>4 DEF SearchOK
    <3>6. QED
      BY <3>5 DEF es
  <2>6. QED
    BY <1>2, <2>1, <2>3, <2>4, <2>5 DEF Newer, Top
<1>17. CASE UNCHANGED vars
  BY <1>17, <1>a DEF vars
<1>18. QED
  BY <1>4, <1>5, <1>6, <1>7, <1>8, <1>9, <1>10, <1>11, <1>12, <1>13, <1>15, <1>16, <1>17
     DEF Next, WhoIs, Collect, Network

(* What a step does to the routes and to what searches have shown.           *)
LEMMA RouteStep ==
    ASSUME TInv, OneSearch, Newer, ~handler, [Next]_vars, NEW d \in Devices,
           route'[d] # 0, route'[d] < known'[d]
    PROVE  \/ route'[d] = route[d] /\ known'[d] = known[d]
           \/ /\ UNCHANGED <<stack, device_cache, known>>
              /\ \E r \in Ranges : /\ d \in Ids(device_cache[r])
                                   /\ route'[d] = AddressIn(device_cache[r], d)
<1> USE DEF netVars, cacheVars, histVars
<1> DEFINE Goal == \/ route'[d] = route[d] /\ known'[d] = known[d]
                   \/ /\ UNCHANGED <<stack, device_cache, known>>
                      /\ \E r \in Ranges : /\ d \in Ids(device_cache[r])
                                           /\ route'[d] = AddressIn(device_cache[r], d)
<1>a. UNCHANGED <<route, known>> => Goal
  OBVIOUS
<1>1. ASSUME NEW r \in Ranges, WhoIsCached(r) PROVE Goal
  <2>1. /\ UNCHANGED <<known, device_cache, stack>>
        /\ route' = Updated(route, device_cache[r])
    BY <1>1 DEF WhoIsCached, Result
  <2>2. QED
    BY <2>1 DEF Updated
<1>2. ASSUME NEW r \in Ranges, WhoIsNegative(r) PROVE Goal
  BY <1>2, <1>a DEF WhoIsNegative
<1>3. ASSUME NEW r \in Ranges, NEW refresh \in BOOLEAN, WhoIsSends(r, refresh) PROVE Goal
  BY <1>3, <1>a DEF WhoIsSends
<1>4. CASE Collect
  BY <1>4, <1>a DEF Collect, CollectIAm, CollectCov
<1>5. CASE EndCollect
  <2> DEFINE es == Top.entries
             r == Top.range
  <2>1. UNCHANGED <<route, known>> \/ Store(r, es)
    BY <1>5 DEF EndCollect, StoreEmpty
  <2>2. CASE Store(r, es)
    <3>1. stack # <<>> /\ SearchOK(es, socket, known, address)
      BY <1>5 DEF EndCollect, Waiting, Newer
    <3>2. r \in Ranges /\ es \in Seq(Entry)
      BY <3>1, Single, WaitingFrame
    <3> HIDE DEF es, r
    <3>3. \A x \in Devices : IF x \in Ids(es) THEN known'[x] = AddressIn(es, x)
                                              ELSE known'[x] = known[x]
      BY <2>2, <3>1, <3>2, StoreKnown
    <3>4. route' = Updated(route, es)
      BY <2>2 DEF Store, Result
    <3>5. \A x \in Ids(es) : AddressIn(es, x) \in Nat
      BY <3>2, AddressOfEntry
    <3>6. QED
      BY <3>3, <3>4, <3>5 DEF Updated
  <2>3. QED
    BY <2>1, <2>2, <1>a
<1>6. CASE CallbackReturns \/ CallbackThrows
  BY <1>6, <1>a DEF CallbackReturns, CallbackThrows, StoreEmpty
<1>7. ASSUME NEW x \in Devices, RefreshRoute(x) PROVE Goal
  BY <1>7, <1>a DEF RefreshRoute
<1>8. CASE OnCovNotification \/ Discard
  BY <1>8, <1>a DEF OnCovNotification, Discard
<1>9. CASE Expire
  <2>1. UNCHANGED known /\ route'[d] \in {route[d], 0}
    BY <1>9 DEF Expire, TInv, TypeOK
  <2>2. QED
    BY <2>1
<1>10. CASE Network
  BY <1>10, <1>a DEF Network, Answer, Notification, Move
<1>11. CASE UNCHANGED vars
  BY <1>11, <1>a DEF vars
<1>12. QED
  BY <1>1, <1>2, <1>3, <1>4, <1>5, <1>6, <1>7, <1>8, <1>9, <1>10, <1>11 DEF Next, WhoIs

(* Without a COV handler, whichever ranges the script searches and however   *)
(* late, repeated or reordered by moves the answers arrive: a search brings  *)
(* the routes of what it has found up to date, and a route goes back behind  *)
(* what a search has shown only to the address in a result that DEVICE still *)
(* holds and a whoIs() has been answered with.                               *)
THEOREM RoutesFollowSearches == Spec => RouteBackOnlyFromCache
<1> DEFINE RInv == ~handler => Newer
<1>1. Init => RInv
  <2> SUFFICES ASSUME Init PROVE Newer
    OBVIOUS
  <2>1. SocketOK(socket, known, address)
    BY EmptyFacts DEF Init, SocketOK
  <2>2. QED
    BY <2>1 DEF Init, Newer
<1>2. TInv /\ TInv' /\ CInv /\ RInv /\ [Next]_vars => RInv'
  <2> SUFFICES ASSUME TInv, TInv', CInv, RInv, [Next]_vars, ~handler' PROVE Newer'
    OBVIOUS
  <2>1. ~handler /\ ~OnCovNotification
    BY HandlerStays DEF OnCovNotification
  <2>2. QED
    BY <2>1, NewerStep DEF CInv
<1> DEFINE Step == ~handler => \A d \in Devices :
                     route'[d] # 0 /\ route'[d] < known'[d] =>
                       \/ route'[d] = route[d] /\ known'[d] = known[d]
                       \/ /\ UNCHANGED <<stack, device_cache, known>>
                          /\ \E r \in Ranges : /\ d \in Ids(device_cache[r])
                                               /\ route'[d] = AddressIn(device_cache[r], d)
<1>3. TInv /\ CInv /\ RInv /\ [Next]_vars => Step
  BY RouteStep DEF CInv
<1>4. Spec => []TInv
  BY TypeInit, TypeStep, PTL DEF Spec
<1> HIDE DEF RInv, Step
<1>5. Spec => [][Step]_vars
  BY <1>1, <1>2, <1>3, <1>4, CacheCorrect, PTL DEF Spec
<1>6. QED
  BY <1>5 DEF Step, RouteBackOnlyFromCache
=============================================================================
