----------------------------- MODULE Discovery -----------------------------
(***************************************************************************)
(* whoIs(): a Who-Is broadcast, the I-Am answers collected until the       *)
(* timeout, a second broadcast if nobody answered, and the three caches    *)
(* fed by it: DEVICE (the result, by the range asked for), NEGATIVE        *)
(* (nobody answered) and IP (the address of a device, by its id).  Every   *)
(* operation on a Device first takes its address from IP.  I-Am answers    *)
(* come from one UDP socket, which also holds what arrived between calls   *)
(* and the COV notifications for whose sake a client runs PHP code in the  *)
(* middle of a whoIs().                                                    *)
(***************************************************************************)
EXTENDS Integers, Sequences, FiniteSets

CONSTANTS
    Devices,       \* the device ids in the network
    Ranges,        \* the ranges asked for: sets of devices
    NoRange,       \* range of the stack frame of a callback
    Ignored,       \* the id of the MixedServer itself; {} for a Client
    IsClient,      \* a Client takes a COV handler; a MixedServer queues notifications
    Capacity,      \* PHP_BACNET_MAX_COLLECTED_DEVICES
    MaxCalls, MaxSocket, MaxAddress, MaxDepth      \* bounds

ASSUME RangesAssumption ==
    /\ Ranges \subseteq SUBSET Devices /\ NoRange \notin Ranges
    /\ Ignored \subseteq Devices
    /\ IsClient \in BOOLEAN
    /\ {Capacity, MaxDepth} \subseteq Nat \ {0}

VARIABLES
    address,       \* the devices: how often each has changed its address, from 1
    asked,         \* the devices that still owe an I-Am
    socket,        \* datagrams in the receive buffer
    stack,         \* running whoIs() calls and the callbacks in between
    device_cache,  \* DEVICE: result by range, <<>> when there is none
    negative,      \* NEGATIVE: the ranges known to be empty
    route,         \* IP: address by device, 0 when there is none
    handler,       \* onCovNotification() was called
    held,          \* address in the script's Device object, 0 when it has none
    found,         \* history: what the network last answered for a range
    ended,         \* history: how the last network search for a range ended
    known,         \* history: newest address a result has shown
    calls          \* bound

netVars == <<address, asked, socket>>
cacheVars == <<device_cache, negative, route>>
histVars == <<found, ended, known>>
vars == <<netVars, stack, cacheVars, handler, held, histVars, calls>>

Entry == [device : Devices, address : Nat]
Ids(entries) == {entries[i].device : i \in DOMAIN entries}
Datagram == [kind : {"i-am", "cov"}, device : Devices, address : Nat]
Frame == [range : Ranges \cup {NoRange}, attempt : 0..2, entries : Seq(Entry)]
Callback == [range |-> NoRange, attempt |-> 0, entries |-> <<>>]

Top == stack[Len(stack)]
Below == SubSeq(stack, 1, Len(stack) - 1)
Waiting == stack # <<>> /\ Top # Callback
Script == ~Waiting        \* PHP code runs: the script or a COV callback
Arrive(k, d) == Append(socket, [kind |-> k, device |-> d, address |-> address[d]])

-----------------------------------------------------------------------------
(* The start of a call.                                                     *)

CanCall == Script /\ calls < MaxCalls /\ Len(stack) < MaxDepth /\ calls' = calls + 1

AddressIn(entries, d) == entries[CHOOSE i \in DOMAIN entries : entries[i].device = d].address

Updated(f, entries) == [d \in Devices |-> IF d \in Ids(entries) THEN AddressIn(entries, d) ELSE f[d]]

\* Mutant of Result: a route that is known is kept.
ResultKeepsRoute(entries) ==
    /\ route' = [d \in Devices |-> IF route[d] = 0 THEN Updated(route, entries)[d] ELSE route[d]]
    /\ held' = Updated(held, entries)

\* php_bacnet_whois_result: a route and a new Device for every entry.
Result(entries) ==
    route' = Updated(route, entries) /\ held' = Updated(held, entries)

WhoIsCached(r) ==
    /\ Script
    /\ device_cache[r] # <<>>
    /\ Result(device_cache[r])
    /\ UNCHANGED <<handler, netVars, stack, device_cache, negative, histVars, calls>>

WhoIsNegative(r) ==
    /\ Script
    /\ device_cache[r] = <<>> /\ r \in negative
    /\ UNCHANGED <<handler, netVars, stack, cacheVars, held, histVars, calls>>

Broadcast(r) == asked' = asked \cup r

\* Mutant of WhoIsSends: refresh passes the caches by and leaves them as they are.
WhoIsSendsKeepsCaches(r, refresh) ==
    /\ CanCall
    /\ refresh \/ (device_cache[r] = <<>> /\ r \notin negative)
    /\ Broadcast(r)
    /\ stack' = Append(stack, [range |-> r, attempt |-> 1, entries |-> <<>>])
    /\ UNCHANGED <<handler, address, socket, cacheVars, held, histVars>>

\* Not cached; or refresh, which clears both partitions for all ranges.
WhoIsSends(r, refresh) ==
    /\ CanCall
    /\ \/ refresh /\ device_cache' = [x \in Ranges |-> <<>>] /\ negative' = {}
       \/ ~refresh /\ device_cache[r] = <<>> /\ r \notin negative /\ UNCHANGED <<device_cache, negative>>
    /\ Broadcast(r)
    /\ stack' = Append(stack, [range |-> r, attempt |-> 1, entries |-> <<>>])
    /\ UNCHANGED <<handler, address, socket, route, held, histVars>>

-----------------------------------------------------------------------------
(* php_bacnet_broadcast_and_collect                                         *)

Collecting == Waiting /\ Len(Top.entries) < Capacity /\ socket # <<>> /\ socket' = Tail(socket)

\* An I-Am of a device that is neither this one nor collected already.
CollectIAm ==
    LET d == Head(socket) IN
    /\ Collecting /\ d.kind = "i-am"
    /\ stack' = IF d.device \in Ignored \cup Ids(Top.entries) THEN stack
                ELSE [stack EXCEPT ![Len(stack)].entries =
                        Append(@, [device |-> d.device, address |-> d.address])]
    /\ UNCHANGED <<handler, address, asked, cacheVars, held, histVars, calls>>

\* A COV notification: the handler of a Client is called.
CollectCov ==
    /\ Collecting /\ Head(socket).kind = "cov"
    /\ stack' = IF handler THEN Append(stack, Callback) ELSE stack
    /\ UNCHANGED <<handler, address, asked, cacheVars, held, histVars, calls>>

InCallback == stack # <<>> /\ Top = Callback

CallbackReturns ==
    /\ InCallback
    /\ stack' = Below
    /\ UNCHANGED <<handler, netVars, cacheVars, held, histVars, calls>>

\* The result of a call that has asked the network.
Store(r, entries) ==
    /\ device_cache' = [device_cache EXCEPT ![r] = entries]
    /\ found' = [found EXCEPT ![r] = entries]
    /\ ended' = [ended EXCEPT ![r] = "found"]
    /\ known' = [d \in Devices |->
                    IF Updated(known, entries)[d] > known[d] THEN Updated(known, entries)[d] ELSE known[d]]
    /\ Result(entries)
    /\ UNCHANGED negative

StoreEmpty(r, how) ==
    /\ negative' = negative \cup {r}
    /\ ended' = [ended EXCEPT ![r] = how]
    /\ UNCHANGED <<device_cache, route, held, known>>

\* The handler threw: collecting ends with count = -1, which is not positive.
CallbackThrows ==
    LET r == stack[Len(stack) - 1].range IN
    /\ InCallback
    /\ StoreEmpty(r, "exception") /\ UNCHANGED found
    /\ stack' = SubSeq(stack, 1, Len(stack) - 2)
    /\ UNCHANGED <<handler, netVars, calls>>

\* Mutants of EndCollect: an empty round is followed by another one, twice or
\* for ever.
EndCollectTwoRepeats ==
    LET t == Top IN
    /\ Waiting
    /\ \/ t.entries = <<>> /\ t.attempt <= 2 /\ Broadcast(t.range)
          /\ stack' = [stack EXCEPT ![Len(stack)].attempt = @ + 1]
          /\ UNCHANGED <<cacheVars, held, histVars>>
       \/ t.entries = <<>> /\ t.attempt > 2
          /\ StoreEmpty(t.range, "silent") /\ found' = [found EXCEPT ![t.range] = <<>>]
          /\ stack' = Below /\ UNCHANGED asked
       \/ t.entries # <<>> /\ Store(t.range, t.entries) /\ stack' = Below /\ UNCHANGED asked
    /\ UNCHANGED <<handler, address, socket, calls>>

EndCollectForever ==
    LET t == Top IN
    /\ Waiting
    /\ \/ t.entries = <<>> /\ Broadcast(t.range)
          /\ UNCHANGED <<stack, cacheVars, held, histVars>>
       \/ t.entries # <<>> /\ Store(t.range, t.entries) /\ stack' = Below /\ UNCHANGED asked
    /\ UNCHANGED <<handler, address, socket, calls>>

\* The deadline, or 64 devices.  The first empty round is followed by another.
EndCollect ==
    LET t == Top IN
    /\ Waiting
    /\ \/ /\ t.entries = <<>> /\ t.attempt = 1
          /\ Broadcast(t.range)
          /\ stack' = [stack EXCEPT ![Len(stack)].attempt = 2]
          /\ UNCHANGED <<cacheVars, held, histVars>>
       \/ /\ t.entries = <<>> /\ t.attempt = 2
          /\ StoreEmpty(t.range, "silent") /\ found' = [found EXCEPT ![t.range] = <<>>]
          /\ stack' = Below /\ UNCHANGED asked
       \/ /\ t.entries # <<>>
          /\ Store(t.range, t.entries)
          /\ stack' = Below /\ UNCHANGED asked
    /\ UNCHANGED <<handler, address, socket, calls>>

-----------------------------------------------------------------------------
(* Other calls of the script.                                               *)

\* php_bacnet_device_refresh_route, at the start of an operation on a Device.
RefreshRoute(d) ==
    /\ Script
    /\ held[d] # 0 /\ route[d] # 0
    /\ held' = [held EXCEPT ![d] = route[d]]
    /\ UNCHANGED <<handler, netVars, stack, cacheVars, histVars, calls>>

\* Client::onCovNotification
OnCovNotification ==
    /\ IsClient /\ Script
    /\ handler' = TRUE
    /\ UNCHANGED <<netVars, stack, cacheVars, held, histVars, calls>>

\* A datagram that poll() or a waiting read takes from the socket.
Discard ==
    /\ Script
    /\ socket # <<>> /\ socket' = Tail(socket)
    /\ UNCHANGED <<handler, address, asked, stack, cacheVars, held, histVars, calls>>

\* An entry expires, is evicted or cleared.
Expire ==
    /\ \/ \E r \in Ranges : device_cache' = [device_cache EXCEPT ![r] = <<>>] /\ UNCHANGED <<negative, route>>
       \/ \E r \in negative : negative' = negative \ {r} /\ UNCHANGED <<device_cache, route>>
       \/ \E d \in Devices : route' = [route EXCEPT ![d] = 0] /\ UNCHANGED <<device_cache, negative>>
    /\ UNCHANGED <<handler, netVars, stack, held, histVars, calls>>

-----------------------------------------------------------------------------
(* The network.  A datagram that is lost never reaches the socket.          *)

\* A device answers a Who-Is, perhaps late, perhaps twice.
Answer(d) ==
    /\ d \in asked /\ Len(socket) < MaxSocket
    /\ socket' = Arrive("i-am", d)
    /\ asked' \in {asked, asked \ {d}}
    /\ UNCHANGED <<handler, address, stack, cacheVars, held, histVars, calls>>

Notification(d) ==
    /\ Len(socket) < MaxSocket
    /\ socket' = Arrive("cov", d)
    /\ UNCHANGED <<handler, address, asked, stack, cacheVars, held, histVars, calls>>

\* A device gets another address (DHCP).
Move(d) ==
    /\ address[d] < MaxAddress
    /\ address' = [address EXCEPT ![d] = @ + 1]
    /\ UNCHANGED <<handler, asked, socket, stack, cacheVars, held, histVars, calls>>

-----------------------------------------------------------------------------
Init ==
    /\ address = [d \in Devices |-> 1] /\ asked = {} /\ socket = <<>>
    /\ stack = <<>> /\ handler = FALSE
    /\ device_cache = [r \in Ranges |-> <<>>] /\ negative = {}
    /\ route = [d \in Devices |-> 0] /\ held = [d \in Devices |-> 0]
    /\ found = [r \in Ranges |-> <<>>] /\ ended = [r \in Ranges |-> "never"]
    /\ known = [d \in Devices |-> 0]
    /\ calls = 0

WhoIs(r) == WhoIsCached(r) \/ WhoIsNegative(r) \/ \E refresh \in BOOLEAN : WhoIsSends(r, refresh)
Collect == CollectIAm \/ CollectCov
Network == \E d \in Devices : Answer(d) \/ Notification(d) \/ Move(d)

Next ==
    \/ \E r \in Ranges : WhoIs(r)
    \/ Collect \/ EndCollect \/ CallbackReturns \/ CallbackThrows
    \/ \E d \in Devices : RefreshRoute(d)
    \/ OnCovNotification
    \/ Discard \/ Expire \/ Network

Spec == Init /\ [][Next]_vars

\* Callbacks return, and the loop compares the clock with one deadline at every
\* turn: however many callbacks come in between, some turn is the last.
FairSpec == Spec /\ SF_vars(EndCollect) /\ WF_vars(CallbackReturns)

-----------------------------------------------------------------------------
(* Properties.                                                             *)

\* Every variable keeps its type: calls and callbacks alternate on the stack,
\* a call collects no more devices than its array holds.
TypeOK ==
    /\ {address, route, held, known} \subseteq [Devices -> Nat]
    /\ asked \subseteq Devices /\ socket \in Seq(Datagram)
    /\ stack \in Seq(Frame)
    /\ \A i \in DOMAIN stack : (stack[i].range = NoRange) = (i % 2 = 0)
    /\ \A i \in DOMAIN stack : Len(stack[i].entries) <= Capacity
    /\ {device_cache, found} \subseteq [Ranges -> Seq(Entry)]
    /\ negative \subseteq Ranges
    /\ ended \in [Ranges -> {"never", "found", "silent", "exception"}]
    /\ handler \in BOOLEAN /\ calls \in Nat

\* Without a COV handler, what DEVICE holds for a range is what the network
\* answered last for it, whichever ranges were refreshed or expired in between.
CacheReflectsDiscovery ==
    ~handler => \A r \in Ranges : device_cache[r] # <<>> => device_cache[r] = found[r]

\* The NEGATIVE marker says that the last search of this range met silence.  Not
\* so for a client whose COV handler throws (README, known limits).
NegativeMeansSilence == \A r \in negative : ended[r] = "silent"

\* IP maps a device to the newest address that a search has shown.  Said by the
\* documentation without restriction; TLC refutes it as soon as the ranges of two
\* searches overlap, because a cached result stores its routes, too.
RouteIsCurrent == ~handler => \A d \in Devices : route[d] # 0 => route[d] >= known[d]

\* What is left of it: without a COV handler each search brings the routes of what it
\* has found up to date, and the only step that takes a route behind what a search has
\* shown is a whoIs() answered from DEVICE, back to the address in this result.
RouteBackOnlyFromCache ==
    [][~handler => \A d \in Devices :
         route'[d] # 0 /\ route'[d] < known'[d] =>
           \/ route'[d] = route[d] /\ known'[d] = known[d]
           \/ /\ UNCHANGED <<stack, device_cache, known>>
              /\ \E r \in Ranges : /\ d \in Ids(device_cache[r])
                                   /\ route'[d] = AddressIn(device_cache[r], d)]_vars

\* A search of a range finds devices of this range.  TLC refutes it (README, known
\* limits).
ResultInRange == \A r \in Ranges : Ids(found[r]) \subseteq r

\* Every whoIs() returns.
WhoIsEnds == stack # <<>> ~> stack = <<>>
=============================================================================
