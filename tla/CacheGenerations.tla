--------------------------- MODULE CacheGenerations ---------------------------
(***************************************************************************)
(* bacnet_cache.c with a callback backend (setCacheBackend): an L2 that    *)
(* the workers of several hosts share, while each host keeps its own L1.   *)
(* Nobody can empty the L1 of another host.  Instead every put and every   *)
(* clear bumps a generation in the backend, and a worker compares it, at   *)
(* most once per coherence interval, with the one it knows: when they      *)
(* differ, it empties its L1.  The backend is PHP code; each of its        *)
(* methods may throw, before or after it took effect.                      *)
(* One partition: the others have generations and entries of their own.    *)
(* Entries do not expire here, and L1 has room (SharedCache models both).  *)
(***************************************************************************)
EXTENDS Integers, FiniteSets, FiniteSetsExt

CONSTANTS
    Workers,      \* PHP processes
    Hosts,
    HostOf,       \* the host of a worker
    Keys,         \* cache keys of the partition
    NoKey,        \* a clear that is not followed by a read
    Interval,     \* coherence_interval_ms
    MaxVersion, MaxTime, MaxOps, MaxFaults   \* bounds

ASSUME HostsAssumption == IsFiniteSet(Workers) /\ HostOf \in [Workers -> Hosts] /\ NoKey \notin Keys
ASSUME IntervalAssumption == Interval \in Nat

VARIABLES
    l1,           \* per host, the entry of each key in shared memory
    backend,      \* the entry of each key in the backend
    generation,   \* the generation the backend keeps
    known,        \* c->generations: the one a worker knows, 0 for none
    checked,      \* c->last_coherence_ms
    op,           \* what each worker is doing
    device,       \* version of each remote property
    acks,         \* history: the writes that have returned, with the generation by then
    emptied,      \* history: per host, the generation when its L1 was last emptied
    missed,       \* history: workers that know a generation their L1 was not emptied for
    unchecked,    \* history: workers whose latest check failed
    lost,         \* history: the backend has failed to invalidate after a write
    now, ops, faults   \* clock; bounds

levelVars == <<l1, backend, generation>>
checkVars == <<known, checked>>
ghostVars == <<emptied, missed, unchecked, lost>>
boundVars == <<ops, faults>>
vars == <<levelVars, checkVars, op, device, acks, ghostVars, now, boundVars>>

\* late: stored after the property had changed.
Entry == [version : Nat, late : BOOLEAN]
None == [version |-> -1, late |-> FALSE]
Nothing == [k \in Keys |-> None]

Steps == {"new", "idle", "check", "drop", "get1", "get2", "promote", "fetch",
          "put1", "set", "bumpSet", "clear1", "clear2", "bumpClear"}

\* due, own: the versions a read must not be behind; ack: the write this is for.
Op == [step : Steps, key : Keys \cup {NoKey}, entry : Entry \cup {None},
       due : Nat, own : Nat, ack : Nat]
New == [step |-> "new", key |-> NoKey, entry |-> None, due |-> 0, own |-> 0, ack |-> 0]
Idle == [New EXCEPT !.step = "idle"]

Goto(w, step) == op' = [op EXCEPT ![w].step = step]
Done(w) == op' = [op EXCEPT ![w] = Idle]
At(w, step) == op[w].step = step
Key(w) == op[w].key
Host(w) == HostOf[w]
Mates(h) == {w \in Workers : HostOf[w] = h}

Begin == ops < MaxOps /\ ops' = ops + 1 /\ UNCHANGED faults

\* php_bacnet_callback_call: the method throws.  After it took effect, that
\* matters only where its result is used.
Throws == faults < MaxFaults /\ faults' = faults + 1 /\ UNCHANGED ops

-----------------------------------------------------------------------------
(* php_bacnet_cache_get                                                     *)

\* The latest version of k whose write had returned, as far as C tells.
LatestAck(k, C(_)) == Max({0} \cup {a.version : a \in {b \in acks : b.key = k /\ C(b)}})
Due(k) == LatestAck(k, LAMBDA a : a.time + Interval <= now)
Own(w, k) == LatestAck(k, LAMBDA a : a.host = Host(w))

CheckIsDue(w) == now - checked[w] >= Interval

\* The interval begins with the attempt.
Read(w, k) ==
    /\ At(w, "idle") /\ Begin
    /\ op' = [op EXCEPT ![w] = [Idle EXCEPT !.step = IF CheckIsDue(w) THEN "check" ELSE "get1",
                                            !.key = k, !.due = Due(k), !.own = Own(w, k)]]
    /\ checked' = IF CheckIsDue(w) THEN [checked EXCEPT ![w] = now] ELSE checked
    /\ UNCHANGED <<levelVars, known, device, acks, ghostVars, now>>

\* A generation w has not known, and for which L1 has not been emptied.
Unseen(w) == generation > Max({known[w], emptied[Host(w)]})

\* Mutant of CheckGeneration: only a larger generation by more than one counts.
CheckGenerationTolerant(w) ==
    /\ At(w, "check")
    /\ known' = [known EXCEPT ![w] = generation]
    /\ Goto(w, IF known[w] # 0 /\ generation > known[w] + 1 THEN "drop" ELSE "get1")
    /\ missed' = IF known[w] = 0 /\ Unseen(w) THEN missed \cup {w} ELSE missed
    /\ unchecked' = unchecked \ {w}
    /\ UNCHANGED <<levelVars, checked, device, acks, emptied, lost, now, boundVars>>

\* php_bacnet_callback_check_generation.  A worker that knows no generation
\* takes this one and keeps L1.
CheckGeneration(w) ==
    /\ At(w, "check")
    /\ known' = [known EXCEPT ![w] = generation]
    /\ Goto(w, IF known[w] \notin {0, generation} THEN "drop" ELSE "get1")
    /\ missed' = IF known[w] = 0 /\ Unseen(w) THEN missed \cup {w} ELSE missed
    /\ unchecked' = unchecked \ {w}
    /\ UNCHANGED <<levelVars, checked, device, acks, emptied, lost, now, boundVars>>

CheckFails(w) ==
    /\ At(w, "check") /\ Throws
    /\ Goto(w, "get1")
    /\ unchecked' = unchecked \cup {w}
    /\ UNCHANGED <<levelVars, checkVars, device, acks, emptied, missed, lost, now>>

\* php_bacnet_shm_clear_partition
EmptyL1(h) ==
    /\ l1' = [l1 EXCEPT ![h] = Nothing]
    /\ emptied' = [emptied EXCEPT ![h] = generation]
    /\ missed' = missed \ Mates(h)

Drop(w) ==
    /\ At(w, "drop")
    /\ EmptyL1(Host(w))
    /\ Goto(w, "get1")
    /\ UNCHANGED <<backend, generation, checkVars, device, acks, unchecked, lost, now, boundVars>>

GetL1(w) ==
    /\ At(w, "get1")
    /\ IF l1[Host(w)][Key(w)] # None THEN Done(w) ELSE Goto(w, "get2")
    /\ UNCHANGED <<levelVars, checkVars, device, acks, ghostVars, now, boundVars>>

\* A hit is copied to L1 next; a failure is a miss.
GetBackend(w) ==
    LET e == backend[Key(w)] IN
    /\ At(w, "get2")
    /\ \/ /\ e # None /\ UNCHANGED boundVars
          /\ op' = [op EXCEPT ![w].step = "promote", ![w].entry = e]
       \/ e = None /\ UNCHANGED boundVars /\ Goto(w, "fetch")
       \/ e # None /\ Throws /\ Goto(w, "fetch")
    /\ UNCHANGED <<levelVars, checkVars, device, acks, ghostVars, now>>

\* The entry as it is stored now.
Stored(k, e) == [e EXCEPT !.late = @ \/ e.version < device[k]]

StoreL1(w) == l1' = [l1 EXCEPT ![Host(w)][Key(w)] = Stored(Key(w), op[w].entry)]

Promote(w) ==
    /\ At(w, "promote")
    /\ StoreL1(w) /\ Done(w)
    /\ UNCHANGED <<backend, generation, checkVars, device, acks, ghostVars, now, boundVars>>

-----------------------------------------------------------------------------
(* php_bacnet_cache_put, after the device has answered a read.              *)

Fetch(w) ==
    /\ At(w, "fetch")
    /\ op' = [op EXCEPT ![w].step = "put1", ![w].entry = [version |-> device[Key(w)], late |-> FALSE]]
    /\ UNCHANGED <<levelVars, checkVars, device, acks, ghostVars, now, boundVars>>

FetchFails(w) ==
    /\ At(w, "fetch") /\ Done(w)
    /\ UNCHANGED <<levelVars, checkVars, device, acks, ghostVars, now, boundVars>>

PutL1(w) ==
    /\ At(w, "put1")
    /\ StoreL1(w) /\ Goto(w, "set")
    /\ UNCHANGED <<backend, generation, checkVars, device, acks, ghostVars, now, boundVars>>

\* set is followed by bumpGeneration, also when it has thrown.
SetBackend(w) ==
    /\ At(w, "set") /\ Goto(w, "bumpSet")
    /\ \/ /\ backend' = [backend EXCEPT ![Key(w)] = Stored(Key(w), op[w].entry)]
          /\ UNCHANGED boundVars
       \/ Throws /\ UNCHANGED backend
    /\ UNCHANGED <<l1, generation, checkVars, device, acks, ghostVars, now>>

\* The worker takes the generation its own bump returns, whatever it has not seen.
Bump(w) ==
    /\ generation' = generation + 1
    /\ known' = [known EXCEPT ![w] = generation + 1]
    /\ missed' = IF Unseen(w) THEN missed \cup {w} ELSE missed
    /\ UNCHANGED boundVars

BumpThrows ==
    /\ Throws
    /\ generation' \in {generation, generation + 1}
    /\ UNCHANGED <<known, missed>>

\* Mutant of BumpAfterSet: the worker counts for itself, also if the backend fails.
BumpAfterSetCounts(w) ==
    /\ At(w, "bumpSet") /\ Done(w)
    /\ \/ generation' = generation + 1 /\ UNCHANGED boundVars
       \/ UNCHANGED generation /\ Throws
    /\ known' = [known EXCEPT ![w] = generation + 1]
    /\ UNCHANGED <<l1, backend, checked, device, acks, missed, emptied, unchecked, lost, now>>

BumpAfterSet(w) ==
    /\ At(w, "bumpSet") /\ Done(w)
    /\ Bump(w) \/ BumpThrows
    /\ UNCHANGED <<l1, backend, checked, device, acks, emptied, unchecked, lost, now>>

-----------------------------------------------------------------------------
(* php_bacnet_cache_clear                                                   *)

Clear(w, k) == op' = [op EXCEPT ![w] = [Idle EXCEPT !.step = "clear1", !.key = k]]

\* setCacheBackend: from now on this worker uses the backend; all is cleared.
Attach(w) ==
    /\ At(w, "new") /\ Begin
    /\ Clear(w, NoKey)
    /\ UNCHANGED <<levelVars, checkVars, device, acks, ghostVars, now>>

\* clearCache, or readProperty(refresh: true): clear, then ask the device.
ClearOrRefresh(w, k) ==
    /\ At(w, "idle") /\ Begin
    /\ Clear(w, k)
    /\ UNCHANGED <<levelVars, checkVars, device, acks, ghostVars, now>>

\* The device has executed a write and its Simple-ACK has arrived.
WriteAcked(w, k) ==
    /\ At(w, "idle")
    /\ \A j \in Keys : device[j] < MaxVersion      \* bound
    /\ device' = [device EXCEPT ![k] = @ + 1]
    /\ op' = [op EXCEPT ![w] = [Idle EXCEPT !.step = "clear1", !.key = k, !.ack = device[k] + 1]]
    /\ UNCHANGED <<levelVars, checkVars, acks, ghostVars, now, boundVars>>

\* Mutant of ClearL1: the writer leaves its own L1 to the next check.
ClearL1Later(w) ==
    /\ At(w, "clear1")
    /\ Goto(w, "clear2")
    /\ UNCHANGED <<levelVars, checkVars, device, acks, ghostVars, now, boundVars>>

ClearL1(w) ==
    /\ At(w, "clear1")
    /\ EmptyL1(Host(w))
    /\ Goto(w, "clear2")
    /\ UNCHANGED <<backend, generation, checkVars, device, acks, unchecked, lost, now, boundVars>>

\* Without effect, a write has not been invalidated everywhere.
ClearBackend(w) ==
    /\ At(w, "clear2") /\ Goto(w, "bumpClear")
    /\ \/ backend' = Nothing /\ UNCHANGED <<boundVars, lost>>
       \/ Throws /\ UNCHANGED backend /\ lost' = (lost \/ op[w].ack > 0)
    /\ UNCHANGED <<l1, generation, checkVars, device, acks, emptied, missed, unchecked, now>>

\* The write returns, the refreshing read asks the device, or all is done.
AfterClear(w) ==
    LET k == Key(w) IN
    \/ /\ op[w].ack > 0 /\ Done(w)
       /\ acks' = acks \cup {[key |-> k, version |-> op[w].ack, time |-> now, host |-> Host(w),
                              gen |-> generation']}
    \/ op[w].ack = 0 /\ k = NoKey /\ Done(w) /\ UNCHANGED acks
    \/ op[w].ack = 0 /\ k # NoKey /\ Goto(w, "fetch") /\ UNCHANGED acks

BumpAfterClear(w) ==
    /\ At(w, "bumpClear")
    /\ \/ Bump(w) /\ UNCHANGED lost
       \/ BumpThrows /\ lost' = (lost \/ (op[w].ack > 0 /\ generation' = generation))
    /\ AfterClear(w)
    /\ UNCHANGED <<l1, backend, checked, device, emptied, unchecked, now>>

-----------------------------------------------------------------------------
\* The process ends wherever it is; its successor knows nothing, L1 remains.
Restart(w) ==
    /\ faults < MaxFaults /\ faults' = faults + 1
    /\ ~At(w, "new")
    /\ op' = [op EXCEPT ![w] = New]
    /\ known' = [known EXCEPT ![w] = 0] /\ checked' = [checked EXCEPT ![w] = -Interval]
    /\ missed' = missed \ {w} /\ unchecked' = unchecked \ {w}
    /\ UNCHANGED <<levelVars, device, acks, emptied, lost, now, ops>>

Tick ==
    /\ now < MaxTime
    /\ now' = now + 1
    /\ UNCHANGED <<levelVars, checkVars, op, device, acks, ghostVars, boundVars>>

\* Every worker has called setCacheBackend and, later, checked once.
Init ==
    /\ l1 = [h \in Hosts |-> Nothing] /\ backend = Nothing
    /\ generation = Cardinality(Workers) /\ known = [w \in Workers |-> generation]
    /\ checked = [w \in Workers |-> -Interval]
    /\ op = [w \in Workers |-> Idle]
    /\ device = [k \in Keys |-> 0] /\ acks = {}
    /\ emptied = [h \in Hosts |-> generation] /\ missed = {} /\ unchecked = {} /\ lost = FALSE
    /\ now = 0 /\ ops = 0 /\ faults = 0

Starts(w) ==
    \/ Attach(w)
    \/ \E k \in Keys : Read(w, k) \/ WriteAcked(w, k) \/ ClearOrRefresh(w, k)
    \/ ClearOrRefresh(w, NoKey)

Continues(w) ==
    \/ CheckGeneration(w) \/ CheckFails(w) \/ Drop(w)
    \/ GetL1(w) \/ GetBackend(w) \/ Promote(w)
    \/ Fetch(w) \/ FetchFails(w) \/ PutL1(w) \/ SetBackend(w) \/ BumpAfterSet(w)
    \/ ClearL1(w) \/ ClearBackend(w) \/ BumpAfterClear(w)

Next ==
    \/ \E w \in Workers : Starts(w) \/ Continues(w) \/ Restart(w)
    \/ Tick

Spec == Init /\ [][Next]_vars

-----------------------------------------------------------------------------
(* Properties.                                                             *)

\* Every variable keeps its type; a worker never knows a generation the
\* backend has not had.
TypeOK ==
    /\ l1 \in [Hosts -> [Keys -> Entry \cup {None}]]
    /\ backend \in [Keys -> Entry \cup {None}]
    /\ {generation, now, ops, faults} \subseteq Nat
    /\ known \in [Workers -> 0..generation] /\ checked \in [Workers -> -Interval..now]
    /\ op \in [Workers -> Op]
    /\ device \in [Keys -> Nat]
    /\ acks \subseteq [key : Keys, version : Nat, time : Nat, host : Hosts, gen : Nat]
    /\ emptied \in [Hosts -> 0..generation]
    /\ missed \subseteq Workers /\ unchecked \subseteq Workers /\ lost \in BOOLEAN

\* What a reading worker finds at its next step.
Found(w) ==
    CASE At(w, "get1") -> l1[Host(w)][Key(w)]
      [] At(w, "get2") -> backend[Key(w)]
      [] OTHER -> None

\* A read, on any host, that begins a coherence interval after a write has
\* returned finds no older value; unless that value was stored after the write,
\* or the backend failed to invalidate, or the worker's check failed, or it has
\* taken the generation of its own bump and so never saw the one of the write.
FreshWithinInterval ==
    \A w \in Workers :
        LET e == Found(w) IN
        e # None /\ e.version < op[w].due =>
            e.late \/ lost \/ w \in unchecked \/ w \in missed

\* On the writer's own host a write holds at once: no read that begins after it
\* has returned finds an older value, with or without a check, unless that value
\* was stored after the write or the backend failed to clear.
HostSeesWrite ==
    \A w \in Workers :
        LET e == Found(w) IN
        e # None /\ e.version < op[w].own => e.late \/ lost
=============================================================================
