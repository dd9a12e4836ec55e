---------------------------- MODULE SharedCache ----------------------------
(***************************************************************************)
(* bacnet_cache.c: the client cache that the PHP workers of a host share.  *)
(* L1 is a table of slots in POSIX shared memory under one process-shared  *)
(* mutex, L2 an LMDB database with a transaction per access.  A get that   *)
(* misses in L1 promotes an L2 hit, a put fills both levels and prunes L2, *)
(* a clear empties L1 and then L2.  Between these steps other workers run, *)
(* and a worker may die anywhere, also while it holds the mutex.  What a   *)
(* worker does with the cache (readProperty, writeProperty, clearCache) is *)
(* reduced to its cache accesses; ClientCalls models the network part.     *)
(* A worker starts by opening the levels; the first one creates the        *)
(* segment.  setCacheOptions may switch a level or the cache off and on.   *)
(***************************************************************************)
EXTENDS Integers, Sequences, FiniteSets, FiniteSetsExt, SequencesExt

CONSTANTS
    Workers,      \* PHP processes
    Parts,        \* cache partitions that hold property values
    Keys,         \* cache keys
    PartOf,       \* the partition of a key
    FirstPart,    \* partition number 0, that of a slot just zeroed
    NoKey,        \* the key of a slot whose writer died before it had one
    Slots,        \* PHP_BACNET_CACHE_SHM_SLOTS
    MaxEntries,   \* max_entries of each partition
    Ttl,          \* ttl of each partition
    Lengths,      \* lengths of encoded values
    L1MaxBytes, L2MaxBytes,
    ReadPartitions, \* the partitions a successful write clears, in order
    Robust,       \* the mutex is robust: its owner's death is noticed
    L2MayFail,    \* an LMDB write transaction may fail (map full, I/O)
    Created,      \* the segment exists and the workers have opened the levels
    Options,      \* what setCacheOptions is called with
    Configuring,  \* workers that call it
    MaxVersion, MaxTime, MaxCrashes, MaxCalls   \* bounds

ASSUME WorkersAssumption == "free" \notin Workers /\ "dead" \notin Workers
ASSUME SlotsAssumption == Slots \in Nat \ {0}
ASSUME PartsAssumption ==
    /\ PartOf \in [Keys -> Parts] /\ FirstPart \in Parts
    /\ NoKey \notin Keys /\ NoKey \notin Keys \X BOOLEAN
ASSUME OptionsAssumption ==
    /\ MaxEntries \in [Parts -> Nat \ {0}] /\ Ttl \in [Parts -> Nat \ {0}]
    /\ Lengths \subseteq Nat /\ {L1MaxBytes, L2MaxBytes} \subseteq Nat
    /\ ReadPartitions \in Seq(SUBSET Parts) \ {<<>>} /\ {Robust, L2MayFail, Created} \subseteq BOOLEAN
    /\ Configuring \subseteq Workers

VARIABLES
    l1,       \* shm->slots: a function from the slots in use
    mutex,    \* shm->mutex: its owner, Free, or Dead when the owner died
    l2,       \* the LMDB database: a function from the keys it holds
    segment,  \* how far the creation of the shared memory has come
    conf,     \* of each worker: its options and the levels it has open
    op,       \* what each worker is doing
    device,   \* version of each remote property
    acked,    \* history: version whose write has returned successfully
    degraded, \* history: workers that failed to open L1, or to switch the cache on
    now, crashes, calls   \* clock; bounds

setupVars == <<segment, conf, degraded>>
envVars == <<device, acked, setupVars>>
boundVars == <<crashes, calls>>
vars == <<l1, mutex, l2, op, envVars, now, boundVars>>

Free == "free"
Dead == "dead"
Torn == -1              \* the value of a slot whose writer died
ShmSteps == {"get1", "promote", "put1", "clear1"}
AccessSteps == ShmSteps \cup {"get2", "fetch", "put2", "prune", "clear2"}
SetupSteps == {"open", "size", "init", "publish", "attach", "openL2"}
StoreSteps == {"promote", "put1", "put2"}   \* with a value in hand
Steps == AccessSteps \cup SetupSteps \cup {"idle"}

Value == [version : Nat \cup {Torn}, length : Nat, expires : Nat, stored : Nat]
FullKeys == Keys \X BOOLEAN
Slot == [key : FullKeys \cup {NoKey}, part : Parts, touched : Nat, value : Value]
NoValue == [version |-> 0, length |-> 0, expires |-> 0, stored |-> 0]

\* todo: sets of partitions still to be cleared; ack: the write this is for;
\* lmdb: LMDB is to be opened after L1.
Op == [step : Steps, key : Keys \cup {NoKey}, value : Value, todo : Seq(SUBSET Parts), ack : Nat,
       lmdb : BOOLEAN]
Idle == [step |-> "idle", key |-> NoKey, value |-> NoValue, todo |-> <<>>, ack |-> 0, lmdb |-> FALSE]
Starting == [Idle EXCEPT !.step = "open", !.lmdb = TRUE]

\* enabled, lmdb (l2_backend): options, with their INI defaults; shm, env: open levels.
Conf == [enabled : BOOLEAN, lmdb : BOOLEAN, shm : BOOLEAN, env : BOOLEAN]
Ini == [enabled |-> TRUE, lmdb |-> TRUE, shm |-> FALSE, env |-> FALSE]

Goto(w, step) == op' = [op EXCEPT ![w].step = step]
Done(w) == op' = [op EXCEPT ![w] = Idle]
At(w, step) == op[w].step = step
Key(w) == op[w].key

\* php_bacnet_make_full_key: the name of the backend is part of the key in L1.
FullKey(w) == <<Key(w), conf[w].lmdb>>
Live(v) == v.expires > now

-----------------------------------------------------------------------------
(* The mutex.  A section of the code under the mutex is one step, taken by  *)
(* its owner.                                                              *)

\* Mutant of Lock: the death of the owner is not noticed.
LockWaits(w) ==
    /\ op[w].step \in ShmSteps /\ conf[w].shm
    /\ mutex = Free
    /\ mutex' = w
    /\ UNCHANGED <<l1, l2, op, envVars, now, boundVars>>

\* php_bacnet_lock_shm
Lock(w) ==
    /\ op[w].step \in ShmSteps /\ conf[w].shm
    /\ mutex = Free \/ (mutex = Dead /\ Robust)
    /\ mutex' = w
    /\ UNCHANGED <<l1, l2, op, envVars, now, boundVars>>

\* Without L1 a section does nothing.
SkipL1(w) ==
    /\ ~conf[w].shm
    /\ \/ At(w, "get1") /\ Goto(w, "get2")
       \/ At(w, "promote") /\ Done(w)
       \/ At(w, "put1") /\ Goto(w, "put2")
       \/ At(w, "clear1") /\ Goto(w, "clear2")
    /\ UNCHANGED <<l1, mutex, l2, envVars, now, boundVars>>

Owns(w, step) == mutex = w /\ At(w, step)
Unlock == mutex' = Free

-----------------------------------------------------------------------------
(* php_bacnet_cache_get                                                     *)

\* With the cache off nothing is looked up or stored.
Read(w, k) ==
    /\ At(w, "idle") /\ conf[w].enabled
    /\ calls < MaxCalls
    /\ calls' = calls + 1
    /\ op' = [op EXCEPT ![w] = [Idle EXCEPT !.step = "get1", !.key = k]]
    /\ UNCHANGED <<l1, mutex, l2, envVars, now, crashes>>

Holding(k) == {i \in DOMAIN l1 : l1[i].key = k}
Without(S) == [i \in DOMAIN l1 \ S |-> l1[i]]

\* ++shm->tick for slot i: of the clock, only the order of the slots matters.
NextTick(i) == 1 + Max({0} \cup {l1[j].touched : j \in DOMAIN l1 \ {i}})

\* Mutant of GetL1: a hit returns without unlocking.
GetL1KeepsLock(w) ==
    LET k == FullKey(w) IN
    /\ Owns(w, "get1")
    /\ \/ \E i \in Holding(k) :
            /\ Live(l1[i].value) /\ UNCHANGED mutex
            /\ l1' = [l1 EXCEPT ![i].touched = NextTick(i)]
            /\ Done(w)
       \/ /\ \A i \in Holding(k) : ~Live(l1[i].value)
          /\ l1' = Without(Holding(k)) /\ Unlock
          /\ Goto(w, "get2")
    /\ UNCHANGED <<l2, envVars, now, boundVars>>

\* php_bacnet_shm_get: a hit is served, an expired slot is freed.
GetL1(w) ==
    LET k == FullKey(w) IN
    /\ Owns(w, "get1") /\ Unlock
    /\ \/ \E i \in Holding(k) :
            /\ Live(l1[i].value)
            /\ l1' = [l1 EXCEPT ![i].touched = NextTick(i)]
            /\ Done(w)
       \/ /\ \A i \in Holding(k) : ~Live(l1[i].value)
          /\ l1' = Without(Holding(k))
          /\ Goto(w, "get2")
    /\ UNCHANGED <<l2, envVars, now, boundVars>>

UsesL2(w) == conf[w].lmdb /\ conf[w].env

\* Mutant of GetL2: an expired record is promoted.
GetL2AnyAge(w) ==
    LET k == Key(w) IN
    /\ At(w, "get2")
    /\ \/ /\ UsesL2(w) /\ k \in DOMAIN l2
          /\ op' = [op EXCEPT ![w].step = "promote",
                              ![w].value = [l2[k] EXCEPT !.expires = now + Ttl[PartOf[k]]]]
       \/ /\ ~(UsesL2(w) /\ k \in DOMAIN l2)
          /\ Goto(w, "fetch")
    /\ UNCHANGED <<l1, mutex, l2, envVars, now, boundVars>>

\* php_bacnet_lmdb_get.  The expiry of the copy in L1 counts from now.
GetL2(w) ==
    LET k == Key(w)
        hit == UsesL2(w) /\ k \in DOMAIN l2 /\ Live(l2[k])
    IN
    /\ At(w, "get2")
    /\ \/ /\ hit
          /\ op' = [op EXCEPT ![w].step = "promote",
                              ![w].value = [l2[k] EXCEPT !.expires = now + Ttl[PartOf[k]]]]
       \/ /\ ~hit
          /\ Goto(w, "fetch")
    /\ UNCHANGED <<l1, mutex, l2, envVars, now, boundVars>>

-----------------------------------------------------------------------------
(* php_bacnet_shm_put                                                       *)

Older(i, j) == \/ l1[i].touched < l1[j].touched
               \/ l1[i].touched = l1[j].touched /\ i < j
LeastRecent(S) == CHOOSE i \in S : \A j \in S \ {i} : Older(i, j)
Bytes(S) == Cardinality(UNION {{i} \X (1..l1[i].value.length) : i \in S})   \* byte by byte
Entries(p) == {i \in DOMAIN l1 : l1[i].part = p}

\* Mutant of Target: another worker may have stored the key in the meantime.
TargetAssumesMiss(k) ==
    LET own == Entries(PartOf[k[1]])
        full == DOMAIN l1 = 1..Slots \/ Cardinality(own) >= MaxEntries[PartOf[k[1]]]
    IN  IF full THEN LeastRecent(IF own # {} THEN own ELSE DOMAIN l1)
        ELSE Min((1..Slots) \ DOMAIN l1)

\* The slot for key k: its own, a free one, or the least recently used of the
\* partition (of all, if the partition has none).
Target(k) ==
    LET own == Entries(PartOf[k[1]])
        full == DOMAIN l1 = 1..Slots \/ Cardinality(own) >= MaxEntries[PartOf[k[1]]]
    IN  IF Holding(k) # {} THEN Min(Holding(k))
        ELSE IF full THEN LeastRecent(IF own # {} THEN own ELSE DOMAIN l1)
        ELSE Min((1..Slots) \ DOMAIN l1)

\* Mutant of Victims: the new value is not counted.
VictimsNotCounted(i, length) ==
    LET others == DOMAIN l1 \ {i}
    IN  {j \in others : Bytes({m \in others : ~Older(m, j)}) > L1MaxBytes}

\* Other slots are evicted, oldest first, until the new value fits.
Victims(i, length) ==
    LET others == DOMAIN l1 \ {i}
    IN  {j \in others : Bytes({m \in others : ~Older(m, j)}) + length > L1MaxBytes}

\* The table without the victims S, with entry e in slot i.
With(i, e, S) == [j \in (DOMAIN l1 \ S) \cup {i} |-> IF j = i THEN e ELSE l1[j]]

ShmPut(k, v) ==
    IF v.length > L1MaxBytes THEN UNCHANGED l1
    ELSE LET i == Target(k)
             e == [key |-> k, part |-> PartOf[k[1]], touched |-> NextTick(i), value |-> v]
         IN  l1' = With(i, e, Victims(i, v.length))

Promote(w) ==
    /\ Owns(w, "promote") /\ Unlock
    /\ ShmPut(FullKey(w), op[w].value)
    /\ Done(w)
    /\ UNCHANGED <<l2, envVars, now, boundVars>>

-----------------------------------------------------------------------------
(* php_bacnet_cache_put, after the device has answered a read.              *)

\* The answer arrives: its value is as old as the device sent it.
Fetch(w, length) ==
    LET k == Key(w) IN
    /\ At(w, "fetch") /\ conf[w].enabled
    /\ op' = [op EXCEPT ![w].step = "put1",
                        ![w].value = [version |-> device[k], length |-> length,
                                      expires |-> now + Ttl[PartOf[k]], stored |-> now]]
    /\ UNCHANGED <<l1, mutex, l2, envVars, now, boundVars>>

\* No answer, an error, or the cache is off: nothing to cache.
FetchFails(w) ==
    /\ At(w, "fetch")
    /\ Done(w)
    /\ UNCHANGED <<l1, mutex, l2, envVars, now, boundVars>>

PutL1(w) ==
    /\ Owns(w, "put1") /\ Unlock
    /\ ShmPut(FullKey(w), op[w].value)
    /\ Goto(w, "put2")
    /\ UNCHANGED <<l2, envVars, now, boundVars>>

\* php_bacnet_lmdb_put
PutL2(w) ==
    LET k == Key(w) IN
    /\ At(w, "put2") /\ UsesL2(w)
    /\ op' = [op EXCEPT ![w].step = "prune", ![w].value = NoValue]
    /\ \/ l2' = [x \in DOMAIN l2 \cup {k} |-> IF x = k THEN op[w].value ELSE l2[x]]
       \/ L2MayFail /\ UNCHANGED l2
    /\ UNCHANGED <<l1, mutex, envVars, now, boundVars>>

PutWithoutL2(w) ==
    /\ At(w, "put2") /\ ~UsesL2(w)
    /\ Done(w)
    /\ UNCHANGED <<l1, mutex, l2, envVars, now, boundVars>>

Soonest(S) == {k \in S : \A x \in S : l2[k].expires <= l2[x].expires}
L2Bytes(S) == MapThenSumSet(LAMBDA k : l2[k].length, S)
Records(p) == {k \in DOMAIN l2 : PartOf[k] = p}

\* php_bacnet_lmdb_prune: what has expired in the partition goes, then at most
\* one record for the limit of the partition and one for the limit of bytes.
Prune(w) ==
    LET p == PartOf[Key(w)]
        live == DOMAIN l2 \ {k \in Records(p) : ~Live(l2[k])}
        own == live \cap Records(p)
    IN
    /\ At(w, "prune")
    /\ \/ /\ \E a \in IF Cardinality(own) > MaxEntries[p] THEN Soonest(own) ELSE {NoKey} :
              LET left == live \ {a} IN
              \E b \in IF L2Bytes(left) > L2MaxBytes THEN Soonest(left) ELSE {NoKey} :
                 l2' = [k \in left \ {b} |-> l2[k]]
       \/ L2MayFail /\ UNCHANGED l2
    /\ Done(w)
    /\ UNCHANGED <<l1, mutex, envVars, now, boundVars>>

-----------------------------------------------------------------------------
(* php_bacnet_cache_clear                                                   *)

\* clearCache(), with or without a partition.
ClearCache(w, parts) ==
    /\ At(w, "idle")
    /\ calls < MaxCalls /\ calls' = calls + 1
    /\ op' = [op EXCEPT ![w] = [Idle EXCEPT !.step = "clear1", !.todo = <<parts>>]]
    /\ UNCHANGED <<l1, mutex, l2, envVars, now, crashes>>

\* readProperty(refresh: true): clear the partition, then ask the device.
Refresh(w, k) ==
    /\ At(w, "idle")
    /\ calls < MaxCalls /\ calls' = calls + 1
    /\ op' = [op EXCEPT ![w] = [Idle EXCEPT !.step = "clear1", !.key = k, !.todo = <<{PartOf[k]}>>]]
    /\ UNCHANGED <<l1, mutex, l2, envVars, now, crashes>>

\* The device has executed a write and its Simple-ACK has arrived.
WriteAcked(w, k) ==
    /\ At(w, "idle")
    /\ \A j \in Keys : device[j] < MaxVersion      \* bound
    /\ device' = [device EXCEPT ![k] = @ + 1]
    /\ op' = [op EXCEPT ![w] = [Idle EXCEPT !.step = "clear1", !.key = k, !.todo = ReadPartitions,
                                            !.ack = device[k] + 1]]
    /\ UNCHANGED <<l1, mutex, l2, acked, setupVars, now, boundVars>>

\* php_bacnet_shm_clear_partition
ClearL1(w) ==
    /\ Owns(w, "clear1") /\ Unlock
    /\ l1' = Without({i \in DOMAIN l1 : l1[i].part \in Head(op[w].todo)})
    /\ Goto(w, "clear2")
    /\ UNCHANGED <<l2, envVars, now, boundVars>>

\* After the last partition the write returns, or the refreshing read asks.
AfterClear(w) ==
    LET rest == Tail(op[w].todo)
        k == Key(w)
    IN
    \/ /\ rest # <<>>
       /\ op' = [op EXCEPT ![w].step = "clear1", ![w].todo = rest]
       /\ UNCHANGED acked
    \/ /\ rest = <<>> /\ op[w].ack > 0
       /\ acked' = IF op[w].ack > acked[k] THEN [acked EXCEPT ![k] = op[w].ack] ELSE acked
       /\ Done(w)
    \/ /\ rest = <<>> /\ op[w].ack = 0
       /\ IF k = NoKey THEN Done(w) ELSE op' = [op EXCEPT ![w].step = "fetch", ![w].todo = <<>>]
       /\ UNCHANGED acked

\* An open LMDB is cleared, used or not.
ClearL2(w) ==
    /\ At(w, "clear2")
    /\ \/ conf[w].env /\ l2' = [k \in {x \in DOMAIN l2 : PartOf[x] \notin Head(op[w].todo)} |-> l2[k]]
       \/ (L2MayFail \/ ~conf[w].env) /\ UNCHANGED l2
    /\ AfterClear(w)
    /\ UNCHANGED <<l1, mutex, device, setupVars, now, boundVars>>

-----------------------------------------------------------------------------
(* php_bacnet_open_shm and php_bacnet_open_lmdb, when a client is created    *)
(* or its options require it.  The segment is created in the steps absent,  *)
(* empty, sized, initialised, ready, and is never removed.                  *)

Fails == crashes < MaxCrashes /\ crashes' = crashes + 1 /\ UNCHANGED calls

\* After L1, opened or not: LMDB, then the clear of setCacheOptions.
AfterOpen(w) == CASE op[w].lmdb         -> Goto(w, "openL2")
                  [] op[w].todo # <<>>  -> Goto(w, "clear1")
                  [] OTHER              -> Done(w)
WithoutL1(w) == AfterOpen(w) /\ degraded' = degraded \cup {w} /\ UNCHANGED conf
WithL1(w) ==
    /\ AfterOpen(w)
    /\ conf' = [conf EXCEPT ![w].shm = TRUE] /\ degraded' = degraded \ {w}

\* Mutant of OpenSegment: without O_EXCL every worker takes itself for the first.
OpenSegmentAnyway(w) ==
    /\ At(w, "open")
    /\ segment' = (IF segment = "absent" THEN "empty" ELSE segment) /\ Goto(w, "size")
    /\ UNCHANGED <<conf, degraded, boundVars>>
    /\ UNCHANGED <<l1, mutex, l2, device, acked, now>>

\* shm_open with O_CREAT | O_EXCL tells who is the first.
OpenSegment(w) ==
    /\ At(w, "open")
    /\ \/ /\ segment = "absent" /\ segment' = "empty" /\ Goto(w, "size")
          /\ UNCHANGED <<conf, degraded, boundVars>>
       \/ /\ segment # "absent" /\ Goto(w, "attach")
          /\ UNCHANGED <<segment, conf, degraded, boundVars>>
       \/ Fails /\ WithoutL1(w) /\ UNCHANGED segment
    /\ UNCHANGED <<l1, mutex, l2, device, acked, now>>

\* ftruncate; without it the segment stays as it is.
SizeSegment(w) ==
    /\ At(w, "size")
    /\ \/ segment' = "sized" /\ Goto(w, "init") /\ UNCHANGED <<conf, degraded, boundVars>>
       \/ Fails /\ WithoutL1(w) /\ UNCHANGED segment
    /\ UNCHANGED <<l1, mutex, l2, device, acked, now>>

InitSegment(w) ==
    /\ At(w, "init")
    /\ l1' = <<>> /\ mutex' = Free
    /\ segment' = "initialised" /\ Goto(w, "publish")
    /\ UNCHANGED <<conf, degraded, boundVars>>
    /\ UNCHANGED <<l2, device, acked, now>>

PublishSegment(w) ==
    /\ At(w, "publish")
    /\ segment' = "ready" /\ WithL1(w)
    /\ UNCHANGED <<l1, mutex, l2, device, acked, now, boundVars>>

\* The others attach, if the magic number is there.
Attach(w) ==
    /\ At(w, "attach") /\ segment # "empty"
    /\ IF segment = "ready" THEN WithL1(w) ELSE WithoutL1(w)
    /\ UNCHANGED <<l1, mutex, l2, segment, device, acked, now, boundVars>>

\* A magic number beyond the end of an empty segment: the process gets a SIGBUS.
AttachKills(w) ==
    /\ At(w, "attach") /\ segment = "empty"
    /\ op' = [op EXCEPT ![w] = Starting]
    /\ conf' = [conf EXCEPT ![w] = Ini] /\ degraded' = degraded \ {w}
    /\ UNCHANGED <<l1, mutex, l2, segment, device, acked, now, boundVars>>

OpenL2(w) ==
    /\ At(w, "openL2")
    /\ IF op[w].todo # <<>> THEN op' = [op EXCEPT ![w].step = "clear1", ![w].lmdb = FALSE] ELSE Done(w)
    /\ \/ conf' = [conf EXCEPT ![w].env = TRUE] /\ UNCHANGED boundVars
       \/ Fails /\ UNCHANGED conf
    /\ UNCHANGED <<l1, mutex, l2, segment, degraded, device, acked, now>>

-----------------------------------------------------------------------------
(* php_bacnet_cache_set_options.  Options: the cache on or off, L2 none or  *)
(* lmdb, a new name for the segment or path for LMDB (both lead to the same *)
(* storage here), and an invalid one.                                       *)

OptionNames == {"on", "off", "lmdb", "none", "shm", "path", "invalid"}
ASSUME OptionNamesAssumption == Options \subseteq OptionNames

\* The options before the first invalid one take effect.
Applied(s) == IF "invalid" \in {s[i] : i \in DOMAIN s}
              THEN SubSeq(s, 1, Min({i \in DOMAIN s : s[i] = "invalid"}) - 1) ELSE s
LastOf(s, yes, no, old) ==
    LET I == {i \in DOMAIN s : s[i] \in {yes, no}} IN IF I = {} THEN old ELSE s[Max(I)] = yes
Has(s, option) == \E i \in DOMAIN s : s[i] = option

\* Mutant of SetOptions: a cache that is switched on does not reopen its levels.
SetOptionsNoReopen(w, s) ==
    LET set == [conf[w] EXCEPT !.enabled = LastOf(s, "on", "off", @), !.lmdb = LastOf(s, "lmdb", "none", @)]
        shm == Has(s, "shm")
        env == Has(s, "path")
    IN
    /\ At(w, "idle") /\ Applied(s) = s
    /\ calls < MaxCalls /\ calls' = calls + 1
    /\ conf' = [conf EXCEPT ![w] = [set EXCEPT !.shm = @ /\ ~shm, !.env = @ /\ ~env]]
    /\ LET lmdb == env /\ set.enabled /\ set.lmdb IN
       op' = [op EXCEPT ![w] = [Idle EXCEPT !.todo = <<Parts>>, !.lmdb = lmdb,
                !.step = IF shm /\ set.enabled THEN "open" ELSE IF lmdb THEN "openL2" ELSE "clear1"]]
    /\ UNCHANGED <<l1, mutex, l2, segment, degraded, device, acked, now, crashes>>

SetOptions(w, s) ==
    LET set == [conf[w] EXCEPT !.enabled = LastOf(s, "on", "off", @), !.lmdb = LastOf(s, "lmdb", "none", @)]
        on == ~conf[w].enabled /\ set.enabled
        shm == Has(s, "shm") \/ on
        env == Has(s, "path") \/ (on /\ set.lmdb)
    IN
    /\ At(w, "idle") /\ Applied(s) = s
    /\ calls < MaxCalls /\ calls' = calls + 1
    /\ conf' = [conf EXCEPT ![w] = [set EXCEPT !.shm = @ /\ ~shm, !.env = @ /\ ~env]]
    /\ LET lmdb == env /\ set.enabled /\ set.lmdb IN
       op' = [op EXCEPT ![w] = [Idle EXCEPT !.todo = <<Parts>>, !.lmdb = lmdb,
                !.step = IF shm /\ set.enabled THEN "open" ELSE IF lmdb THEN "openL2" ELSE "clear1"]]
    /\ UNCHANGED <<l1, mutex, l2, segment, degraded, device, acked, now, crashes>>

\* An exception: no level is opened or closed, nothing is cleared.
SetOptionsFails(w, s) ==
    LET a == Applied(s)
        enabled == LastOf(a, "on", "off", conf[w].enabled)
    IN
    /\ At(w, "idle") /\ a # s
    /\ calls < MaxCalls /\ calls' = calls + 1
    /\ conf' = [conf EXCEPT ![w].enabled = enabled, ![w].lmdb = LastOf(a, "lmdb", "none", @)]
    /\ degraded' = IF enabled /\ ~conf[w].enabled THEN degraded \cup {w} ELSE degraded
    /\ UNCHANGED <<l1, mutex, l2, segment, op, device, acked, now, crashes>>

-----------------------------------------------------------------------------
(* A worker dies; the process manager starts another one in its place.      *)

Die(w) ==
    /\ op' = [op EXCEPT ![w] = Starting] /\ crashes' = crashes + 1
    /\ conf' = [conf EXCEPT ![w] = Ini] /\ degraded' = degraded \ {w}
    /\ UNCHANGED segment

Crash(w) ==
    /\ crashes < MaxCrashes
    /\ op[w].step # "idle" /\ mutex # w
    /\ Die(w)
    /\ UNCHANGED <<l1, mutex, l2, device, acked, now, calls>>

CrashWithMutex(w) == crashes < MaxCrashes /\ mutex = w /\ mutex' = Dead /\ Die(w)

\* Mutant of TornEntries: a slot in use is not zeroed before it gets its new key.
TornEntriesNotZeroed(k, v) ==
    LET i == Target(k) IN
    {[key |-> k, part |-> PartOf[k[1]], touched |-> 0,
      value |-> IF i \in DOMAIN l1 THEN l1[i].value ELSE [NoValue EXCEPT !.version = Torn]]}

\* The states of a slot that is being written, in the order of the stores:
\* used, partition, key, length, value, expiry.  Only then is it touched.
TornEntries(k, v) ==
    LET E(part, key, value) == [key |-> key, part |-> part, touched |-> 0, value |-> value]
        torn == [NoValue EXCEPT !.version = Torn]
    IN  {E(FirstPart, NoKey, torn), E(PartOf[k[1]], NoKey, torn), E(PartOf[k[1]], k, torn),
         E(PartOf[k[1]], k, [torn EXCEPT !.length = v.length]),
         E(PartOf[k[1]], k, [v EXCEPT !.expires = 0]), E(PartOf[k[1]], k, v)}

\* The victims go one by one, the slot is zeroed, written, and complete.
CrashInPut(w) ==
    LET k == FullKey(w)
        v == op[w].value
        i == Target(k)
    IN
    /\ CrashWithMutex(w)
    /\ op[w].step \in {"promote", "put1"} /\ v.length <= L1MaxBytes
    /\ \/ \E S \in SUBSET Victims(i, v.length) : l1' = Without(S)
       \/ l1' = Without(Victims(i, v.length) \cup {i})
       \/ \E e \in TornEntries(k, v) : l1' = With(i, e, Victims(i, v.length))
       \/ ShmPut(k, v)
    /\ UNCHANGED <<l2, device, acked, now, calls>>

CrashInClear(w) ==
    /\ CrashWithMutex(w)
    /\ At(w, "clear1")
    /\ \E S \in SUBSET {i \in DOMAIN l1 : l1[i].part \in Head(op[w].todo)} : l1' = Without(S)
    /\ UNCHANGED <<l2, device, acked, now, calls>>

\* Before the section has changed a slot.
CrashHolding(w) ==
    /\ CrashWithMutex(w)
    /\ UNCHANGED <<l1, l2, device, acked, now, calls>>

\* The property changes by itself.
DeviceChange(k) ==
    /\ \A j \in Keys : device[j] < MaxVersion      \* bound
    /\ device' = [device EXCEPT ![k] = @ + 1]
    /\ UNCHANGED <<l1, mutex, l2, op, acked, setupVars, now, boundVars>>

\* Time is looked at only through the values that have not expired.
Tick ==
    /\ now < MaxTime
    /\ \/ \E i \in DOMAIN l1 : Live(l1[i].value)
       \/ \E k \in DOMAIN l2 : Live(l2[k])
       \/ \E w \in Workers : Live(op[w].value)
    /\ now' = now + 1
    /\ UNCHANGED <<l1, mutex, l2, op, envVars, boundVars>>

-----------------------------------------------------------------------------
Init ==
    /\ l1 = <<>> /\ mutex = Free
    /\ l2 = <<>>
    /\ segment = IF Created THEN "ready" ELSE "absent"
    /\ conf = [w \in Workers |-> [Ini EXCEPT !.shm = Created, !.env = Created]]
    /\ op = [w \in Workers |-> IF Created THEN Idle ELSE Starting]
    /\ degraded = {}
    /\ device = [k \in Keys |-> 0] /\ acked = [k \in Keys |-> 0]
    /\ now = 0 /\ crashes = 0 /\ calls = 0

\* The next step of what a worker has begun.
Continue(w) ==
    \/ Lock(w) \/ SkipL1(w)
    \/ GetL1(w) \/ GetL2(w) \/ Promote(w)
    \/ FetchFails(w) \/ \E length \in Lengths : Fetch(w, length)
    \/ PutL1(w) \/ PutL2(w) \/ PutWithoutL2(w) \/ Prune(w)
    \/ ClearL1(w) \/ ClearL2(w)
    \/ OpenSegment(w) \/ SizeSegment(w) \/ InitSegment(w) \/ PublishSegment(w)
    \/ Attach(w) \/ AttachKills(w) \/ OpenL2(w)

Begin(w) ==
    \/ \E k \in Keys : Read(w, k) \/ Refresh(w, k) \/ WriteAcked(w, k)
    \/ \E p \in Parts : ClearCache(w, {p})
    \/ ClearCache(w, Parts)
    \/ /\ w \in Configuring
       /\ \E s \in BoundedSeq(Options, 2) : SetOptions(w, s) \/ SetOptionsFails(w, s)   \* bound

Dies(w) == Crash(w) \/ CrashInPut(w) \/ CrashInClear(w) \/ CrashHolding(w)

Next ==
    \/ \E w \in Workers : Begin(w) \/ Continue(w) \/ Dies(w)
    \/ \E k \in Keys : DeviceChange(k)
    \/ Tick

Spec == Init /\ [][Next]_vars

\* Workers are scheduled; each one that asks for the mutex again and again gets it.
FairSpec == Spec /\ \A w \in Workers : WF_vars(Continue(w)) /\ SF_vars(Lock(w))

-----------------------------------------------------------------------------
(* Properties.                                                             *)

\* Every variable keeps its type; the owner of the mutex is in a section.
TypeOK ==
    /\ DOMAIN l1 \subseteq 1..Slots /\ \A i \in DOMAIN l1 : l1[i] \in Slot
    /\ {now, crashes, calls} \subseteq Nat
    /\ mutex \in Workers \cup {Free, Dead}
    /\ mutex \in Workers => op[mutex].step \in ShmSteps
    /\ DOMAIN l2 \subseteq Keys /\ \A k \in DOMAIN l2 : l2[k] \in Value
    /\ op \in [Workers -> Op] /\ conf \in [Workers -> Conf]
    /\ segment \in {"absent", "empty", "sized", "initialised", "ready"}
    /\ degraded \subseteq Workers
    /\ device \in [Keys -> Nat] /\ acked \in [Keys -> Nat]

\* No key has two slots: a stale twin would survive every later put.
OneSlotPerKey == \A k \in FullKeys : Cardinality(Holding(k)) <= 1

\* No partition exceeds its max_entries, and the values never exceed l1_max_bytes,
\* whichever workers fill, promote and expire entries.  Only partition number 0 may
\* get one slot more with each worker that dies between the zeroing of a slot and
\* the store of its partition: the slot stays, torn or reused.
L1Bounded ==
    /\ \A p \in Parts :
        Cardinality(Entries(p)) <= MaxEntries[p] + (IF p = FirstPart THEN crashes ELSE 0)
    /\ Bytes(DOMAIN l1) <= L1MaxBytes

\* A slot whose writer died is never served: its expiry is written last.
TornNeverServed == \A i \in DOMAIN l1 : Live(l1[i].value) => l1[i].value.version # Torn

\* What a read would be served now is younger than twice the ttl: an L2 hit is
\* promoted with a full ttl, but never back to L2.
AgeBounded ==
    /\ \A i \in DOMAIN l1 : Live(l1[i].value) => now - l1[i].value.stored < 2 * Ttl[l1[i].part]
    /\ \A k \in DOMAIN l2 : Live(l2[k]) => now - l2[k].stored < Ttl[PartOf[k]]

\* A successful write invalidates: no level holds an older value, ready to be
\* served, once writeProperty has returned.
WriteInvalidates ==
    \A k \in Keys :
        /\ \A i \in Holding(<<k, TRUE>>) : Live(l1[i].value) => l1[i].value.version >= acked[k]
        /\ k \in DOMAIN l2 /\ Live(l2[k]) => l2[k].version >= acked[k]

\* Who uses L1 finds it complete: it is initialised once, by the worker that has
\* created it, and nobody uses it before, whoever else starts or dies meanwhile.
SegmentReady == (\E w \in Workers : conf[w].shm) => segment = "ready"

\* A worker with the cache on has L1, through every sequence of options; unless it
\* met an unfinished segment, or the cache was switched on by a failed setCacheOptions.
EnabledHasL1 == \A w \in Workers :
    At(w, "idle") /\ conf[w].enabled => conf[w].shm \/ w \in degraded

\* Every cache access comes to an end, even if a worker dies holding the mutex.
AccessEnds == \A w \in Workers : op[w].step \in AccessSteps ~> op[w].step \notin AccessSteps

\* Every worker that starts gets to work.  Refuted: one that dies between shm_open
\* and ftruncate leaves a segment whose size kills every later one.
StartEnds == \A w \in Workers : At(w, "open") ~> At(w, "idle")

\* Both levels and all workers together are a cache that may forget anything: what
\* a read may still find, or a worker is about to store, was given by the device for
\* this very key, however slots are reused, values promoted and writers killed, and
\* nothing brings back what has expired.
Fact(k, v) == [key |-> k, version |-> v.version, at |-> v.stored]
FactsL1 == {Fact(l1[i].key[1], l1[i].value) :
              i \in {j \in DOMAIN l1 : l1[j].key # NoKey /\ Live(l1[j].value)}}
FactsL2 == {Fact(k, l2[k]) : k \in {j \in DOMAIN l2 : Live(l2[j])}}
FactsInHand == {Fact(Key(w), op[w].value) :
                  w \in {x \in Workers : op[x].step \in StoreSteps /\ Live(op[x].value)}}
Known == FactsL1 \cup FactsL2 \cup FactsInHand
Memory == INSTANCE ForgetfulCache WITH
    known <- Known, MaxAge <- [k \in Keys |-> 2 * Ttl[PartOf[k]]]
MemorySpec == Memory!Spec
=============================================================================
