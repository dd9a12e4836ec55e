# A TLA+ model of php-bacnet

php-bacnet is a PHP extension in C that speaks BACnet/IP: a client that reads,
writes, subscribes and discovers, a server that answers from PHP callbacks, and a
"mixed" server that does both on one UDP socket. This directory models its control
logic in TLA+, checks it with TLC and proves the central results with TLAPS. Paths
are relative to the repository; the extension's C files are `src/bacnet_*.c` and
`bacnet.c`, the user documentation (in German) is under `docs/`.

## The system

| Part | Code | State it keeps | Operations |
|---|---|---|---|
| Client calls | `src/bacnet_client.c`, `src/bacnet_classes.c` | two id counters (invoke ids of 8 bits, subscriber process ids), the call stack, the COV callback, the view of the cache | `readProperty`, `writeProperty`, `subscribeCOV`, `unsubscribeCOV`, `poll`, the receive loop `php_bacnet_send_and_wait` |
| Discovery | same files | DEVICE, NEGATIVE and IP partitions, `Device` objects that hold an address | `whoIs` of `Client` and `MixedServer`, `broadcast_and_collect`, refresh of a route |
| Shared cache | `src/bacnet_cache.c` | L1: slots in POSIX shared memory under a process-shared mutex; L2: LMDB; of each worker the options and the levels it has open | get with promotion, put with prune, clear, refresh, creation of the segment, `setCacheOptions` |
| Callback backend | `src/bacnet_cache.c` | a PHP object that replaces LMDB, shared by several hosts; generations; the generation a worker knows and the time of its last check | `setCacheBackend`, check, get, set, clear, bump |
| Admission | `src/bacnet_security.c` | table of sources (tokens, violations, block), global bucket, statistics | `accept`, `malformed`, `queue_overflow`, configure, statistics |
| Write deduplication | `src/bacnet_security.c`, `Server::poll` | ring of fingerprints of executed writes | check before, record after the write handler |
| Mixed queue | `src/bacnet_client.c`, `MixedServer` | ring of pending PDUs | queue during calls, pop in `poll` |
| Request dispatch | `Server::poll` in `src/bacnet_classes.c` | registered objects, handlers, running polls | Who-Is, ReadProperty, ReadPropertyMultiple, unknown services |

How they interact: every call of a client runs the same receive loop, which hands
what it does not wait for to an *unsolicited handler*. For a `Client` with
`onCovNotification()` that handler runs PHP code in the middle of the call, and this
code may call the client again. For a `MixedServer` it runs the admission checks and
queues requests; `Server::poll()` serves the queue before it reads the socket. `poll()`
runs PHP read and write handlers, which may `poll()`, call or throw. All PHP workers
of a host share L1 and L2; a worker is single-threaded and may be killed at any time.
Workers of different hosts meet only in a callback backend: each write and each put
bumps a generation there, and a worker that finds another one than it knows empties
the L1 of its host.

What is hard: calls nested in callbacks that share one socket and one id counter;
datagrams that are lost, late, repeated or reordered; deadlines that race with late
answers; cache entries that outlive what made them true; two workers between the two
cache levels; the death of a worker inside the mutex; rings, tables and windows at
their limits; exceptions that leave half of an operation done; reconfiguration at run
time. `PROJECT.json` lists each such hazard with its line and the properties that
watch it.

## Modules

| Module | Models | State and actions |
|---|---|---|
| `ClientCalls` | client calls of one process | `calls` is the history of transactions, `stack` the call stack with COV callbacks, `replies` a network that delivers any reply any number of times or never. `ReadSend`, `WriteSend`, `SubscribeSend`, `UnsubscribeSend` start a call, `Accept`, `Discard`, `Timeout` are the turns of the receive loop, `Notify`, `CallbackReturn`, `CallbackThrow` the callback, `NewSession` is RINIT, which restarts the ids |
| `Discovery` | `whoIs` and the routes | `WhoIsCached`, `WhoIsNegative`, `WhoIsSends`, then `CollectIAm`, `CollectCov`, `EndCollect` (a second broadcast after an empty round); `RefreshRoute` is what every operation on a `Device` begins with; `OnCovNotification` installs the handler at any time |
| `ForgetfulCache` | what a cache promises | a set of facts (key, version, when the device gave it) that may shrink at any time, grows only by what the device says now, and loses what has reached its age |
| `SharedCache` | L1 and L2, several workers | each worker is at one `step`; a section under the mutex is one step of its owner, each LMDB transaction another, so that workers interleave between them. `OpenSegment`, `SizeSegment`, `InitSegment`, `PublishSegment`, `Attach` and `OpenL2` are the start of a worker (`segment` is how far the creation has come), `SetOptions` and `SetOptionsFails` are `setCacheOptions`. `Crash...` kills a worker at any step, inside `shm_put` and `clear` after any of its stores; another one starts in its place. Implements `ForgetfulCache` under `known <- Known`: what live slots and records say, and the values workers hold between two levels |
| `CacheGenerations` | the callback backend, several hosts | each worker is at one `step`, each call of the backend is a step and may throw before or after it took effect; `CheckGeneration`, `Drop` are the coherence check, `Bump` what a put or a clear ends with, `Restart` a worker that forgets what it knew |
| `ServerSecurity` | admission of packets | one action per way out of `php_bacnet_security_accept`; `GetSource` is the scan of the table with expiry and replacement, `Take` a token bucket, `Violation` the flood window; `Configure`, `GetStats` |
| `WriteDedup` | WriteProperty at the server, clients that retry | `Begin` and `Finish`/`Throw` bracket the write handler: between them anything may happen, also another `poll()`; `Configure` empties the ring, `Restart` restarts a client's ids |
| `RequestFifo` | what the mixed queue promises | an abstract bounded queue: datagrams arrive, wait, are served in order or counted |
| `RequestService` | what a server promises to those who send requests | requests are taken up in order, those it reads for end in reverse order, each is settled once, by an answer about just what was asked for or by none where none is due |
| `MixedReceive` | one socket for both roles | `CallAnswered`, `CallSkips`, `CallRejects`, `CallQueues`, `CallOverflows` are the fates of a datagram during a call, `PollQueued`, `PollReceives`, `PollRejects` those in `poll()`; the ring has its head, count and array. Implements `RequestFifo` under the refinement `queue <- Contents` |
| `ServerRequests` | dispatch of a request | `polls` is the stack of running `poll()` calls; `Resolve...` answer an entry, `CallHandler`, `HandlerReturns`, `HandlerThrows`, `HandlerRefused` (PHP calls nothing while an exception is pending), `AnswerRead`, `AnswerMultiple`, `AnswerAbort`. Implements `RequestService` under `waiting <- socket`, `serving <- BegunPolls`, `sent <- Outlines`: the requests of the running polls and what the answers are about, without entries, handlers and the registry |
| `...Proofs` | theorems about the module they extend, after the lemmas on numbers, sets and sequences they need | |
| `MC...` | small instances for TLC | |

`ClientCalls`, `MixedReceive` and `ServerSecurity` meet at one point each: for
`ClientCalls` an id identifies a call only within its space, for `MixedReceive` it
always does; for `MixedReceive` the admission checks reject freely, `ServerSecurity`
says when they may.

Abstractions that a reader should know: time is a clock in ticks; values are versions
(how often the property changed), addresses are counters, payloads are model values.
In `SharedCache` a reading of the clock is taken together with the step next to it,
and the stores of a torn slot become visible in program order. `ServerRequests`
counts entries of an answer instead of bytes (`ApduEntries`), and takes `PROP_ALL` as
its expansion. In `SharedCache` a new name for the segment, or path for LMDB, leads to
the same storage, so `setCacheOptions` never moves a worker to another one; L1 keeps the
values of LMDB and those stored without it under different keys, as the code does.
`CacheGenerations` has one partition, without expiry and with room in L1, which
`SharedCache` models. The fingerprint of a write is what it hashes (address, id, object,
value), so hash collisions are not considered. `WriteDedup` admits any number of writes
per window: with the default options 500 per second, 5 seconds of window and 1000 of
burst leave at most 3500 writes for 4096 slots, but other options are accepted.
Operators commented as *mutant* are variants with a plausible bug; they show that each
property can fail and are part of no specification.

## Runs

Every run but the last two must pass. Distinct states and times are those of two
TLC workers.

| Run | Question | Bounds, and why they suffice |
|---|---|---|
| `ClientSequential` (2.1M states) | Without a COV callback, does a call take only its own answer, time out only without one, and leave the cache up to date? | 3 calls with 2 ids, so that ids wrap; replies live for 2 calls (`Lifetime`); a write and a change of the device in between; one cacheable key |
| `ClientCallbacks` (840k) | With nested callbacks, exceptions, subscriptions and a second PHP request: do calls end, and does a call take no answer but its own, until its callback has drawn a whole round of ids? | depth 3: a call, its callback, a call of the callback; 3 calls with 2 ids, so that the counter comes back to the id of the call that waits; one notification, one subscription (`MaxSubscriptions`), replies that live for 2 calls; 2 sessions, so that ids restart |
| `SecurityChecks` (1.3M) | Is the table consistent, are the rates kept, and is a flood, and only a flood, blocked for its whole duration? | two addresses; four option sets (room for both; one drop is a flood; one entry for both with access lists; protection off) that replace each other; 4 packets and 3 ticks reach two drops, a block, expiry, replacement and a refill |
| `WriteRetries` (7.7M) | Was an acknowledged write executed; does a repeated one run again only after its window, or after its entry was overwritten? | two clients with addresses of their own (they are symmetric), 2 ids; 3 writes for 2 slots and 4 runs, so that live entries are overwritten; handlers that throw or `poll()` once more; 2 ticks for a window of 2, with both outcomes at its last tick; one duplicate, one restart |
| `MixedQueue` (260k) | Is every accepted request served once, in order, or counted; does the ring implement the abstract queue; does it drain? | 4 arrivals for a ring of 2, so that it overflows and its head wraps; 2 calls, nested polls |
| `CacheWorkers` (1.6M) | Do the limits of L1 hold, with one slot per key; do both levels and the workers implement a cache that may forget anything, but invents and revives nothing? | 2 workers, 3 keys in 2 partitions (one of one entry), lengths 1 and 2 with 2 bytes allowed, failing LMDB writes, one crash; the workers are symmetric |
| `CacheCrash` (450k) | Starting without a segment: does nobody use an unfinished one, has an enabled cache its L1, does a value live at most twice its ttl, does every access end? | 2 workers that start at once, one of them sets up to 2 of all options per call; one key with ttl 2, 3 calls and 4 ticks: stored, promoted late, served later; one crash or failure; robust mutex |
| `CacheGenerations` (4.7M) | Does a write reach the other hosts within one interval, and its own host at once? | 2 workers on one host and one on another, 2 keys (the workers of a host and the keys are symmetric), an interval of one tick, 2 calls and a write, one exception or restart |
| `DiscoveryRanges` (910k) | Does DEVICE follow the last search of its range, what may take a route back, and does every `whoIs` end? | 2 devices that move once, 2 overlapping ranges; 2 searches of the network, one of them perhaps within a callback of the other, and any number of cached results in between; one datagram in the socket |
| `ServerAnswers` (630k) | Is each request answered with its own entries, each well-formed read answered, and everything served; does the server implement the abstract service? | 3 requests out of 12, well formed, broken or empty, 2 nested handlers, 2 changes of objects and handlers |
| `CacheRace` | violated: see below | |
| `CacheStuck` | violated: see below | |

`CHECK_DEADLOCK FALSE` everywhere: a script may stop, and the bounds (named `Max...`)
stop the counters of history.

Properties worth an explanation. `OwnUnlessLapped` says what an id of 8 bits is worth
when callbacks make calls: `next_invoke_id` takes no notice of the calls that wait, so
after 256 calls of a callback the answers of the next one may end the call it
interrupts. `GlobalRateBound` and `SourceRateBound` compare any two packets that passed
since the options were installed: between them there were no more than the burst and the
refill of just this interval (`Within`), so a bucket that saved up more than its burst
would show. `RepeatOnlyAfterWindow` relates two runs of the handler for the same
transaction, by what the later one found when it began (`before`); `AckMeansExecuted`
follows a write from its client to the handler. `SourceRateBound`, `FloodIsBlocked` and
`BlockHolds` are stated under `Room`: the table has an entry for every address that
sends, and entries live at least as long as blocks, flood windows and refills need.
Without room an entry takes its block with it when it is replaced; the run includes such
option sets for the other properties. `FloodIsBlocked` says what the tumbling window
really gives: twice the limit, less one, within a window never passes without a block.
`CacheReflectsDiscovery` and `RouteBackOnlyFromCache` speak of the time until a COV
handler is installed, because a search nested in another one overtakes it. The latter is
what holds of the documented `RouteIsCurrent`, which TLC refutes. `L1Bounded` allows
partition number 0 one entry more for each worker that died while it wrote a slot:
zeroing gives the slot this number, and its next use for a key of the partition takes
place beyond the limit. `EnabledHasL1` leaves out the workers in `degraded`, a history
variable: those that met an unfinished segment or could not open it, and those whose
cache a failed `setCacheOptions` has switched on. `FreshWithinInterval` names the four
ways in which the code serves an older value after an interval; each is a history
variable (`late` of an entry, `lost`, `unchecked`, `missed`), and without any of them
TLC refutes the property. `MemorySpec` contains that a half-written slot is never served
(`TornNeverServed`): its value is no version of the device. In the same way `FifoSpec`
contains `ServedInOrder`, an invariant of `RequestFifo`; both are proved by themselves
and in no run.

### Fairness

* `ClientCalls`, `Discovery`: the loops compare the clock with a fixed deadline at
  every turn (`src/bacnet_client.c:199` and `:304`), so the end of a call is taken
  sooner or later whatever arrives: weak fairness of `Timeout`, strong fairness of
  `EndCollect` (callbacks disable it for a while). Callbacks are assumed to return.
* `MixedReceive`, `ServerRequests`: the daemon keeps polling. It is the documented
  duty of the script (`docs/mixed-mode.md:152-153`: "muss der Daemon regelmäßig
  `poll()` aufrufen"). Handlers return or throw.
* `SharedCache`: workers are scheduled (weak fairness of `Continue`), and a worker
  that asks for the mutex again and again gets it (strong fairness of `Lock`).

### What the violated runs show

* `CacheStuck` (`src/bacnet_cache.c:163`): the mutex is made robust only under
  `#ifdef PTHREAD_MUTEX_ROBUST`. In glibc this is a member of an enumeration, not a
  macro, so the branch is not compiled and the recovery at line 129 is dead code: a
  worker killed in its section stalls every other worker. (musl defines a macro;
  `CacheCrash` shows that with a robust mutex all accesses end.)
* `CacheRace` (`src/bacnet_cache.c:629`): a worker that read L2, or the device, before
  a write stores the old value in L1 after the writer has cleared it. The old value is
  served until it expires, although "Ein erfolgreicher Write invalidiert betroffene
  Read-Einträge." (`docs/client-cache.md:88`).

### Known limits: assumptions that TLC refutes when they are lifted

The passing runs and the theorems hold under constants that exclude the following
behaviours of the code. Each can be reproduced with the change named here.

| Code | Behaviour | How to see it |
|---|---|---|
| `bacnet_client.c:339` | a call made in a COV callback receives the answer of the call it interrupts and drops it; the outer call throws a TimeoutException although the device answered in time (`docs/mixed-mode.md:157`) | `TimeoutMeansUnanswered` with `CovHandlerSet = TRUE` |
| `bacnet_classes.c:251` | `next_invoke_id` is drawn however many calls a COV callback has made: 256 of them come back to the id of the call that waits, and it may take the answer of the last one | `AnswerIsOwn` in `ClientCallbacks`, under `OneRequestSpec` |
| `bacnet_classes.c:1420` | `subscribeCOV` uses the low byte of its process id as invoke id, apart from the counter of all other calls; a late answer of another call confirms a subscription (`docs/api-reference.md:604` promises a TimeoutException) | `SubscriptionConfirmed` under `Spec` of `ClientCalls` |
| `bacnet_client.c:354`, `bacnet.c:174` | ids restart with each PHP request: a late answer of the previous one ends a read the device never answered (`docs/api-reference.md:1734`), and caches a value older than the last write | `ReadAnswered` with `MaxSessions = 2`; `CacheNotBehind` under `Spec` with `MaxSessions = 2`, `IdSpace = Lifetime = 3` |
| `bacnet_classes.c:337` | a read whose COV callback writes the same property stores the old value after the write has cleared it (`docs/client-cache.md:88`) | `CacheNotBehind` with `CovHandlerSet = TRUE` |
| `bacnet_classes.c:336` | a read that a COV callback interrupts ends with an answer although a read of the callback has left a negative marker | `NegativeReflectsLastRead` with `CovHandlerSet = TRUE` |
| `bacnet_security.c:501` | the flood window tumbles: `flood_violations` within `flood_window_seconds` need not block (`docs/server-security.md:121-123`) | `FloodRule` with `flood_violations = 3` |
| `bacnet_security.c:468` | a full table, or expiry, forgets a block | `BlockHolds` without `Room` |
| `bacnet_security.c:448` | with `source_ttl` below the flood window, an entry expires with its violations and the next one counts from zero | `FloodIsBlocked` without the third conjunct of `Room` |
| `bacnet_security.c:621` | a fingerprint does not identify a write: one with a reused id, or of another client behind the same BACnet router, is acknowledged and dropped (`docs/server-security.md:6-7`) | `AckMeansExecuted` with `FreshIds = FALSE`; for two clients also `IpOf <- MCBehindRouter`, without `SYMMETRY` |
| `bacnet_security.c:632` | the ring takes the next entry whether or not it has expired: with options that let through more writes per window than it has slots, a write that comes again within its window runs again (`docs/server-security.md:134-136`: "führt den Callback aber nicht erneut aus") | `NoRepeatInWindow` with `MaxDepth = 1`; not with `Slots = 4` |
| `bacnet_classes.c:3486` | the fingerprint is recorded after the handler, so a `poll()` inside it runs the retransmission (`docs/faq.md:147`) | `NoRepeatInWindow` with `MaxWrites = 1` |
| `bacnet_client.c:323` | during a call, packets whose network header cannot be decoded are counted nowhere (`docs/mixed-mode.md:116-119`) | `DropsAreCounted` |
| `bacnet_classes.c:3141` | a queued request is served although its source has been denied since (`README.md:209-210`) | `DeniedIsNotServed` |
| `bacnet_classes.c:1069` | `Client::whoIs` stores a negative marker when the COV callback throws (`docs/client-cache.md:88-90`) | `NegativeMeansSilence` |
| `bacnet_client.c:249` | a late I-Am of another search is returned, and cached, for a range its device is not in (`docs/api-reference.md:279-280`) | `ResultInRange` |
| `bacnet_classes.c:710` | a `whoIs` answered from DEVICE stores the addresses of this result as routes: after a search of another range that showed a newer address, the route is the old one again (`docs/client-cache.md:52`: "Aktuelle Device-ID-zu-Adresse-Zuordnung") | `RouteIsCurrent` |
| `bacnet_classes.c:3072` | after a handler threw for one entry of a ReadPropertyMultiple, the later entries fail without being asked (`docs/mixed-mode.md:102-103`) | `EntriesIndependent` with `Requests <- TwoEntries` |
| `bacnet_cache.c:171` | a worker that starts while another one creates the segment, or after it died with the segment unfinished, has no L1 (`docs/client-cache.md:3-5`: "immer"); between `shm_open` and `ftruncate` the access to the magic number kills it | `EnabledHasL1` without `degraded`; `StartEnds` |
| `bacnet_cache.c:844` | `setCacheOptions` that throws at an invalid option has applied those before it, and does not open the levels of a cache it has switched on (`docs/client-cache.md:83`: "Änderungen wirken sofort") | `EnabledHasL1` without `degraded` |
| `bacnet_cache.c:396`, `:450` | a slot left half written counts for partition 0 and is taken again as the slot of its key, so the partition may exceed its `max_entries` for good | `L1Bounded` without `crashes` |
| `bacnet_cache.c:668` | with the callback backend a worker takes the generation of its own bump, and so never sees a bump of another host just before (`docs/client-cache.md:46`: "Maximales Prüfintervall") | `FreshWithinInterval` without `missed` |
| `bacnet_cache.c:259` | a check whose `getGeneration` throws counts as done for the whole interval | `FreshWithinInterval` without `unchecked` |

Two more, read off the code and not stated as properties: `setCacheOptions(['l2_backend'
=> 'lmdb'])` of a worker that started without LMDB opens none (`bacnet_cache.c:797-812`),
and a worker with the cache off clears only the levels it has open, not those of others.
`zval_to_bacapp_value` cuts negative integers to 32 bits (`bacnet_helpers.c`, value
conversion, not modelled).

## Proofs

All theorems hold for every value of the constants that satisfies the named
assumptions; TLC checks the assumptions and the same properties on the instances above.

* `ClientCallsProofs`. `TypeCorrect` for the whole module. The theorems on ids rest on
  `IdsApart`: `d` draws after a call has drawn its id the counter is `d` ahead of it, so
  two draws less than one turn apart have different ids; subscriptions in between only
  make this stricter. For the reads and writes of one PHP request (`OneSessionSpec`,
  `SessionInv`) it gives `MatchIsOwn`: a reply with the id of a waiting call, which is
  at most `Lifetime` calls old, is its own or that of a call at least one turn later.
  This is `AnswersAreOwnOrLapped`, at any depth of callbacks and whatever is subscribed
  to in between: the property speaks of reads and writes until the second PHP request.
  Without a COV callback the call that waits is the latest one, hence `AnswersAreOwn`
  for a request that does not subscribe (`OneRequestSpec`, `OnlyDrawers`).
  `WritesAreNotForgotten` needs `~CovHandlerSet` and `WriteInv`: the one waiting call
  sits alone on the stack and knows the last acknowledged version (`AloneOnStack`), and
  replies are no older than the version their call began with (`RepliesFresh`); the
  answer to a subscription may end a read or write, but carries no value.
  `TimeoutsAreTrue` and `MarkersAreCurrent` hold without a COV callback in every PHP
  request: with one call on the stack no loop can drop the answer of another call
  (`NothingLost`), and a read that waits has no marker (`MarkersTrue`).
* `ServerSecurityProofs`. `TypeCorrect` and `SourceTableCorrect` from `IInv`, which says
  that `source_count` is the cardinality of the used slots and addresses are distinct;
  the scan is covered by `GetSourceOK`. `GlobalRateHolds` from `RateInv`: from any
  granted datagram on, those that follow and the tokens left are paid for by the burst
  and by the time up to the last refill (`Paying`); here the cap of the bucket is
  needed, for a datagram that finds it full begins an account of its own (`PaysOne`).
  `SourceRateHolds`, `FloodsAreBlocked`, `BlocksHold` and `BlocksAreJustified` share
  `SInv`, the account of each address. An address with an entry has its accepted
  datagrams paid for (`Paid`), its counted violations are its latest drops (`Counts`),
  those further back are out of the window (`Spaced`), and a block that lasts is known
  to the entry (`Keeps`). Given `Room`, an address without an entry has nothing left to
  remember (`UnknownOK`): entries die only by expiry, because with fewer used entries
  than addresses there is a free slot (`IpsAssumption`: finitely many addresses), and by
  then block, window and refill are over. The step of most work is `OneMoreDrop`: if `2
  * flood_violations - 1` drops lay within one window, the counting window would have
  begun anew twice in that time.
* `WriteDedupProofs`. `TypeCorrect`; `RepeatsAreApart`, for every number of slots, traffic
  and depth of nested polls. The last `Slots` runs have their entries, the k-th last one
  k slots behind the cursor (`Recorded`), so a run among them that is still in its window
  makes its write a duplicate (`LiveIsDuplicate`). A handler therefore begins only when
  each run of its write is out of the window or out of the ring, and takes this fact with
  it until it returns, whatever nested handlers record meanwhile (`FreshFrames`).
  `AcksAreTrue` for `FreshIds`, at any depth: every
  used entry is that of a run (`Backed`), and of two writes with the same source and id
  the older one is settled (`OlderSettled`): it has no live entry and cannot come again.
* `MixedReceiveProofs`. `TypeCorrect`, `ServedInOrderHolds`, `AcceptedAccountedHolds` and
  `Refinement` (`Spec => FifoSpec`). The invariant says that served requests, ring and
  socket form one line in the order of arrival; the ring lemmas show that `queue_pdu`
  appends to `Contents` and `pop_pdu` takes its head at any position of the head.
  `RepliesReachCalls` adds `CallInv`: only the top of the stack waits, it is the newest
  call, and no answer to it is in the ring or served.
* `SharedCacheProofs`. All safety properties of the module, from one invariant: `L1OK`
  (the slots, their keys and the limits), `RecordsOK` (LMDB), `OpsOK` (what each worker
  holds between two steps), `SetupOK` (at most one worker creates the segment, and at
  each of its steps the segment is as far as its program counter says; who has attached
  it finds it ready), `MutexOK` and `RestOK`. The limits need arithmetic over the table:
  `Bytes` counts byte by byte, as the cardinality of a set of pairs, so that lemmas on
  cardinality (`RowSize`) replace induction over a sum. `AgeIsBounded` follows because a
  promotion starts a new lifetime in L1 only, within the one of the record.
  `Refinement` (`Spec => MemorySpec`) takes the three places of a fact one by one: what a
  step leaves in the slots (`SlotsGo`, `SlotTouched`, `PutShows`, `TornShows`), in the
  records (`RecordsGo`) and in the hands of the workers (`HandShows`) was known before.
  The exception is `Fetch`, which learns; the ages of `TickAges` are those of the invariant.
* `CacheGenerationsProofs`. `TypeCorrect`, `HostIsFresh` and `WorkersAreFresh`. `LevelsOK`
  relates each acknowledged write (`acks` keeps its host, time and generation) to L1 of
  every host that wrote it or has been emptied for its generation, and to the backend;
  `KnownOK` and `CheckedOK` tie what a worker knows to the generation for which its L1
  was emptied, and its last check to the writes before it; `ReadOK` carries this through
  the steps of a read. The exceptions of the property (`late`, `lost`, `unchecked`,
  `missed`) are where the invariant breaks off.
* `DiscoveryProofs`. `TypeCorrect`; `CacheFollowsSearch` from `OneSearch` (without a handler
  there is one search at a time, and while it runs DEVICE holds nothing for its range);
  `RoutesFollowSearches` from `Newer`: along the way of an address, from what searches
  have shown over the entries collected so far to the datagrams in the socket and the
  network, it only grows, so the routes a search stores are no older than any before.
* `ServerRequestsProofs`. `TypeCorrect`, `AnswersMatchRequests`, `ReadsAreAnswered`,
  `RequestsSettleOnce` and `Refinement` (`Spec => ServiceSpec`). Requests that wait, are
  in service, or are settled in one of three ways are different ones (`NumsOK`) and no
  well-formed read is elsewhere (`NoneForgotten`); the entries of each running poll are
  those asked for, in order (`PollOK`). The refinement needs `PollOK` for what an answer
  is about, and that a single property is only read for when its request can be decoded.
  Taking up a request is `Begin` or `SettleAtOnce`, whatever ends the last poll is
  `Finish`, the steps of a read in between are stutters: the lemmas of the last part
  have one case each.

Assumptions of single theorems: no COV callback (`AnswersAreOwn`, `TimeoutsAreTrue`,
`MarkersAreCurrent`, `WritesAreNotForgotten`), one PHP request
(`WritesAreNotForgotten`), one without subscriptions (`AnswersAreOwn`), `FreshIds`
(`AcksAreTrue`). TLC refutes each property without its assumption: the table of known
limits says what the code does then.

Every safety property that a passing run checks is also proved. Only model-checked is
liveness (`CallsEnd`, `WhoIsEnds`, `QueueDrains`, `RequestsServed`, `AccessEnds`), which
TLAPS does not handle together with fairness and `ENABLED`. `NegativeReflectsLastRead`,
`ReplyReachesCall`, `SettledOnce`, `ServedInOrder` and `TornNeverServed` are proved and in
no run.

## Not modelled

* Conversion of PHP values, value classes, parsing of access lists and options:
  functions without state, tested by example in `tests/`. The models take their results
  (a version, an option set) as data.
* TrendLog, Schedule and ObjectRef: wrappers that call `readProperty` and
  `writeProperty` with other keys; `ClientCalls` models the calls.
* Changes of limits and lifetimes by `setCacheOptions`, and of the namespace: they
  reach the same code with other constants.
* Lifetime of PHP objects and memory management; the BACnet stack and LMDB (external).

## Plan

Done, in this order: `ClientCalls` (the calls everything else makes), `ServerSecurity`,
`WriteDedup`, `MixedReceive` over `RequestFifo`, `SharedCache`, `Discovery`,
`ServerRequests`; creation of the segment and options in `SharedCache`;
`CacheGenerations`; proofs of all safety properties; the abstract specifications
`RequestFifo`, `RequestService` and `ForgetfulCache` with proofs that `MixedReceive`,
`ServerRequests` and `SharedCache` implement them.

Next:

1. What several PHP requests still share: under which condition on the pauses between
   them `AnswerIsOwn` and `CacheNotBehind` hold for all of them.
2. An abstract specification over two components: what a client of a `MixedServer` may
   rely on, from its call through the queue of the other side to the answer.
