-------------------------- MODULE ServerSecurity --------------------------
(***************************************************************************)
(* bacnet_security.c: what Bacnet\Server and Bacnet\MixedServer do with    *)
(* every datagram before they look into it.  A table of sources with at    *)
(* most max_sources entries (expiry by age, else replacement of the least  *)
(* recently seen), allow and deny lists, temporary blocks, four token      *)
(* buckets, the count of violations in a window, statistics and aggregated *)
(* warnings; setSecurityOptions() and getSecurityStats() act on the same   *)
(* state.  One thread; time is the monotonic clock, in ticks.              *)
(***************************************************************************)
EXTENDS Integers, Sequences, FiniteSets, FiniteSetsExt

CONSTANTS
    Ips,        \* the IPv4 addresses datagrams come from
    Configs,    \* the option sets the constructor and setSecurityOptions() may install
    Unit,       \* one token, in the units a bucket is refilled by per tick
    MaxTime, MaxPackets     \* bounds

Buckets == {"global", "source", "who_is", "write"}
Kinds == {"other", "who_is", "write"}
Verdicts == {"accepted", "rate", "acl", "blocked", "malformed"}

\* security_options after php_bacnet_security_validate_options: everything that
\* must be positive is.  rate is the refill per tick, burst the size of a bucket.
ValidOptions(o) ==
    /\ o.enabled \in BOOLEAN
    /\ o.denied \subseteq Ips /\ o.allowed \subseteq Ips
    /\ o.allowlist \in BOOLEAN      \* allowed_count > 0
    /\ o.rate \in [Buckets -> Nat \ {0}]
    /\ o.burst \in [Buckets -> Nat] /\ \A b \in Buckets : o.burst[b] >= Unit
    /\ {o.flood_violations, o.flood_window, o.block_duration, o.max_sources,
        o.source_ttl, o.log_interval} \subseteq Nat \ {0}

ASSUME IpsAssumption == IsFiniteSet(Ips)
ASSUME UnitAssumption == Unit \in Nat \ {0}
ASSUME ConfigsAssumption == \A o \in Configs : ValidOptions(o)
ASSUME BoundsAssumption == {MaxTime, MaxPackets} \subseteq Nat

VARIABLES
    options,           \* s->options
    sources,           \* s->sources: a function from the slots in use
    source_count,      \* s->source_count
    global,            \* s->global_tokens, s->global_updated
    stats,             \* s->stats, by what became of the datagram
    queue_overflows,   \* s->stats.queue_overflows
    pending_warnings, last_log,
    now,               \* the monotonic clock
    history            \* what happened since the options were installed

vars == <<options, sources, source_count, global, stats, queue_overflows,
          pending_warnings, last_log, now, history>>
tableVars == <<sources, source_count>>
warnVars == <<pending_warnings, last_log>>

Slots == 1..options.max_sources
Zeros == [v \in Verdicts |-> 0]

\* A history since the options were installed: when the global bucket granted a
\* token; for each address when a datagram of it was accepted, the end of its last
\* block, and the times of its latest rate drops since that block.
Fresh == [granted |-> <<>>, accepted |-> [i \in Ips |-> <<>>],
          blockEnd |-> [i \in Ips |-> 0], drops |-> [i \in Ips |-> <<>>], packets |-> 0]

-----------------------------------------------------------------------------
(* php_bacnet_security_take *)

\* Mutant of Take: a bucket fills beyond its burst.
TakeUnbounded(b, rate, burst) ==
    LET tokens == b.tokens + (now - b.updated) * rate
    IN  [ok |-> tokens >= Unit,
         bucket |-> [tokens |-> IF tokens >= Unit THEN tokens - Unit ELSE tokens, updated |-> now]]

Take(b, rate, burst) ==
    LET filled == b.tokens + (now - b.updated) * rate
        tokens == IF filled < burst THEN filled ELSE burst
    IN  [ok |-> tokens >= Unit,
         bucket |-> [tokens |-> IF tokens >= Unit THEN tokens - Unit ELSE tokens, updated |-> now]]

-----------------------------------------------------------------------------
(* php_bacnet_security_get_source *)

NewSource(ip) ==
    [ip |-> ip, last_seen |-> now,
     buckets |-> [b \in Buckets \ {"global"} |-> [tokens |-> options.burst[b], updated |-> now]],
     violations |-> 0, violation_started |-> 0, blocked_until |-> 0, count |-> Zeros]

Stale == {i \in DOMAIN sources : now - sources[i].last_seen > options.source_ttl}

\* The entry not seen for the longest time, the first of several.
Oldest(live) ==
    LET seen == Min({sources[i].last_seen : i \in live})
    IN  Min({i \in live : sources[i].last_seen = seen})

\* Mutant of Replaceable: a free slot is taken only in an empty table.
ReplaceableOldest(live) == IF live = {} THEN Min(Slots) ELSE Oldest(live)

\* The slot a new address gets.
Replaceable(live) == IF Slots \ live # {} THEN Min(Slots \ live) ELSE Oldest(live)

\* The scan stops at the entry of ip, so only the stale entries before it are
\* cleared; if there is none, all stale entries go and ip gets a new entry.
\* Yields the slot of ip, the table and source_count after the scan.
GetSource(ip) ==
    LET live == DOMAIN sources \ Stale
        known == {i \in live : sources[i].ip = ip}
    IN  IF known # {}
        THEN LET i == Min(known)
                 kept == DOMAIN sources \ {j \in Stale : j < i}
             IN  [slot |-> i, count |-> source_count - Cardinality(DOMAIN sources \ kept),
                  table |-> [j \in kept |-> IF j = i THEN [sources[i] EXCEPT !.last_seen = now]
                                            ELSE sources[j]]]
        ELSE LET i == Replaceable(live)
             IN  [slot |-> i,
                  count |-> source_count - Cardinality(Stale) + (IF i \in live THEN 0 ELSE 1),
                  table |-> [j \in live \cup {i} |-> IF j = i THEN NewSource(ip) ELSE sources[j]]]

-----------------------------------------------------------------------------
(* php_bacnet_security_warn *)

Warn ==
    IF now - last_log >= options.log_interval
    THEN pending_warnings' = 0 /\ last_log' = now
    ELSE pending_warnings' = pending_warnings + 1 /\ UNCHANGED last_log

\* Counts a datagram of the source in slot i of table t under verdict v.
Counted(x, v) == [x EXCEPT !.count[v] = @ + 1]

\* Drops the datagram without any other effect on its source.
Drop(found, v) ==
    /\ sources' = [found.table EXCEPT ![found.slot] = Counted(@, v)]
    /\ source_count' = found.count
    /\ stats' = [stats EXCEPT ![v] = @ + 1]
    /\ Warn
    /\ UNCHANGED global

\* Mutants of Violation: the window never starts anew; a block keeps the count.
ViolationNoWindow(x) ==
    LET count == x.violations + 1 IN
    IF count >= options.flood_violations
    THEN [x EXCEPT !.violations = 0, !.violation_started = now,
                   !.blocked_until = now + options.block_duration]
    ELSE [x EXCEPT !.violations = count]

ViolationOffByOne(x) ==
    LET expired == now - x.violation_started > options.flood_window
        before == IF expired THEN 0 ELSE x.violations
        started == IF before = 0 THEN now ELSE x.violation_started
    IN  IF before > options.flood_violations
        THEN [x EXCEPT !.violations = 0, !.violation_started = now,
                       !.blocked_until = now + options.block_duration]
        ELSE [x EXCEPT !.violations = before + 1, !.violation_started = started]

\* php_bacnet_security_violation: the window starts with the first violation in it.
Violation(x) ==
    LET expired == now - x.violation_started > options.flood_window
        before == IF expired THEN 0 ELSE x.violations
        started == IF before = 0 THEN now ELSE x.violation_started
    IN  IF before + 1 >= options.flood_violations
        THEN [x EXCEPT !.violations = 0, !.violation_started = now,
                       !.blocked_until = now + options.block_duration]
        ELSE [x EXCEPT !.violations = before + 1, !.violation_started = started]

Denied(ip) == ip \in options.denied \/ (options.allowlist /\ ip \notin options.allowed)

\* The drops that matter for a flood: the latest 2 * flood_violations - 1.
Latest(s) ==
    LET keep == 2 * options.flood_violations - 1
    IN  IF Len(s) <= keep THEN s ELSE SubSeq(s, Len(s) - keep + 1, Len(s))

-----------------------------------------------------------------------------
(* php_bacnet_security_accept, one action per way out.                      *)

Arrives == history.packets < MaxPackets
Arrived(h) == [h EXCEPT !.packets = @ + 1]

AcceptUnprotected ==
    /\ Arrives
    /\ ~options.enabled
    /\ stats' = [stats EXCEPT !["accepted"] = @ + 1]
    /\ history' = Arrived(history)
    /\ UNCHANGED <<options, tableVars, global, queue_overflows, warnVars, now>>

DropDenied(ip) ==
    /\ Arrives
    /\ options.enabled
    /\ Denied(ip)
    /\ Drop(GetSource(ip), "acl")
    /\ history' = Arrived(history)
    /\ UNCHANGED <<options, queue_overflows, now>>

Blocked(ip) == LET found == GetSource(ip) IN found.table[found.slot].blocked_until > now

DropBlocked(ip) ==
    /\ Arrives
    /\ options.enabled
    /\ ~Denied(ip)
    /\ Blocked(ip)
    /\ Drop(GetSource(ip), "blocked")
    /\ history' = Arrived(history)
    /\ UNCHANGED <<options, queue_overflows, now>>

DropMalformed(ip) ==
    /\ Arrives
    /\ options.enabled
    /\ ~Denied(ip)
    /\ ~Blocked(ip)
    /\ Drop(GetSource(ip), "malformed")
    /\ history' = Arrived(history)
    /\ UNCHANGED <<options, queue_overflows, now>>

\* The buckets are asked in this order and none after the first empty one; what
\* the earlier ones granted is spent, also for a datagram that is dropped.
TakeAll(x, kind) ==
    LET ask(b, bucket) == Take(bucket, options.rate[b], options.burst[b])
        g == ask("global", global)
        s == ask("source", x.buckets["source"])
        limited == kind \in {"who_is", "write"}
        k == IF limited THEN ask(kind, x.buckets[kind]) ELSE s
    IN  [global |-> g.bucket, spent |-> g.ok,
         ok |-> g.ok /\ s.ok /\ k.ok,
         buckets |-> [b \in DOMAIN x.buckets |->
                        IF g.ok /\ b = "source" THEN s.bucket
                        ELSE IF g.ok /\ s.ok /\ limited /\ b = kind THEN k.bucket
                        ELSE x.buckets[b]]]

\* A well-formed datagram meets the rate limits.
Limit(ip, kind) ==
    LET found == GetSource(ip)
        x == found.table[found.slot]
        taken == TakeAll(x, kind)
        charged == [x EXCEPT !.buckets = taken.buckets]
        dropped == Violation(Counted(charged, "rate"))
        blocks == dropped.blocked_until > now
        drops == Append(history.drops[ip], now)
        spent == Arrived([history EXCEPT !.granted = IF taken.spent THEN Append(@, now) ELSE @])
    IN  /\ Arrives
        /\ options.enabled
        /\ ~Denied(ip)
        /\ ~Blocked(ip)
        /\ global' = taken.global
        /\ source_count' = found.count
        /\ \/ /\ taken.ok
              /\ sources' = [found.table EXCEPT ![found.slot] = Counted(charged, "accepted")]
              /\ stats' = [stats EXCEPT !["accepted"] = @ + 1]
              /\ history' = [spent EXCEPT !.accepted[ip] = Append(@, now)]
              /\ UNCHANGED warnVars
           \/ /\ ~taken.ok
              /\ sources' = [found.table EXCEPT ![found.slot] = dropped]
              /\ stats' = [stats EXCEPT !["rate"] = @ + 1]
              /\ history' = [spent EXCEPT
                               !.drops[ip] = IF blocks THEN <<>> ELSE Latest(drops),
                               !.blockEnd[ip] = IF blocks THEN dropped.blocked_until ELSE @]
              /\ Warn
        /\ UNCHANGED <<options, queue_overflows, now>>

\* php_bacnet_security_malformed: Server::poll found the body undecodable.  The
\* source is looked up and counted even if the protection is disabled.
Malformed(ip) ==
    /\ Arrives
    /\ Drop(GetSource(ip), "malformed")
    /\ history' = Arrived(history)
    /\ UNCHANGED <<options, queue_overflows, now>>

\* php_bacnet_security_queue_overflow: the queue of a MixedServer was full.
QueueOverflow ==
    /\ Arrives
    /\ queue_overflows' = queue_overflows + 1
    /\ Warn
    /\ history' = Arrived(history)
    /\ UNCHANGED <<options, tableVars, global, stats, now>>

\* Mutant of Configure: the old sources survive, the counter of sources does not.
ConfigureKeepsSources(o) ==
    /\ options' = o
    /\ source_count' = 0
    /\ global' = [tokens |-> o.burst["global"], updated |-> now]
    /\ pending_warnings' = 0 /\ last_log' = now
    /\ history' = [Fresh EXCEPT !.packets = history.packets]
    /\ UNCHANGED <<sources, stats, queue_overflows, now>>

\* php_bacnet_security_configure with valid overrides; invalid ones change nothing.
Configure(o) ==
    /\ options' = o
    /\ sources' = <<>> /\ source_count' = 0
    /\ global' = [tokens |-> o.burst["global"], updated |-> now]
    /\ pending_warnings' = 0 /\ last_log' = now
    /\ history' = [Fresh EXCEPT !.packets = history.packets]
    /\ UNCHANGED <<stats, queue_overflows, now>>

\* php_bacnet_security_stats_to_array: reading the statistics expires sources.
GetStats(reset) ==
    LET live == DOMAIN sources \ Stale IN
    /\ sources' = [i \in live |-> IF reset THEN [sources[i] EXCEPT !.count = Zeros] ELSE sources[i]]
    /\ source_count' = source_count - Cardinality(Stale)
    /\ IF reset THEN stats' = Zeros /\ queue_overflows' = 0
                ELSE UNCHANGED <<stats, queue_overflows>>
    /\ UNCHANGED <<options, global, warnVars, now, history>>

Tick ==
    /\ now < MaxTime
    /\ now' = now + 1
    /\ UNCHANGED <<options, tableVars, global, stats, queue_overflows, warnVars, history>>

-----------------------------------------------------------------------------
\* php_bacnet_security_create
Init ==
    /\ now = 0
    /\ options \in Configs
    /\ sources = <<>> /\ source_count = 0
    /\ global = [tokens |-> options.burst["global"], updated |-> now]
    /\ stats = Zeros /\ queue_overflows = 0
    /\ pending_warnings = 0 /\ last_log = now
    /\ history = Fresh

Accept ==
    \/ AcceptUnprotected
    \/ \E ip \in Ips :
        \/ DropDenied(ip)
        \/ DropBlocked(ip)
        \/ DropMalformed(ip)
        \/ \E kind \in Kinds : Limit(ip, kind)

Next ==
    \/ Accept
    \/ \E ip \in Ips : Malformed(ip)
    \/ QueueOverflow
    \/ \E o \in Configs : Configure(o)
    \/ \E reset \in BOOLEAN : GetStats(reset)
    \/ Tick

Spec == Init /\ [][Next]_vars

-----------------------------------------------------------------------------
Source == [ip : Ips, last_seen : 0..now,
           buckets : [Buckets \ {"global"} -> [tokens : Nat, updated : 0..now]],
           violations : Nat, violation_started : 0..now, blocked_until : Nat,
           count : [Verdicts -> Nat]]
History == [granted : Seq(0..now), accepted : [Ips -> Seq(0..now)], blockEnd : [Ips -> Nat],
            drops : [Ips -> Seq(0..now)], packets : Nat]

SourceOK(x) ==
    /\ x \in Source
    /\ \A b \in Buckets \ {"global"} : x.buckets[b].tokens <= options.burst[b]
    /\ x.violations < options.flood_violations

\* Every variable keeps its type: no bucket above its burst, no slot beyond
\* max_sources, no time in the future.
TypeOK ==
    /\ options \in Configs
    /\ DOMAIN sources \subseteq Slots
    /\ \A i \in DOMAIN sources : SourceOK(sources[i])
    /\ source_count \in 0..options.max_sources
    /\ global \in [tokens : 0..options.burst["global"], updated : 0..now]
    /\ stats \in [Verdicts -> Nat] /\ queue_overflows \in Nat
    /\ pending_warnings \in Nat /\ last_log \in 0..now
    /\ now \in Nat /\ history \in History

\* The table of sources never holds an address twice, and source_count is the
\* number of slots in use, through expiry, replacement and reconfiguration.
SourceTable ==
    /\ source_count = Cardinality(DOMAIN sources)
    /\ \A i, j \in DOMAIN sources : sources[i].ip = sources[j].ip => i = j

\* times is when something happened, in order.  From any of its entries to any later
\* one, no more happens than a full bucket b holds and what it is refilled by between.
Within(times, b) ==
    \A i, j \in 1..Len(times) :
        i <= j => (j - i + 1) * Unit <= options.burst[b] + options.rate[b] * (times[j] - times[i])

\* In every interval since the options were installed the server lets through no
\* more than the burst plus what the rate refills in that interval, over all sources.
GlobalRateBound == Within(history.granted, "global")

\* The table has room for every address that sends, and no entry expires before
\* its block and its flood window do, and its bucket is full again.
Room ==
    /\ options.max_sources >= Cardinality(Ips)
    /\ options.source_ttl >= options.block_duration
    /\ options.source_ttl >= options.flood_window
    /\ options.source_ttl * options.rate["source"] >= options.burst["source"]

\* The same holds of each address and its own bucket, given room in the table.
SourceRateBound == Room => \A ip \in Ips : Within(history.accepted[ip], "source")

\* Given room in the table, a blocked address stays blocked for block_duration:
\* nothing it sends is accepted before, whatever other sources do meanwhile.
BlockHolds ==
    [][Room => \A ip \in Ips : Len(history'.accepted[ip]) > Len(history.accepted[ip])
                                => now >= history.blockEnd[ip]]_vars

\* An address is blocked only if it exceeded the limits flood_violations times
\* within one flood_window.
BlockJustified ==
    [][\A ip \in Ips : history'.blockEnd[ip] > history.blockEnd[ip]
        => LET d == Append(history.drops[ip], now)
               n == options.flood_violations
           IN  Len(d) >= n /\ now - d[Len(d) - n + 1] <= options.flood_window]_vars

\* n drops of an address that was not blocked since lie within one window.
Flood(ip, n) ==
    LET d == history.drops[ip]
    IN  Len(d) >= n /\ d[Len(d)] - d[Len(d) - n + 1] <= options.flood_window

\* Given room, twice the limit within one window never goes by without a block: the counting
\* window starts anew at most once in that time.
FloodIsBlocked == Room => \A ip \in Ips : ~Flood(ip, 2 * options.flood_violations - 1)

\* The documented rule: flood_violations within flood_window block the source.
\* TLC refutes it (README, known limits).
FloodRule == \A ip \in Ips : ~Flood(ip, options.flood_violations)
=============================================================================
