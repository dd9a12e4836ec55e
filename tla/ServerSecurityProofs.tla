------------------------- MODULE ServerSecurityProofs -------------------------
(* Theorems about ServerSecurity for every value of its constants.           *)
EXTENDS ServerSecurity, FiniteSetTheorems, SequenceTheorems, WellFoundedInduction, TLAPS

-----------------------------------------------------------------------------
\* Numbers and finite sets.

(* A non-empty set of naturals has a least element.                         *)
LEMMA LeastExists ==
    ASSUME NEW S \in SUBSET Nat, S # {}
    PROVE  \E x \in S : \A y \in S : x <= y
<1> DEFINE R == OpToRel(<, Nat)
<1>1. \E x \in S : \A y \in S : ~ (<<y, x>> \in R)
  BY WFMin, NatLessThanWellFounded, Zenon
<1>2. \A x, y \in Nat : <<y, x>> \in R <=> y < x
  BY DEF OpToRel
<1> HIDE DEF R
<1>3. PICK x \in S : \A y \in S : ~ (<<y, x>> \in R)
  BY <1>1
<1>4. \A y \in S : ~ (y < x)
  BY <1>2, <1>3, Zenon
<1>5. x \in Nat /\ \A y \in S : y \in Nat
  OBVIOUS
<1>6. QED
  BY <1>4, <1>5

LEMMA MinIsLeast ==
    ASSUME NEW S \in SUBSET Nat, S # {}
    PROVE  Min(S) \in S /\ \A y \in S : Min(S) <= y
BY LeastExists DEF Min

(* Cardinality of what is left when a part is removed.                       *)
LEMMA CountLess ==
    ASSUME NEW S, IsFiniteSet(S), NEW T \in SUBSET S
    PROVE  /\ Cardinality(S \ T) = Cardinality(S) - Cardinality(T)
           /\ Cardinality(T) = Cardinality(S) - Cardinality(S \ T)
<1>1. S \cap T = T
  OBVIOUS
<1>2. Cardinality(S \ T) = Cardinality(S) - Cardinality(T)
  BY <1>1, FS_Difference
<1>3. IsFiniteSet(T)
  BY FS_Subset
<1>4. Cardinality(S) \in Nat /\ Cardinality(T) \in Nat
  BY <1>3, FS_CardinalityType
<1>5. QED
  BY <1>2, <1>4

(* The options in force are valid.                                           *)
LEMMA OptionsTyped ==
    ASSUME NEW o \in Configs
    PROVE  /\ o.rate \in [Buckets -> Nat \ {0}]
           /\ o.burst \in [Buckets -> Nat]
           /\ o.flood_violations \in Nat \ {0} /\ o.flood_window \in Nat \ {0}
           /\ o.block_duration \in Nat \ {0} /\ o.max_sources \in Nat \ {0}
           /\ o.source_ttl \in Nat \ {0} /\ o.log_interval \in Nat \ {0}
           /\ o.enabled \in BOOLEAN
BY ConfigsAssumption DEF ValidOptions

(* A bucket never gives more than it held and was refilled with, and never   *)
(* holds more than its burst.                                                *)
LEMMA TakeBounded ==
    ASSUME now \in Nat, NEW rate \in Nat, NEW burst \in Nat,
           NEW b \in [tokens : Nat, updated : 0..now]
    PROVE  LET t == Take(b, rate, burst) IN
           /\ t.ok \in BOOLEAN
           /\ t.bucket \in [tokens : 0..burst, updated : 0..now]
           /\ t.bucket.updated = now
           /\ t.bucket.tokens + (IF t.ok THEN Unit ELSE 0) <= b.tokens + (now - b.updated) * rate
           /\ t.bucket.tokens + (IF t.ok THEN Unit ELSE 0) <= burst
<1> DEFINE refill == (now - b.updated) * rate
           filled == b.tokens + refill
           tokens == IF filled < burst THEN filled ELSE burst
           left == IF tokens >= Unit THEN tokens - Unit ELSE tokens
<1>1. now - b.updated \in Nat /\ b.tokens \in Nat
  OBVIOUS
<1>2. refill \in Nat
  BY <1>1
<1>3. tokens \in Nat /\ tokens <= filled /\ tokens <= burst /\ filled \in Nat
  <2> HIDE DEF refill
  <2> QED BY <1>1, <1>2
<1>4. /\ left \in 0..burst /\ left + (IF tokens >= Unit THEN Unit ELSE 0) <= filled
      /\ left + (IF tokens >= Unit THEN Unit ELSE 0) <= burst
  <2> HIDE DEF tokens, filled
  <2> QED BY <1>3, UnitAssumption
<1>5. Take(b, rate, burst) = [ok |-> tokens >= Unit, bucket |-> [tokens |-> left, updated |-> now]]
  BY DEF Take
<1>6. now \in 0..now
  OBVIOUS
<1>7. (tokens >= Unit) \in BOOLEAN
  OBVIOUS
<1>8. QED
  <2> DEFINE t == Take(b, rate, burst)
  <2>1. t.ok = (tokens >= Unit) /\ t.bucket = [tokens |-> left, updated |-> now]
    <3> HIDE DEF tokens, left
    <3> QED BY <1>5
  <2>2. t.bucket.tokens = left /\ t.bucket.updated = now
    <3> HIDE DEF tokens, left
    <3> QED BY <2>1
  <2>3. t.bucket \in [tokens : 0..burst, updated : 0..now]
    <3> HIDE DEF tokens, left
    <3> QED BY <2>1, <1>4, <1>6
  <2> HIDE DEF t
  <2>4. /\ t.bucket.tokens + (IF t.ok THEN Unit ELSE 0) <= filled
        /\ t.bucket.tokens + (IF t.ok THEN Unit ELSE 0) <= burst
    <3> HIDE DEF tokens, left, filled
    <3> QED BY <2>1, <2>2, <1>4
  <2>5. QED
    BY <2>1, <2>2, <2>3, <2>4, <1>7 DEF t

-----------------------------------------------------------------------------
(* The table of sources.  A table is well formed if its slots exist, its     *)
(* entries have their type and no two of them have the same address.         *)

TableOK(table) ==
    /\ table = [i \in DOMAIN table |-> table[i]]
    /\ DOMAIN table \subseteq Slots
    /\ \A i \in DOMAIN table : SourceOK(table[i])
    /\ \A i, j \in DOMAIN table : table[i].ip = table[j].ip => i = j

\* The type invariant together with the invariant of the table is inductive.
IInv == TypeOK /\ SourceTable /\ TableOK(sources)

(* Every set of slots is finite and no larger than the table.                *)
LEMMA SlotsFinite ==
    ASSUME options \in Configs, NEW S \in SUBSET Slots
    PROVE  IsFiniteSet(S) /\ Cardinality(S) \in 0..options.max_sources
<1>1. options.max_sources \in Nat \ {0}
  BY OptionsTyped
<1>2. IsFiniteSet(Slots) /\ Cardinality(Slots) = options.max_sources
  <2> DEFINE n == options.max_sources
  <2>1. n \in Nat \ {0}
    BY <1>1
  <2> HIDE DEF n
  <2>2. IsFiniteSet(1..n) /\ Cardinality(1..n) = n
    BY <2>1, FS_Interval
  <2>3. QED
    BY <2>2 DEF Slots, n
<1>3. IsFiniteSet(S) /\ Cardinality(S) <= Cardinality(Slots)
  BY <1>2, FS_Subset
<1>4. Cardinality(S) \in Nat
  BY <1>3, FS_CardinalityType
<1>5. QED
  BY <1>1, <1>2, <1>3, <1>4

LEMMA NewSourceOK ==
    ASSUME TypeOK, NEW ip \in Ips
    PROVE  SourceOK(NewSource(ip)) /\ NewSource(ip).ip = ip
<1>1. now \in 0..now /\ 0 \in 0..now
  BY DEF TypeOK
<1>2. options.burst \in [Buckets -> Nat] /\ options.flood_violations \in Nat \ {0}
  BY OptionsTyped DEF TypeOK
<1> DEFINE filled == [b \in Buckets \ {"global"} |-> [tokens |-> options.burst[b], updated |-> now]]
<1>3. filled \in [Buckets \ {"global"} -> [tokens : Nat, updated : 0..now]]
  BY <1>1, <1>2
<1>4. \A b \in Buckets \ {"global"} : filled[b].tokens = options.burst[b]
  OBVIOUS
<1>5. Zeros \in [Verdicts -> Nat]
  BY DEF Zeros
<1>6. NewSource(ip) = [ip |-> ip, last_seen |-> now, buckets |-> filled, violations |-> 0,
                       violation_started |-> 0, blocked_until |-> 0, count |-> Zeros]
  BY DEF NewSource
<1> HIDE DEF filled
<1>7. NewSource(ip) \in Source /\ NewSource(ip).buckets = filled /\ NewSource(ip).violations = 0
      /\ NewSource(ip).ip = ip
  BY <1>1, <1>3, <1>5, <1>6 DEF Source
<1>8. \A b \in Buckets \ {"global"} : filled[b].tokens <= options.burst[b]
  BY <1>2, <1>4
<1>9. QED
  BY <1>2, <1>7, <1>8 DEF SourceOK

(* Marking a source as seen keeps its type and its address.                  *)
LEMMA SeenOK ==
    ASSUME TypeOK, NEW x, SourceOK(x)
    PROVE  SourceOK([x EXCEPT !.last_seen = now]) /\ [x EXCEPT !.last_seen = now].ip = x.ip
<1>1. now \in 0..now
  BY DEF TypeOK
<1> DEFINE y == [x EXCEPT !.last_seen = now]
<1>2. y \in Source /\ y.buckets = x.buckets /\ y.violations = x.violations /\ y.ip = x.ip
  BY <1>1 DEF SourceOK, Source
<1>3. QED
  BY <1>2 DEF SourceOK

(* The slot chosen for a new address exists; if it was in use, no slot was   *)
(* free.                                                                     *)
LEMMA ReplaceableIsSlot ==
    ASSUME IInv, NEW live \in SUBSET DOMAIN sources
    PROVE  Replaceable(live) \in Slots
<1>1. options.max_sources \in Nat \ {0} /\ Slots \subseteq Nat /\ Slots # {}
  BY OptionsTyped DEF IInv, TypeOK, Slots
<1>2. CASE Slots \ live # {}
  <2>1. Min(Slots \ live) \in Slots \ live
    BY <1>1, <1>2, MinIsLeast
  <2>2. QED
    BY <1>2, <2>1 DEF Replaceable
<1>3. CASE Slots \ live = {}
  <2> DEFINE times == {sources[i].last_seen : i \in live}
             seen == Min(times)
             oldest == {i \in live : sources[i].last_seen = seen}
  <2>1. live # {} /\ live \subseteq Slots
    BY <1>1, <1>3 DEF IInv, TypeOK
  <2>2. \A i \in live : sources[i].last_seen \in Nat
    BY DEF IInv, TypeOK, SourceOK, Source
  <2>3. times \subseteq Nat /\ times # {}
    BY <2>1, <2>2
  <2>4. seen \in times
    <3> HIDE DEF times
    <3> QED BY <2>3, MinIsLeast
  <2>5. oldest # {} /\ oldest \subseteq Nat
    <3> HIDE DEF seen
    <3> QED BY <1>1, <2>1, <2>4
  <2>6. Min(oldest) \in oldest
    <3> HIDE DEF oldest
    <3> QED BY <2>5, MinIsLeast
  <2>7. Min(oldest) \in Slots
    <3>1. oldest \subseteq Slots
      BY <2>1
    <3> HIDE DEF oldest
    <3> QED BY <2>6, <3>1
  <2>8. Replaceable(live) = Min(oldest)
    BY <1>3 DEF Replaceable, Oldest
  <2>9. QED
    BY <2>7, <2>8
<1>4. QED
  BY <1>2, <1>3

(* Looking a source up yields a well-formed table that counts its entries    *)
(* and holds the address in the slot it names.                               *)
LEMMA GetSourceOK ==
    ASSUME IInv, NEW ip \in Ips
    PROVE  LET found == GetSource(ip) IN
           /\ TableOK(found.table)
           /\ found.slot \in DOMAIN found.table
           /\ found.table[found.slot].ip = ip
           /\ found.count = Cardinality(DOMAIN found.table)
<1> DEFINE live == DOMAIN sources \ Stale
           known == {i \in live : sources[i].ip = ip}
           found == GetSource(ip)
<1>1. /\ Stale \subseteq DOMAIN sources /\ live \subseteq DOMAIN sources /\ DOMAIN sources \subseteq Slots
      /\ \A i \in DOMAIN sources : SourceOK(sources[i])
      /\ \A i, j \in DOMAIN sources : sources[i].ip = sources[j].ip => i = j
      /\ source_count = Cardinality(DOMAIN sources)
      /\ IsFiniteSet(DOMAIN sources)
  BY SlotsFinite DEF IInv, TypeOK, SourceTable, Stale
<1>2. CASE known # {}
  <2> DEFINE i == Min(known)
             kept == DOMAIN sources \ {j \in Stale : j < i}
             table == [j \in kept |-> IF j = i THEN [sources[i] EXCEPT !.last_seen = now] ELSE sources[j]]
  <2>1. i \in known
    <3>1. known \subseteq Nat
      BY <1>1, OptionsTyped DEF IInv, TypeOK, Slots
    <3> HIDE DEF known
    <3> QED BY <1>2, <3>1, MinIsLeast
  <2>2. i \in kept /\ sources[i].ip = ip
    BY <2>1
  <2>3. kept \subseteq DOMAIN sources
    OBVIOUS
  <2>4. found = [slot |-> i, count |-> source_count - Cardinality(DOMAIN sources \ kept), table |-> table]
    BY <1>2 DEF GetSource
  <2> HIDE DEF known, kept, i, live
  <2>5. \A j \in kept : SourceOK(table[j]) /\ table[j].ip = sources[j].ip
    BY <1>1, <2>2, <2>3, SeenOK DEF IInv
  <2>6. TableOK(table)
    BY <1>1, <2>3, <2>5 DEF TableOK
  <2>7. source_count - Cardinality(DOMAIN sources \ kept) = Cardinality(kept)
    BY <1>1, <2>3, CountLess
  <2>8. DOMAIN table = kept /\ table[i].ip = ip
    BY <2>2, <2>5
  <2> HIDE DEF table
  <2>9. QED
    BY <2>2, <2>4, <2>6, <2>7, <2>8
<1>3. CASE known = {}
  <2> DEFINE i == Replaceable(live)
             count == source_count - Cardinality(Stale) + (IF i \in live THEN 0 ELSE 1)
             table == [j \in live \cup {i} |-> IF j = i THEN NewSource(ip) ELSE sources[j]]
  <2>1. i \in Slots
    <3> HIDE DEF live
    <3> QED BY <1>1, ReplaceableIsSlot
  <2>2. found = [slot |-> i, count |-> count, table |-> table]
    BY <1>3 DEF GetSource
  <2>3. \A j \in live : sources[j].ip # ip
    BY <1>3
  <2>4. SourceOK(NewSource(ip)) /\ NewSource(ip).ip = ip
    BY NewSourceOK DEF IInv
  <2>5. count = Cardinality(live \cup {i})
    <3>1. Cardinality(live) = source_count - Cardinality(Stale)
      BY <1>1, CountLess
    <3>2. IsFiniteSet(live)
      BY <1>1, FS_Subset
    <3> HIDE DEF live, i
    <3>3. Cardinality(live \cup {i}) = IF i \in live THEN Cardinality(live) ELSE Cardinality(live) + 1
      BY <3>2, FS_AddElement
    <3>4. Cardinality(live) \in Nat
      BY <3>2, FS_CardinalityType
    <3>5. QED
      BY <3>1, <3>3, <3>4
  <2> HIDE DEF live, i, count
  <2>6. \A j \in live \cup {i} : SourceOK(table[j])
    BY <1>1, <2>4
  <2>7. \A j, k \in live \cup {i} : table[j].ip = table[k].ip => j = k
    BY <1>1, <2>3, <2>4
  <2>8. TableOK(table)
    BY <1>1, <2>1, <2>6, <2>7 DEF TableOK
  <2>9. QED
    BY <2>2, <2>4, <2>5, <2>8
<1>4. QED
  BY <1>2, <1>3

(* Replacing the entry of an address by another of the same address keeps    *)
(* the table well formed.                                                    *)
LEMMA UpdateOK ==
    ASSUME NEW table, TableOK(table), NEW i \in DOMAIN table,
           NEW x, SourceOK(x), x.ip = table[i].ip
    PROVE  /\ TableOK([table EXCEPT ![i] = x])
           /\ DOMAIN [table EXCEPT ![i] = x] = DOMAIN table
BY DEF TableOK

LEMMA CountedOK ==
    ASSUME NEW x, SourceOK(x), NEW v \in Verdicts
    PROVE  SourceOK(Counted(x, v)) /\ Counted(x, v).ip = x.ip
           /\ Counted(x, v).buckets = x.buckets
<1> DEFINE c == [x.count EXCEPT ![v] = @ + 1]
<1>1. c \in [Verdicts -> Nat]
  BY DEF SourceOK, Source
<1>2. Counted(x, v) = [x EXCEPT !.count = c]
  BY DEF Counted, SourceOK, Source
<1> HIDE DEF c
<1>3. /\ Counted(x, v) \in Source /\ Counted(x, v).buckets = x.buckets
      /\ Counted(x, v).violations = x.violations /\ Counted(x, v).ip = x.ip
  BY <1>1, <1>2 DEF SourceOK, Source
<1>4. QED
  BY <1>3 DEF SourceOK

(* A violation keeps the count of violations below the limit.                *)
LEMMA ViolationOK ==
    ASSUME TypeOK, NEW x, SourceOK(x)
    PROVE  SourceOK(Violation(x)) /\ Violation(x).ip = x.ip /\ Violation(x).buckets = x.buckets
<1>1. /\ options.flood_violations \in Nat \ {0} /\ options.block_duration \in Nat
      /\ now \in Nat
  BY OptionsTyped DEF TypeOK
<1> DEFINE expired == now - x.violation_started > options.flood_window
           before == IF expired THEN 0 ELSE x.violations
           started == IF before = 0 THEN now ELSE x.violation_started
           blocked == [x EXCEPT !.violations = 0, !.violation_started = now,
                                !.blocked_until = now + options.block_duration]
           counted == [x EXCEPT !.violations = before + 1, !.violation_started = started]
<1>2. before \in Nat /\ started \in 0..now
  BY <1>1 DEF SourceOK, Source
<1>3. Violation(x) = IF before + 1 >= options.flood_violations THEN blocked ELSE counted
  BY DEF Violation
<1>4. blocked \in Source /\ blocked.buckets = x.buckets /\ blocked.violations = 0 /\ blocked.ip = x.ip
  <2> DEFINE y == [x EXCEPT !.violations = 0]
             z == [y EXCEPT !.violation_started = now]
  <2>1. y \in Source /\ y.buckets = x.buckets /\ y.violations = 0 /\ y.ip = x.ip
    BY DEF SourceOK, Source
  <2> HIDE DEF y
  <2>2. z \in Source /\ z.buckets = x.buckets /\ z.violations = 0 /\ z.ip = x.ip
    BY <1>1, <2>1 DEF Source
  <2> HIDE DEF z
  <2> DEFINE w == [z EXCEPT !.blocked_until = now + options.block_duration]
  <2>3. w \in Source /\ w.buckets = x.buckets /\ w.violations = 0 /\ w.ip = x.ip
    BY <1>1, <2>2 DEF Source
  <2>4. QED
    BY <2>3 DEF y, z
<1>5. counted \in Source /\ counted.buckets = x.buckets /\ counted.violations = before + 1
      /\ counted.ip = x.ip
  <2> HIDE DEF before, started
  <2> DEFINE y == [x EXCEPT !.violations = before + 1]
  <2>1. y \in Source /\ y.buckets = x.buckets /\ y.violations = before + 1 /\ y.ip = x.ip
    BY <1>2 DEF SourceOK, Source
  <2> HIDE DEF y
  <2> DEFINE z == [y EXCEPT !.violation_started = started]
  <2>2. z \in Source /\ z.buckets = x.buckets /\ z.violations = before + 1 /\ z.ip = x.ip
    BY <1>2, <2>1 DEF Source
  <2>3. QED
    BY <2>2 DEF y
<1> HIDE DEF before, blocked, counted
<1>6. SourceOK(blocked) /\ (before + 1 < options.flood_violations => SourceOK(counted))
  BY <1>1, <1>2, <1>4, <1>5 DEF SourceOK
<1>7. QED
  BY <1>1, <1>2, <1>3, <1>4, <1>5, <1>6

(* Asking the buckets keeps every one of them within its burst, and spends   *)
(* no more of the global bucket than it has.                                 *)
LEMMA TakeAllOK ==
    ASSUME TypeOK, NEW x, SourceOK(x), NEW kind \in Kinds
    PROVE  LET t == TakeAll(x, kind) IN
           /\ t.ok \in BOOLEAN /\ t.spent \in BOOLEAN
           /\ t.global \in [tokens : 0..options.burst["global"], updated : 0..now]
           /\ t.global.updated = now
           /\ t.global.tokens + (IF t.spent THEN Unit ELSE 0)
              <= global.tokens + (now - global.updated) * options.rate["global"]
           /\ t.global.tokens + (IF t.spent THEN Unit ELSE 0) <= options.burst["global"]
           /\ SourceOK([x EXCEPT !.buckets = t.buckets])
           /\ [x EXCEPT !.buckets = t.buckets].ip = x.ip
<1> DEFINE ask(b, bucket) == Take(bucket, options.rate[b], options.burst[b])
           g == ask("global", global)
           s == ask("source", x.buckets["source"])
           limited == kind \in {"who_is", "write"}
           k == IF limited THEN ask(kind, x.buckets[kind]) ELSE s
           buckets == [b \in DOMAIN x.buckets |->
                        IF g.ok /\ b = "source" THEN s.bucket
                        ELSE IF g.ok /\ s.ok /\ limited /\ b = kind THEN k.bucket
                        ELSE x.buckets[b]]
           t == TakeAll(x, kind)
<1>1. /\ options.rate \in [Buckets -> Nat \ {0}] /\ options.burst \in [Buckets -> Nat]
      /\ now \in Nat
  BY OptionsTyped DEF TypeOK
<1>2. /\ x.buckets \in [Buckets \ {"global"} -> [tokens : Nat, updated : 0..now]]
      /\ \A b \in Buckets \ {"global"} : x.buckets[b].tokens <= options.burst[b]
  BY DEF SourceOK, Source
<1>3. global \in [tokens : Nat, updated : 0..now]
  <2>1. global \in [tokens : 0..options.burst["global"], updated : 0..now]
    BY DEF TypeOK
  <2>2. options.burst["global"] \in Nat
    BY <1>1 DEF Buckets
  <2>3. QED
    BY <2>1, <2>2
<1>4. /\ g.ok \in BOOLEAN
      /\ g.bucket \in [tokens : 0..options.burst["global"], updated : 0..now]
      /\ g.bucket.updated = now
      /\ g.bucket.tokens + (IF g.ok THEN Unit ELSE 0)
         <= global.tokens + (now - global.updated) * options.rate["global"]
      /\ g.bucket.tokens + (IF g.ok THEN Unit ELSE 0) <= options.burst["global"]
  <2>1. options.rate["global"] \in Nat /\ options.burst["global"] \in Nat
    BY <1>1 DEF Buckets
  <2>2. QED
    BY <1>1, <1>3, <2>1, TakeBounded
<1>5. ASSUME NEW b \in Buckets \ {"global"}
      PROVE  /\ ask(b, x.buckets[b]).ok \in BOOLEAN
             /\ ask(b, x.buckets[b]).bucket \in [tokens : 0..options.burst[b], updated : 0..now]
  <2>1. options.rate[b] \in Nat /\ options.burst[b] \in Nat
        /\ x.buckets[b] \in [tokens : Nat, updated : 0..now]
    BY <1>1, <1>2
  <2>2. QED
    BY <1>1, <2>1, TakeBounded
<1>6. "source" \in Buckets \ {"global"} /\ (limited => kind \in Buckets \ {"global"})
  BY DEF Buckets
<1>7. t = [global |-> g.bucket, spent |-> g.ok, ok |-> g.ok /\ s.ok /\ k.ok, buckets |-> buckets]
  BY DEF TakeAll
<1>8. s.ok \in BOOLEAN /\ k.ok \in BOOLEAN
  <2> HIDE DEF ask
  <2> QED BY <1>5, <1>6
<1>9. \A b \in Buckets \ {"global"} :
         buckets[b] \in [tokens : Nat, updated : 0..now] /\ buckets[b].tokens <= options.burst[b]
  <2> SUFFICES ASSUME NEW b \in Buckets \ {"global"}
               PROVE  buckets[b] \in [tokens : Nat, updated : 0..now]
                      /\ buckets[b].tokens <= options.burst[b]
    OBVIOUS
  <2>1. buckets[b] \in {x.buckets[b], ask(b, x.buckets[b]).bucket}
    <3> HIDE DEF ask
    <3> QED BY <1>2, <1>6
  <2>2. options.burst[b] \in Nat
    BY <1>1
  <2> HIDE DEF buckets, ask
  <2>3. QED
    BY <1>2, <1>5, <2>1, <2>2
<1>10. buckets \in [Buckets \ {"global"} -> [tokens : Nat, updated : 0..now]]
  <2>1. DOMAIN x.buckets = Buckets \ {"global"}
    BY <1>2
  <2>2. buckets = [b \in Buckets \ {"global"} |-> buckets[b]]
    BY <2>1
  <2> HIDE DEF buckets
  <2>3. QED
    BY <1>9, <2>2
<1> HIDE DEF buckets
<1>11. [x EXCEPT !.buckets = buckets] \in Source /\ [x EXCEPT !.buckets = buckets].ip = x.ip
       /\ [x EXCEPT !.buckets = buckets].buckets = buckets
       /\ [x EXCEPT !.buckets = buckets].violations = x.violations
  BY <1>10 DEF SourceOK, Source
<1>12. SourceOK([x EXCEPT !.buckets = buckets])
  BY <1>9, <1>11 DEF SourceOK
<1>13. /\ t.buckets = buckets /\ t.global = g.bucket /\ t.spent = g.ok
       /\ t.ok = (g.ok /\ s.ok /\ k.ok)
  <2> HIDE DEF g, s, k
  <2> QED BY <1>7
<1>14. t.ok \in BOOLEAN
  <2> HIDE DEF g, s, k, t
  <2> QED BY <1>13
<1> HIDE DEF t, g, s, k
<1>15. QED
  BY <1>4, <1>11, <1>12, <1>13, <1>14 DEF t

(* The warnings keep their types.                                            *)
LEMMA WarnOK ==
    ASSUME TypeOK, Warn
    PROVE  pending_warnings' \in Nat /\ last_log' \in 0..now
BY DEF Warn, TypeOK

(* With unchanged options and clock the table may be judged before the step. *)
LEMMA TableLater ==
    ASSUME UNCHANGED <<options, now>>, TableOK(sources')
    PROVE  TableOK(sources)'
BY DEF TableOK, SourceOK, Source, Slots

(* What is left to show of the invariant when the options stay.              *)
LEMMA IInvLater ==
    ASSUME IInv, UNCHANGED <<options, now>>, TableOK(sources'),
           source_count' = Cardinality(DOMAIN sources'),
           global' \in [tokens : 0..options.burst["global"], updated : 0..now],
           stats' \in [Verdicts -> Nat], queue_overflows' \in Nat,
           pending_warnings' \in Nat, last_log' \in 0..now, history' \in History
    PROVE  IInv'
<1>1. DOMAIN sources' \subseteq Slots /\ \A i \in DOMAIN sources' : SourceOK(sources'[i])
  BY DEF TableOK
<1>2. source_count' \in 0..options.max_sources
  BY <1>1, SlotsFinite DEF IInv, TypeOK
<1>3. TableOK(sources)'
  BY TableLater
<1>4. SourceTable'
  BY DEF SourceTable, TableOK
<1>5. history' \in History'
  BY DEF History
<1>6. TypeOK'
  BY <1>2, <1>3, <1>5 DEF IInv, TypeOK, TableOK
<1>7. QED
  BY <1>3, <1>4, <1>6 DEF IInv

LEMMA StatsOK ==
    ASSUME TypeOK, NEW v \in Verdicts
    PROVE  [stats EXCEPT ![v] = @ + 1] \in [Verdicts -> Nat]
BY DEF TypeOK

LEMMA ArrivedOK ==
    ASSUME NEW h \in History
    PROVE  Arrived(h) \in History
<1> DEFINE n == h.packets + 1
<1>1. n \in Nat
  BY DEF History
<1>2. Arrived(h) = [h EXCEPT !.packets = n]
  BY DEF Arrived
<1> HIDE DEF n
<1>3. QED
  BY <1>1, <1>2 DEF History

(* The latest drop times of a history stay times up to now.                  *)
LEMMA LatestOK ==
    ASSUME TypeOK, NEW s \in Seq(0..now)
    PROVE  Latest(s) \in Seq(0..now)
<1> DEFINE keep == 2 * options.flood_violations - 1
<1>1. keep \in Nat \ {0} /\ Len(s) \in Nat
  <2>1. options.flood_violations \in Nat \ {0}
    BY OptionsTyped DEF TypeOK
  <2>2. Len(s) \in Nat
    BY LenProperties
  <2>3. QED
    BY <2>1, <2>2
<1>2. CASE Len(s) <= keep
  BY <1>2 DEF Latest
<1>3. CASE Len(s) > keep
  <2>1. Len(s) - keep + 1 \in 1..Len(s) + 1 /\ Len(s) \in Len(s) - keep + 1 - 1..Len(s)
    BY <1>1, <1>3
  <2>2. \A i \in Len(s) - keep + 1..Len(s) : s[i] \in 0..now
    <3>1. \A i \in Len(s) - keep + 1..Len(s) : i \in 1..Len(s)
      BY <1>1, <1>3
    <3> HIDE DEF keep
    <3>2. QED
      BY <3>1, ElementOfSeq
  <2> HIDE DEF keep
  <2>3. SubSeq(s, Len(s) - keep + 1, Len(s)) \in Seq(0..now)
    BY <1>1, <1>3, <2>2, SubSeqProperties
  <2>4. QED
    BY <1>1, <1>3, <2>3 DEF Latest, keep
<1>4. QED
  BY <1>1, <1>2, <1>3

(* Every field of a history may be replaced by a value of its type.          *)
LEMMA HistoryUpdated ==
    ASSUME NEW h \in History, NEW ip \in Ips, NEW g \in Seq(0..now), NEW d \in Seq(0..now), NEW e \in Nat
    PROVE  /\ [h EXCEPT !.granted = g] \in History
           /\ [h EXCEPT !.accepted[ip] = g] \in History
           /\ [h EXCEPT !.drops[ip] = d, !.blockEnd[ip] = e] \in History
<1>1. [h EXCEPT !.granted = g] \in History
  BY DEF History
<1>2. [h EXCEPT !.accepted[ip] = g] \in History
  <2> DEFINE a == [h.accepted EXCEPT ![ip] = g]
  <2>1. a \in [Ips -> Seq(0..now)]
    BY DEF History
  <2>2. [h EXCEPT !.accepted[ip] = g] = [h EXCEPT !.accepted = a]
    BY DEF History
  <2> HIDE DEF a
  <2>3. QED
    BY <2>1, <2>2 DEF History
<1>3. [h EXCEPT !.drops[ip] = d, !.blockEnd[ip] = e] \in History
  <2> DEFINE ds == [h.drops EXCEPT ![ip] = d]
             k == [h EXCEPT !.drops[ip] = d]
  <2>1. ds \in [Ips -> Seq(0..now)]
    BY DEF History
  <2>2. k = [h EXCEPT !.drops = ds]
    BY DEF History
  <2> HIDE DEF ds, k
  <2>3. k \in History
    BY <2>1, <2>2 DEF History
  <2> DEFINE es == [k.blockEnd EXCEPT ![ip] = e]
  <2>4. es \in [Ips -> Nat]
    BY <2>3 DEF History
  <2>5. [k EXCEPT !.blockEnd[ip] = e] = [k EXCEPT !.blockEnd = es]
    BY <2>3 DEF History
  <2>6. [k EXCEPT !.blockEnd = es] \in History
    <3> HIDE DEF es
    <3> QED BY <2>3, <2>4 DEF History
  <2>7. QED
    BY <2>5, <2>6 DEF k
<1>4. QED
  BY <1>1, <1>2, <1>3

-----------------------------------------------------------------------------
(* Every step keeps the invariant.                                           *)

(* A datagram dropped before the rate limits.                                *)
LEMMA DropKeeps ==
    ASSUME IInv, NEW ip \in Ips, NEW v \in Verdicts, Drop(GetSource(ip), v),
           history' = Arrived(history), UNCHANGED <<options, queue_overflows, now>>
    PROVE  IInv'
<1> DEFINE found == GetSource(ip)
           x == Counted(found.table[found.slot], v)
<1>1. /\ TableOK(found.table) /\ found.slot \in DOMAIN found.table
      /\ found.count = Cardinality(DOMAIN found.table)
  BY GetSourceOK
<1>2. SourceOK(found.table[found.slot])
  BY <1>1 DEF TableOK
<1>3. SourceOK(x) /\ x.ip = found.table[found.slot].ip
  BY <1>2, CountedOK
<1>4. /\ sources' = [found.table EXCEPT ![found.slot] = x]
      /\ source_count' = found.count
      /\ stats' = [stats EXCEPT ![v] = @ + 1]
      /\ Warn /\ UNCHANGED global
  BY DEF Drop
<1> HIDE DEF x, found
<1>5. TableOK(sources') /\ DOMAIN sources' = DOMAIN found.table
  BY <1>1, <1>3, <1>4, UpdateOK
<1>6. pending_warnings' \in Nat /\ last_log' \in 0..now
  BY <1>4, WarnOK DEF IInv
<1>7. stats' \in [Verdicts -> Nat]
  BY <1>4, StatsOK DEF IInv
<1>8. history' \in History
  BY ArrivedOK DEF IInv, TypeOK
<1>9. source_count' = Cardinality(DOMAIN sources')
  BY <1>1, <1>4, <1>5
<1>10. global' \in [tokens : 0..options.burst["global"], updated : 0..now] /\ queue_overflows' \in Nat
  BY <1>4 DEF IInv, TypeOK
<1>11. QED
  BY <1>5, <1>6, <1>7, <1>8, <1>9, <1>10, IInvLater

(* A datagram that meets the rate limits.                                    *)
LEMMA LimitKeeps ==
    ASSUME IInv, NEW ip \in Ips, NEW kind \in Kinds, Limit(ip, kind)
    PROVE  IInv'
<1> DEFINE found == GetSource(ip)
           x == found.table[found.slot]
           taken == TakeAll(x, kind)
           charged == [x EXCEPT !.buckets = taken.buckets]
           dropped == Violation(Counted(charged, "rate"))
           accepted == Counted(charged, "accepted")
           blocks == dropped.blocked_until > now
           drops == Append(history.drops[ip], now)
           n == IF taken.spent THEN Append(history.granted, now) ELSE history.granted
           granted == [history EXCEPT !.granted = n]
           spent == Arrived(granted)
<1>1. /\ TableOK(found.table) /\ found.slot \in DOMAIN found.table
      /\ found.count = Cardinality(DOMAIN found.table) /\ SourceOK(x)
  BY GetSourceOK DEF TableOK
<1>2. /\ taken.global \in [tokens : 0..options.burst["global"], updated : 0..now]
      /\ SourceOK(charged) /\ charged.ip = x.ip
  <2> HIDE DEF x
  <2> QED BY <1>1, TakeAllOK DEF IInv
<1>3. "rate" \in Verdicts /\ "accepted" \in Verdicts
  BY DEF Verdicts
<1>4. SourceOK(accepted) /\ accepted.ip = x.ip
  <2> HIDE DEF charged
  <2> QED BY <1>2, <1>3, CountedOK
<1>5. SourceOK(dropped) /\ dropped.ip = x.ip
  <2>1. SourceOK(Counted(charged, "rate")) /\ Counted(charged, "rate").ip = x.ip
    <3> HIDE DEF charged
    <3> QED BY <1>2, <1>3, CountedOK
  <2> HIDE DEF charged
  <2>2. QED
    BY <2>1, ViolationOK DEF IInv
<1>6. history \in History /\ history.granted \in Seq(0..now) /\ history.drops[ip] \in Seq(0..now) /\ now \in 0..now
      /\ history.blockEnd[ip] \in Nat
  <2>1. history \in History /\ now \in Nat
    BY DEF IInv, TypeOK
  <2>2. QED
    BY <2>1 DEF History
<1>7. n \in Seq(0..now)
  <2> HIDE DEF taken
  <2> QED BY <1>6, AppendProperties
<1>8. spent \in History
  <2>1. granted \in History
    <3> HIDE DEF n
    <3> QED BY <1>6, <1>7 DEF History
  <2> HIDE DEF granted
  <2>2. QED
    BY <2>1, ArrivedOK
<1>9. /\ global' = taken.global /\ source_count' = found.count
      /\ UNCHANGED <<options, queue_overflows, now>>
      /\ \/ /\ sources' = [found.table EXCEPT ![found.slot] = accepted]
            /\ stats' = [stats EXCEPT !["accepted"] = @ + 1]
            /\ history' = [spent EXCEPT !.accepted[ip] = Append(@, now)]
            /\ UNCHANGED warnVars
         \/ /\ sources' = [found.table EXCEPT ![found.slot] = dropped]
            /\ stats' = [stats EXCEPT !["rate"] = @ + 1]
            /\ history' = [spent EXCEPT
                              !.drops[ip] = IF blocks THEN <<>> ELSE Latest(drops),
                              !.blockEnd[ip] = IF blocks THEN dropped.blocked_until ELSE @]
            /\ Warn
  BY DEF Limit
<1>10. \E v \in Verdicts : stats' = [stats EXCEPT ![v] = @ + 1]
  BY <1>3, <1>9
<1>11. stats' \in [Verdicts -> Nat]
  BY <1>10, StatsOK DEF IInv
<1>12. pending_warnings' \in Nat /\ last_log' \in 0..now
  <2>1. CASE UNCHANGED warnVars
    BY <2>1 DEF IInv, TypeOK, warnVars
  <2>2. CASE Warn
    BY <2>2, WarnOK DEF IInv
  <2>3. QED
    BY <1>9, <2>1, <2>2
<1> HIDE DEF found, x, taken, charged
<1>13. TableOK(sources') /\ DOMAIN sources' = DOMAIN found.table
  <2>1. \E y : SourceOK(y) /\ y.ip = x.ip /\ sources' = [found.table EXCEPT ![found.slot] = y]
    <3> HIDE DEF accepted, dropped
    <3> QED BY <1>4, <1>5, <1>9
  <2>2. QED
    BY <1>1, <2>1, UpdateOK DEF x
<1>14. history' \in History
  <2> HIDE DEF spent
  <2>1. spent.accepted[ip] \in Seq(0..now) /\ spent.blockEnd[ip] \in Nat
    BY <1>8 DEF History
  <2>2. dropped.blocked_until \in Nat
    <3> HIDE DEF dropped
    <3> QED BY <1>5 DEF SourceOK, Source
  <2>3. Latest(drops) \in Seq(0..now) /\ <<>> \in Seq(0..now)
    <3>1. drops \in Seq(0..now)
      BY <1>6, AppendProperties
    <3> HIDE DEF drops
    <3>2. QED
      BY <3>1, LatestOK, EmptySeq DEF IInv
  <2>4. CASE history' = [spent EXCEPT !.accepted[ip] = Append(@, now)]
    <3> DEFINE m == Append(spent.accepted[ip], now)
    <3>1. history' = [spent EXCEPT !.accepted[ip] = m] /\ m \in Seq(0..now)
      BY <1>6, <2>1, <2>4, AppendProperties
    <3> HIDE DEF m
    <3>2. QED
      BY <1>8, <3>1, HistoryUpdated, EmptySeq
  <2>5. CASE history' = [spent EXCEPT
                            !.drops[ip] = IF blocks THEN <<>> ELSE Latest(drops),
                            !.blockEnd[ip] = IF blocks THEN dropped.blocked_until ELSE @]
    <3> DEFINE d == IF blocks THEN <<>> ELSE Latest(drops)
               e == IF blocks THEN dropped.blocked_until ELSE spent.blockEnd[ip]
    <3>1. d \in Seq(0..now) /\ e \in Nat
      <4> HIDE DEF blocks, drops, dropped
      <4> QED BY <2>1, <2>2, <2>3
    <3>2. history' = [spent EXCEPT !.drops[ip] = d, !.blockEnd[ip] = e]
      <4> HIDE DEF blocks, drops, dropped
      <4> QED BY <1>8, <2>5 DEF History
    <3> HIDE DEF d, e
    <3>3. QED
      BY <1>8, <3>1, <3>2, HistoryUpdated
  <2>6. QED
    BY <1>9, <2>4, <2>5
<1>15. source_count' = Cardinality(DOMAIN sources')
  BY <1>1, <1>9, <1>13
<1>16. queue_overflows' \in Nat
  BY <1>9 DEF IInv, TypeOK
<1>17. QED
  BY <1>2, <1>9, <1>11, <1>12, <1>13, <1>14, <1>15, <1>16, IInvLater

LEMMA InitOK == Init => IInv
<1> SUFFICES ASSUME Init PROVE IInv
  OBVIOUS
<1>1. options \in Configs /\ now = 0 /\ sources = <<>> /\ source_count = 0
  BY DEF Init
<1>2. /\ options.burst["global"] \in Nat /\ options.max_sources \in Nat
  BY <1>1, OptionsTyped DEF Buckets
<1>3. DOMAIN sources = {}
  BY <1>1
<1>4. Cardinality(DOMAIN sources) = 0
  BY <1>3, FS_EmptySet
<1>5. TableOK(sources)
  BY <1>1, <1>3 DEF TableOK
<1>6. history \in History
  BY <1>1, EmptySeq DEF Init, Fresh, History
<1>7. global \in [tokens : 0..options.burst["global"], updated : 0..now]
  BY <1>1, <1>2 DEF Init
<1>8. stats \in [Verdicts -> Nat]
  BY DEF Init, Zeros
<1>9. QED
  BY <1>1, <1>2, <1>3, <1>4, <1>5, <1>6, <1>7, <1>8 DEF Init, IInv, TypeOK, SourceTable

LEMMA ConfigureKeeps ==
    ASSUME IInv, NEW o \in Configs, Configure(o)
    PROVE  IInv'
<1>1. options' = o /\ sources' = <<>> /\ source_count' = 0 /\ UNCHANGED <<stats, queue_overflows, now>>
      /\ pending_warnings' = 0 /\ last_log' = now
      /\ global' = [tokens |-> o.burst["global"], updated |-> now]
      /\ history' = [Fresh EXCEPT !.packets = history.packets]
  BY DEF Configure
<1>2. o.burst["global"] \in Nat /\ o.max_sources \in Nat /\ now \in 0..now /\ now \in Nat
  BY OptionsTyped DEF IInv, TypeOK, Buckets
<1>3. DOMAIN sources' = {} /\ Cardinality(DOMAIN sources') = 0
  BY <1>1, FS_EmptySet
<1>4. TableOK(sources)' /\ SourceTable'
  BY <1>1, <1>3 DEF TableOK, SourceTable
<1>5. history' \in History'
  <2>1. Fresh \in History
    BY <1>2, EmptySeq DEF Fresh, History
  <2>2. history.packets \in Nat
    BY DEF IInv, TypeOK, History
  <2>3. history' \in History
    BY <1>1, <2>1, <2>2 DEF History
  <2>4. QED
    BY <1>1, <2>3 DEF History
<1>6. global' \in [tokens : 0..o.burst["global"], updated : 0..now]
  BY <1>1, <1>2
<1>7. QED
  BY <1>1, <1>2, <1>3, <1>4, <1>5, <1>6 DEF IInv, TypeOK

LEMMA GetStatsKeeps ==
    ASSUME IInv, NEW reset \in BOOLEAN, GetStats(reset)
    PROVE  IInv'
<1> DEFINE live == DOMAIN sources \ Stale
<1>1. /\ sources' = [i \in live |-> IF reset THEN [sources[i] EXCEPT !.count = Zeros] ELSE sources[i]]
      /\ source_count' = source_count - Cardinality(Stale)
      /\ stats' \in {stats, Zeros} /\ queue_overflows' \in {queue_overflows, 0}
      /\ UNCHANGED <<options, global, warnVars, now, history>>
  BY DEF GetStats
<1>2. /\ Stale \subseteq DOMAIN sources /\ live \subseteq DOMAIN sources /\ DOMAIN sources \subseteq Slots
      /\ \A i \in DOMAIN sources : SourceOK(sources[i])
      /\ \A i, j \in DOMAIN sources : sources[i].ip = sources[j].ip => i = j
      /\ source_count = Cardinality(DOMAIN sources)
      /\ IsFiniteSet(DOMAIN sources)
  BY SlotsFinite DEF IInv, TypeOK, SourceTable, Stale
<1>3. Zeros \in [Verdicts -> Nat]
  BY DEF Zeros
<1>4. \A i \in live : SourceOK(sources'[i]) /\ sources'[i].ip = sources[i].ip
  <2> SUFFICES ASSUME NEW i \in live PROVE SourceOK(sources'[i]) /\ sources'[i].ip = sources[i].ip
    OBVIOUS
  <2> DEFINE x == sources[i]
             y == [x EXCEPT !.count = Zeros]
  <2>1. SourceOK(x)
    BY <1>2
  <2>2. SourceOK(y) /\ y.ip = x.ip
    <3> HIDE DEF x
    <3>1. y \in Source /\ y.ip = x.ip /\ y.buckets = x.buckets /\ y.violations = x.violations
      BY <1>3, <2>1 DEF SourceOK, Source
    <3>2. QED
      BY <2>1, <3>1 DEF SourceOK
  <2>3. sources'[i] = x \/ sources'[i] = y
    BY <1>1
  <2> HIDE DEF y
  <2>4. QED
    BY <2>1, <2>2, <2>3
<1>5. DOMAIN sources' = live
  BY <1>1
<1>6. source_count' = Cardinality(live)
  BY <1>1, <1>2, CountLess
<1>7. TableOK(sources')
  <2>1. sources' = [i \in DOMAIN sources' |-> sources'[i]]
    BY <1>1
  <2> HIDE DEF live
  <2>2. QED
    BY <1>2, <1>4, <1>5, <2>1 DEF TableOK
<1>8. stats' \in [Verdicts -> Nat] /\ queue_overflows' \in Nat
  BY <1>1, <1>3 DEF IInv, TypeOK
<1>9. QED
  <2>1. /\ global' \in [tokens : 0..options.burst["global"], updated : 0..now]
        /\ pending_warnings' \in Nat /\ last_log' \in 0..now /\ history' \in History
        /\ UNCHANGED <<options, now>>
    BY <1>1 DEF IInv, TypeOK, warnVars
  <2>2. source_count' = Cardinality(DOMAIN sources')
    BY <1>5, <1>6
  <2>3. QED
    BY <1>7, <1>8, <2>1, <2>2, IInvLater

LEMMA TickKeeps ==
    ASSUME IInv, Tick
    PROVE  IInv'
<1>1. /\ now \in Nat /\ now' = now + 1 /\ 0..now \subseteq 0..now'
      /\ UNCHANGED <<options, tableVars, global, stats, queue_overflows, warnVars, history>>
  BY DEF Tick, IInv, TypeOK
<1>2. \A x : SourceOK(x) => SourceOK(x)'
  <2> SUFFICES ASSUME NEW x, SourceOK(x) PROVE SourceOK(x)'
    OBVIOUS
  <2>1. x \in Source'
    <3>1. x.buckets \in [Buckets \ {"global"} -> [tokens : Nat, updated : 0..now']]
      <4>1. x.buckets \in [Buckets \ {"global"} -> [tokens : Nat, updated : 0..now]]
        BY DEF SourceOK, Source
      <4>2. [tokens : Nat, updated : 0..now] \subseteq [tokens : Nat, updated : 0..now']
        BY <1>1
      <4>3. QED
        BY <4>1, <4>2
    <3>2. QED
      BY <1>1, <3>1 DEF SourceOK, Source
  <2>2. QED
    BY <1>1, <2>1 DEF SourceOK
<1>3. TableOK(sources)' /\ \A i \in DOMAIN sources' : SourceOK(sources[i])'
  BY <1>1, <1>2 DEF IInv, TableOK, tableVars, Slots
<1>4. history' \in History'
  <2>1. \A d \in Seq(0..now) : d \in Seq(0..now')
    BY <1>1, SeqMonotonic
  <2>2. QED
    BY <1>1, <2>1 DEF IInv, TypeOK, History
<1>5. QED
  BY <1>1, <1>3, <1>4 DEF IInv, TypeOK, SourceTable, tableVars, warnVars, Slots

LEMMA StepOK == IInv /\ [Next]_vars => IInv'
<1> SUFFICES ASSUME IInv, [Next]_vars PROVE IInv'
  OBVIOUS
<1>1. CASE AcceptUnprotected
  <2>1. stats' \in [Verdicts -> Nat]
    BY <1>1, StatsOK DEF AcceptUnprotected, IInv, Verdicts
  <2>2. history' \in History
    BY <1>1, ArrivedOK DEF AcceptUnprotected, IInv, TypeOK
  <2>3. QED
    BY <1>1, <2>1, <2>2, IInvLater DEF AcceptUnprotected, IInv, TypeOK, SourceTable, tableVars, warnVars
<1>2. ASSUME NEW ip \in Ips, DropDenied(ip) PROVE IInv'
  BY <1>2, DropKeeps DEF DropDenied, Verdicts
<1>3. ASSUME NEW ip \in Ips, DropBlocked(ip) PROVE IInv'
  BY <1>3, DropKeeps DEF DropBlocked, Verdicts
<1>4. ASSUME NEW ip \in Ips, DropMalformed(ip) PROVE IInv'
  BY <1>4, DropKeeps DEF DropMalformed, Verdicts
<1>5. ASSUME NEW ip \in Ips, NEW kind \in Kinds, Limit(ip, kind) PROVE IInv'
  BY <1>5, LimitKeeps
<1>6. ASSUME NEW ip \in Ips, Malformed(ip) PROVE IInv'
  BY <1>6, DropKeeps DEF Malformed, Verdicts
<1>7. CASE QueueOverflow
  <2>1. history' \in History
    BY <1>7, ArrivedOK DEF QueueOverflow, IInv, TypeOK
  <2>2. pending_warnings' \in Nat /\ last_log' \in 0..now
    BY <1>7, WarnOK DEF QueueOverflow, IInv
  <2>3. QED
    BY <1>7, <2>1, <2>2, IInvLater DEF QueueOverflow, IInv, TypeOK, SourceTable, tableVars
<1>8. ASSUME NEW o \in Configs, Configure(o) PROVE IInv'
  BY <1>8, ConfigureKeeps
<1>9. ASSUME NEW reset \in BOOLEAN, GetStats(reset) PROVE IInv'
  BY <1>9, GetStatsKeeps
<1>10. CASE Tick
  BY <1>10, TickKeeps
<1>11. CASE UNCHANGED vars
  BY <1>11, IInvLater DEF vars, IInv, TypeOK, SourceTable
<1>12. QED
  BY <1>1, <1>2, <1>3, <1>4, <1>5, <1>6, <1>7, <1>8, <1>9, <1>10, <1>11 DEF Next, Accept

LEMMA InvariantHolds == Spec => []IInv
BY InitOK, StepOK, PTL DEF Spec

(* The state of the protection stays well typed: no bucket exceeds its burst *)
(* and no source reaches flood_violations without being blocked.             *)
THEOREM TypeCorrect == Spec => []TypeOK
<1>1. IInv => TypeOK
  BY DEF IInv
<1>2. QED
  BY <1>1, InvariantHolds, PTL

(* The table of sources never holds an address twice and source_count is the *)
(* number of its entries, through expiry, replacement, setSecurityOptions()  *)
(* and getSecurityStats().                                                   *)
THEOREM SourceTableCorrect == Spec => []SourceTable
<1>1. IInv => SourceTable
  BY DEF IInv
<1>2. QED
  BY <1>1, InvariantHolds, PTL

-----------------------------------------------------------------------------
(* The rates.  From any of the times on, what has happened since and what is *)
(* left in the bucket are paid for by a full bucket and by its refill up to  *)
(* the last one.                                                             *)

Paying(times, b, bucket) ==
    \A i \in 1..Len(times) :
        bucket.tokens + (Len(times) - i + 1) * Unit
        <= options.burst[b] + options.rate[b] * (bucket.updated - times[i])

(* The types of what the rates are computed from.                            *)
LEMMA RateTyped ==
    ASSUME IInv
    PROVE  /\ now \in Nat /\ Unit \in Nat /\ history.granted \in Seq(0..now)
           /\ global.tokens \in Nat /\ global.updated \in 0..now
           /\ \A b \in Buckets : options.burst[b] \in Nat /\ options.rate[b] \in Nat
<1>1. \A b \in Buckets : options.burst[b] \in Nat /\ options.rate[b] \in Nat
  BY OptionsTyped DEF IInv, TypeOK
<1>2. options.burst["global"] \in Nat
  BY <1>1 DEF Buckets
<1>3. QED
  BY <1>1, <1>2, UnitAssumption DEF IInv, TypeOK, History

LEMMA TimesTyped ==
    ASSUME now \in Nat, NEW times \in Seq(0..now)
    PROVE  Len(times) \in Nat /\ \A i \in 1..Len(times) : times[i] \in Nat /\ times[i] <= now
<1>1. Len(times) \in Nat /\ \A i \in 1..Len(times) : times[i] \in 0..now
  BY LenProperties, ElementOfSeq
<1>2. QED
  BY <1>1

(* Arithmetic of a refill: the rate times two adjacent spans of time.        *)
LEMMA Refill ==
    ASSUME NEW rate \in Nat, NEW start \in Nat, NEW updated \in Nat, NEW t \in Nat
    PROVE  rate * (updated - start) + (t - updated) * rate = rate * (t - start)
OBVIOUS

(* A bucket that is refilled up to now still pays for what has happened, and *)
(* keeps left units for more.                                                *)
LEMMA Refilled ==
    ASSUME now \in Nat, Unit \in Nat, NEW times \in Seq(0..now), NEW b,
           options.burst[b] \in Nat, options.rate[b] \in Nat,
           NEW old, old.tokens \in Nat, old.updated \in Nat, Paying(times, b, old),
           NEW tokens \in Nat, NEW left \in Nat,
           tokens + left <= old.tokens + (now - old.updated) * options.rate[b],
           NEW i \in 1..Len(times)
    PROVE  tokens + left + (Len(times) - i + 1) * Unit
           <= options.burst[b] + options.rate[b] * (now - times[i])
<1> DEFINE n == Len(times) - i + 1
           t == times[i]
           rate == options.rate[b]
           burst == options.burst[b]
           u == old.updated
           have == old.tokens
           used == n * Unit
           paid == rate * (u - t)
           refill == (now - u) * rate
           due == rate * (now - t)
<1>1. have + used <= burst + paid /\ tokens + left <= have + refill
  BY DEF Paying
<1>2. n \in Int /\ t \in Nat /\ rate \in Nat /\ burst \in Nat /\ u \in Nat /\ have \in Nat
  BY TimesTyped
<1> HIDE DEF n, t, rate, burst, u, have
<1>3. paid + refill = due
  BY <1>2, Refill
<1>4. used \in Int
  BY <1>2
<1>5. paid \in Int /\ refill \in Int /\ due \in Int
  <2>1. u - t \in Int /\ now - u \in Int /\ now - t \in Int
    BY <1>2
  <2>2. QED
    BY <1>2, <2>1
<1> HIDE DEF used, paid, refill, due
<1>6. tokens + left + used <= burst + due
  BY <1>1, <1>2, <1>3, <1>4, <1>5
<1>7. QED
  BY <1>6 DEF used, due, burst, n, t, rate

LEMMA PaysNothing ==
    ASSUME now \in Nat, Unit \in Nat, NEW times \in Seq(0..now), NEW b,
           options.burst[b] \in Nat, options.rate[b] \in Nat,
           NEW old, old.tokens \in Nat, old.updated \in Nat, Paying(times, b, old),
           NEW new, new.tokens \in Nat, new.updated = now,
           new.tokens <= old.tokens + (now - old.updated) * options.rate[b]
    PROVE  Paying(times, b, new)
<1> SUFFICES ASSUME NEW i \in 1..Len(times)
             PROVE  new.tokens + (Len(times) - i + 1) * Unit
                    <= options.burst[b] + options.rate[b] * (now - times[i])
  BY DEF Paying
<1> DEFINE tokens == new.tokens
<1>1. tokens \in Nat /\ tokens + 0 = tokens
      /\ tokens + 0 <= old.tokens + (now - old.updated) * options.rate[b]
  OBVIOUS
<1> HIDE DEF tokens
<1>2. tokens + 0 + (Len(times) - i + 1) * Unit
      <= options.burst[b] + options.rate[b] * (now - times[i])
  BY <1>1, Refilled
<1>3. QED
  BY <1>1, <1>2 DEF tokens

(* One token more is spent: the bucket was full at most, and had a token.    *)
LEMMA PaysOne ==
    ASSUME now \in Nat, Unit \in Nat, NEW times \in Seq(0..now), NEW b,
           options.burst[b] \in Nat, options.rate[b] \in Nat,
           NEW old, old.tokens \in Nat, old.updated \in Nat, Paying(times, b, old), Within(times, b),
           NEW new, new.tokens \in Nat, new.updated = now,
           new.tokens + Unit <= old.tokens + (now - old.updated) * options.rate[b],
           new.tokens + Unit <= options.burst[b]
    PROVE  Paying(Append(times, now), b, new) /\ Within(Append(times, now), b)
<1> DEFINE n == Len(times)
           more == Append(times, now)
           limit(i, j) == options.burst[b] + options.rate[b] * (more[j] - more[i])
           tokens == new.tokens
<1>1. n \in Nat /\ \A i \in 1..n : times[i] \in Nat
  BY TimesTyped
<1>2. Len(more) = n + 1 /\ more[n + 1] = now /\ \A i \in 1..n : more[i] = times[i]
  <2>1. now \in 0..now
    OBVIOUS
  <2>2. QED
    BY <2>1, AppendProperties
<1> HIDE DEF more
<1>3. ASSUME NEW i \in 1..n + 1 PROVE tokens + (n + 1 - i + 1) * Unit <= limit(i, n + 1)
  <2>1. CASE i = n + 1
    <3>1. more[n + 1] - more[i] = 0 /\ n + 1 - i + 1 = 1
      BY <1>1, <1>2, <2>1
    <3>2. 1 * Unit = Unit /\ options.rate[b] * 0 = 0
      OBVIOUS
    <3>3. tokens + Unit <= options.burst[b] + 0
      OBVIOUS
    <3> HIDE DEF tokens, n
    <3>4. QED
      BY <3>1, <3>2, <3>3
  <2>2. CASE i # n + 1
    <3>a. i \in 1..n
      <4> HIDE DEF n
      <4> QED BY <1>1, <2>2
    <3>1. i \in 1..n /\ more[i] = times[i]
      BY <1>2, <3>a
    <3>2. tokens \in Nat /\ tokens + Unit <= old.tokens + (now - old.updated) * options.rate[b]
      OBVIOUS
    <3>3. tokens + Unit + (n - i + 1) * Unit <= options.burst[b] + options.rate[b] * (now - times[i])
      <4> HIDE DEF tokens
      <4> QED BY <3>1, <3>2, Refilled DEF n
    <3>4. (n + 1 - i + 1) * Unit = Unit + (n - i + 1) * Unit /\ (n - i + 1) * Unit \in Int
      <4> DEFINE k == n - i + 1
      <4>1. k \in Int /\ n + 1 - i + 1 = k + 1
        BY <1>1, <3>1
      <4> HIDE DEF k
      <4>2. (k + 1) * Unit = Unit + k * Unit /\ k * Unit \in Int
        BY <4>1
      <4>3. QED
        BY <4>1, <4>2 DEF k
    <3> DEFINE used == (n - i + 1) * Unit
               all == (n + 1 - i + 1) * Unit
    <3>5. tokens + all = tokens + Unit + used
      <4> HIDE DEF tokens, used, all
      <4> QED BY <3>2, <3>4 DEF used, all
    <3> HIDE DEF tokens, n
    <3>6. QED
      BY <1>2, <3>1, <3>3, <3>5
  <2>3. QED
    BY <2>1, <2>2
<1>4. Paying(more, b, new)
  BY <1>2, <1>3 DEF Paying
<1>5. ASSUME NEW i \in 1..n + 1, NEW j \in 1..n + 1, i <= j PROVE (j - i + 1) * Unit <= limit(i, j)
  <2>1. CASE j = n + 1
    <3> DEFINE all == (n + 1 - i + 1) * Unit
               due == limit(i, n + 1)
    <3>1. tokens + all <= due
      BY <1>3
    <3>2. all \in Int /\ due \in Int /\ tokens \in Nat
      <4> DEFINE k == n + 1 - i + 1
                 m == more[n + 1] - more[i]
                 rate == options.rate[b]
                 burst == options.burst[b]
      <4>1. more[i] \in Nat
        <5>1. i \in 1..n \/ i = n + 1
          <6> HIDE DEF n, k, m, rate, burst
          <6> QED BY <1>1
        <5>2. QED
          BY <1>1, <1>2, <5>1
      <4>2. k \in Int /\ m \in Int /\ rate \in Nat /\ burst \in Nat /\ tokens \in Nat
        BY <1>1, <1>2, <4>1
      <4> HIDE DEF k, m, rate, burst, tokens, n
      <4>3. k * Unit \in Int /\ burst + rate * m \in Int
        BY <4>2
      <4>4. QED
        BY <4>2, <4>3 DEF k, m, rate, burst
    <3> HIDE DEF all, due, tokens
    <3>3. all <= due
      BY <3>1, <3>2
    <3>4. QED
      BY <2>1, <3>3 DEF all, due
  <2>2. CASE j # n + 1
    <3>a. i \in 1..n /\ j \in 1..n
      <4>1. n \in Nat /\ i \in 1..n+1 /\ j \in 1..n+1 /\ i <= j
        BY <1>1, <1>5
      <4> HIDE DEF n
      <4>2. QED
        BY <4>1, <2>2
    <3>1. i \in 1..n /\ j \in 1..n /\ more[i] = times[i] /\ more[j] = times[j]
      BY <1>2, <3>a
    <3>2. QED
      BY <1>5, <3>1 DEF Within
  <2>3. QED
    BY <2>1, <2>2
<1>6. Within(more, b)
  BY <1>2, <1>5 DEF Within
<1>7. QED
  BY <1>4, <1>6 DEF more

(* Nothing has happened yet.                                                 *)
LEMMA NothingYet == ASSUME NEW b, NEW bucket PROVE Paying(<<>>, b, bucket) /\ Within(<<>>, b)
<1>1. 1..Len(<<>>) = {}
  OBVIOUS
<1>2. QED
  BY <1>1 DEF Paying, Within

RateInv == Paying(history.granted, "global", global) /\ Within(history.granted, "global")

LEMMA LimitKeepsRate ==
    ASSUME IInv, RateInv, NEW ip \in Ips, NEW kind \in Kinds, Limit(ip, kind)
    PROVE  RateInv'
<1> DEFINE found == GetSource(ip)
           x == found.table[found.slot]
           taken == TakeAll(x, kind)
           new == taken.global
           left == IF taken.spent THEN Unit ELSE 0
           times == IF taken.spent THEN Append(history.granted, now) ELSE history.granted
<1>1. SourceOK(x)
  BY GetSourceOK DEF TableOK
<1>2. /\ taken.spent \in BOOLEAN
      /\ new.tokens \in Nat /\ new.updated = now
      /\ new.tokens + left <= global.tokens + (now - global.updated) * options.rate["global"]
      /\ new.tokens + left <= options.burst["global"]
  <2> HIDE DEF x
  <2>1. /\ taken.spent \in BOOLEAN
        /\ new \in [tokens : 0..options.burst["global"], updated : 0..now]
        /\ new.updated = now
        /\ new.tokens + left <= global.tokens + (now - global.updated) * options.rate["global"]
        /\ new.tokens + left <= options.burst["global"]
    BY <1>1, TakeAllOK DEF IInv
  <2>2. options.burst["global"] \in Nat
    BY RateTyped DEF Buckets
  <2> HIDE DEF taken, left
  <2>3. QED
    BY <2>1, <2>2
<1>3. global' = new /\ UNCHANGED <<options, now>>
  BY DEF Limit
<1>4. history'.granted = times
  <2>1. history \in History
    BY DEF IInv, TypeOK
  <2> DEFINE granted == [history EXCEPT !.granted = times]
             spent == Arrived(granted)
  <2>2. granted.granted = times /\ DOMAIN granted = DOMAIN history
    <3> HIDE DEF times
    <3> QED BY <2>1 DEF History
  <2>3. DOMAIN history = {"granted", "accepted", "blockEnd", "drops", "packets"}
    BY <2>1 DEF History
  <2>4. spent.granted = granted.granted /\ DOMAIN spent = DOMAIN history
    <3> HIDE DEF granted
    <3> QED BY <2>2, <2>3 DEF Arrived
  <2>5. \E a, d, e : \/ history' = [spent EXCEPT !.accepted = a]
                     \/ history' = [spent EXCEPT !.drops = d, !.blockEnd = e]
    BY DEF Limit
  <2> HIDE DEF spent
  <2>6. history'.granted = spent.granted
    BY <2>3, <2>4, <2>5
  <2>7. QED
    BY <2>2, <2>4, <2>6
<1>5. /\ now \in Nat /\ Unit \in Nat /\ history.granted \in Seq(0..now)
      /\ options.burst["global"] \in Nat /\ options.rate["global"] \in Nat
      /\ global.tokens \in Nat /\ global.updated \in Nat
  BY RateTyped DEF Buckets
<1>6. Paying(times, "global", new) /\ Within(times, "global")
  <2>1. CASE taken.spent
    <3>1. times = Append(history.granted, now) /\ left = Unit
      BY <2>1
    <3> HIDE DEF taken, times, left, new
    <3>2. QED
      BY <1>2, <1>5, <3>1, PaysOne DEF RateInv
  <2>2. CASE ~taken.spent
    <3>1. times = history.granted /\ left = 0
      BY <2>2
    <3> HIDE DEF taken, times, left, new
    <3>2. QED
      BY <1>2, <1>5, <3>1, PaysNothing DEF RateInv
  <2>3. QED
    BY <1>2, <2>1, <2>2
<1> HIDE DEF times, new
<1>7. QED
  BY <1>3, <1>4, <1>6 DEF RateInv, Paying, Within

LEMMA RateStep == IInv /\ RateInv /\ [Next]_vars => RateInv'
<1> SUFFICES ASSUME IInv, RateInv, [Next]_vars PROVE RateInv'
  OBVIOUS
<1>a. ASSUME UNCHANGED <<options, global>>, history'.granted = history.granted PROVE RateInv'
  BY <1>a DEF RateInv, Paying, Within
<1>b. ASSUME UNCHANGED <<options, global>>, history' = Arrived(history) PROVE RateInv'
  <2>1. history'.granted = history.granted
    BY <1>b DEF Arrived, IInv, TypeOK, History
  <2>2. QED
    BY <1>a, <1>b, <2>1
<1>1. CASE AcceptUnprotected
  BY <1>1, <1>b DEF AcceptUnprotected
<1>2. ASSUME NEW ip \in Ips, DropDenied(ip) \/ DropBlocked(ip) \/ DropMalformed(ip) \/ Malformed(ip)
      PROVE  RateInv'
  BY <1>2, <1>b DEF DropDenied, DropBlocked, DropMalformed, Malformed, Drop
<1>3. ASSUME NEW ip \in Ips, NEW kind \in Kinds, Limit(ip, kind) PROVE RateInv'
  BY <1>3, LimitKeepsRate
<1>4. CASE QueueOverflow
  BY <1>4, <1>b DEF QueueOverflow
<1>5. ASSUME NEW o \in Configs, Configure(o) PROVE RateInv'
  <2>1. history'.granted = <<>>
    BY <1>5 DEF Configure, Fresh
  <2>2. 1..Len(<<>>) = {}
    OBVIOUS
  <2>3. QED
    BY <2>1, <2>2 DEF RateInv, Paying, Within
<1>6. ASSUME NEW reset \in BOOLEAN, GetStats(reset) PROVE RateInv'
  BY <1>6, <1>a DEF GetStats
<1>7. CASE Tick
  BY <1>7, <1>a DEF Tick
<1>8. CASE UNCHANGED vars
  BY <1>8, <1>a DEF vars
<1>9. QED
  BY <1>1, <1>2, <1>3, <1>4, <1>5, <1>6, <1>7, <1>8 DEF Next, Accept

(* However many sources send, in no interval since the options were          *)
(* installed does the server let through more datagrams than the global      *)
(* burst and the refill of that interval allow.                              *)
THEOREM GlobalRateHolds == Spec => []GlobalRateBound
<1>1. Init => RateInv
  <2> SUFFICES ASSUME Init PROVE RateInv
    OBVIOUS
  <2>1. history.granted = <<>>
    BY DEF Init, Fresh
  <2>2. QED
    BY <2>1, NothingYet DEF RateInv
<1>2. RateInv => GlobalRateBound
  BY DEF RateInv, GlobalRateBound
<1>3. QED
  BY <1>1, <1>2, RateStep, InvariantHolds, PTL DEF Spec

-----------------------------------------------------------------------------
(* The account of an address.  What SourceRateBound, BlockHolds,             *)
(* BlockJustified and FloodIsBlocked say of the history of an address is     *)
(* tied to its entry x in the table, or to there being none: a are the times *)
(* of its accepted datagrams, d those of its drops, e is the end of its      *)
(* block.                                                                    *)

\* What was accepted, from any of its times on, and the tokens left are paid for.
Paid(a, x) ==
    /\ x.buckets["source"].updated <= x.last_seen
    /\ Room => Paying(a, "source", x.buckets["source"]) /\ Within(a, "source")

\* The violations counted are the latest drops, the window began with the first.
Counts(d, x) ==
    x.violations > 0 => /\ Len(d) >= x.violations
                        /\ d[Len(d) - x.violations + 1] = x.violation_started

\* What lies as far back as a flood would reach is out of the window.
Spaced(d, x) ==
    Room => /\ \A j \in 1..Len(d) : d[j] <= x.last_seen
            /\ x.violations = 0 => \A j \in 1..Len(d) : d[j] + options.flood_window < now
            /\ x.violations > 0 =>
                 \A j \in 1..Len(d) :
                     j <= Len(d) - x.violations - options.flood_violations + 2
                     => d[j] + options.flood_window < x.violation_started

\* A block that lasts is known to the entry and ends within its life.
Keeps(e, x) ==
    Room /\ e > now => x.blocked_until >= e /\ e <= x.last_seen + options.block_duration

KnownOK(a, d, e, x) == Paid(a, x) /\ Counts(d, x) /\ Spaced(d, x) /\ Keeps(e, x)

\* What was accepted, from any of its times on, is paid for by the refill up to t.
Repaid(a, rate, t) == \A i \in 1..Len(a) : (Len(a) - i + 1) * Unit <= rate * (t - a[i])

\* Without an entry the bucket would be full again and the rest be over.
UnknownOK(a, d, e) ==
    /\ Within(a, "source")
    /\ Repaid(a, options.rate["source"], now)
    /\ \A j \in 1..Len(d) : d[j] + options.flood_window < now
    /\ e <= now

DropsOK(d) ==
    /\ \A j, k \in 1..Len(d) : j <= k => d[j] <= d[k]
    /\ Room => LET n == 2 * options.flood_violations - 1
               IN  ~(Len(d) >= n /\ d[Len(d)] - d[Len(d) - n + 1] <= options.flood_window)

AccountOK(h, table, ip) ==
    /\ \A i \in DOMAIN table : table[i].ip = ip =>
           KnownOK(h.accepted[ip], h.drops[ip], h.blockEnd[ip], table[i])
    /\ Room /\ (\A i \in DOMAIN table : table[i].ip # ip) =>
           UnknownOK(h.accepted[ip], h.drops[ip], h.blockEnd[ip])
    /\ DropsOK(h.drops[ip])

SInv == \A ip \in Ips : AccountOK(history, sources, ip)

(* With room in the table an address that has no entry finds a free slot.    *)
LEMMA RoomForOneMore ==
    ASSUME IInv, Room, NEW ip \in Ips, NEW live \in SUBSET DOMAIN sources,
           \A i \in live : sources[i].ip # ip
    PROVE  Replaceable(live) \notin live
<1>1. options.max_sources \in Nat \ {0} /\ Slots \subseteq Nat
  BY OptionsTyped DEF IInv, TypeOK, Slots
<1>2. live \subseteq Slots /\ \A i \in live : sources[i].ip \in Ips
  BY DEF IInv, TypeOK, SourceOK, Source
<1>3. Slots \ live # {}
  <2> SUFFICES ASSUME Slots = live PROVE FALSE
    BY <1>2
  <2>1. IsFiniteSet(Slots) /\ Cardinality(Slots) = options.max_sources
    BY <1>1, FS_Interval DEF Slots
  <2>2. /\ IsFiniteSet(Ips \ {ip}) /\ Cardinality(Ips \ {ip}) = Cardinality(Ips) - 1
        /\ Cardinality(Ips) \in Nat
    BY IpsAssumption, FS_RemoveElement, FS_CardinalityType
  <2>3. Cardinality(Ips \ {ip}) < Cardinality(Slots)
    BY <1>1, <2>1, <2>2 DEF Room
  <2> DEFINE f == [i \in Slots |-> sources[i].ip]
  <2>4. f \in [Slots -> Ips \ {ip}]
    BY <1>2
  <2>5. \E i, j \in Slots : i # j /\ f[i] = f[j]
    <3> HIDE DEF f
    <3> QED BY <2>1, <2>2, <2>3, <2>4, FS_PigeonHole
  <2>6. \A i, j \in Slots : sources[i].ip = sources[j].ip => i = j
    BY DEF IInv, SourceTable
  <2>7. QED
    BY <2>5, <2>6
<1>4. Min(Slots \ live) \in Slots \ live
  BY <1>1, <1>3, MinIsLeast
<1>5. QED
  BY <1>3, <1>4 DEF Replaceable

(* What looking a source up does to the table: the entry of the address is   *)
(* the one it had, marked as seen, unless that had expired; the others stay, *)
(* or go, and if there is room only those that have expired.                 *)
LEMMA LookedUp ==
    ASSUME IInv, NEW ip \in Ips
    PROVE  LET found == GetSource(ip)
               x == found.table[found.slot] IN
           /\ \A j \in DOMAIN found.table :
                  j # found.slot => j \in DOMAIN sources /\ found.table[j] = sources[j]
           /\ \/ \E i \in DOMAIN sources : /\ sources[i].ip = ip
                                           /\ x = [sources[i] EXCEPT !.last_seen = now]
              \/ x = NewSource(ip) /\ \A i \in DOMAIN sources : sources[i].ip = ip => i \in Stale
           /\ Room => \A j \in DOMAIN sources \ Stale :
                          sources[j].ip # ip => j \in DOMAIN found.table /\ j # found.slot
<1> DEFINE live == DOMAIN sources \ Stale
           known == {i \in live : sources[i].ip = ip}
           found == GetSource(ip)
<1>1. /\ live \subseteq DOMAIN sources /\ DOMAIN sources \subseteq Slots /\ Stale \subseteq DOMAIN sources
  BY DEF IInv, TypeOK, Stale
<1>2. CASE known # {}
  <2> DEFINE i == Min(known)
             kept == DOMAIN sources \ {j \in Stale : j < i}
             table == [j \in kept |-> IF j = i THEN [sources[i] EXCEPT !.last_seen = now] ELSE sources[j]]
  <2>1. i \in known
    <3>1. known \subseteq Nat
      BY <1>1, OptionsTyped DEF IInv, TypeOK, Slots
    <3> HIDE DEF known
    <3> QED BY <1>2, <3>1, MinIsLeast
  <2>2. i \in kept /\ sources[i].ip = ip /\ live \subseteq kept /\ kept \subseteq DOMAIN sources
    BY <1>1, <2>1
  <2>3. found = [slot |-> i, count |-> source_count - Cardinality(DOMAIN sources \ kept), table |-> table]
    BY <1>2 DEF GetSource
  <2>4. DOMAIN table = kept /\ table[i] = [sources[i] EXCEPT !.last_seen = now]
        /\ \A j \in kept : j # i => table[j] = sources[j]
    <3> HIDE DEF kept, i
    <3> QED BY <2>2
  <2> HIDE DEF kept, i, live, known, table
  <2>5. found.slot = i /\ found.table = table
    BY <2>3
  <2> HIDE DEF found
  <2>6. QED
    BY <2>2, <2>4, <2>5 DEF live, found
<1>3. CASE known = {}
  <2> DEFINE i == Replaceable(live)
             count == source_count - Cardinality(Stale) + (IF i \in live THEN 0 ELSE 1)
             table == [j \in live \cup {i} |-> IF j = i THEN NewSource(ip) ELSE sources[j]]
  <2>1. found = [slot |-> i, count |-> count, table |-> table]
    BY <1>3 DEF GetSource
  <2>2. \A j \in live : sources[j].ip # ip
    BY <1>3
  <2>3. Room => i \notin live
    <3> HIDE DEF live
    <3> QED BY <1>1, <2>2, RoomForOneMore
  <2>4. DOMAIN table = live \cup {i} /\ table[i] = NewSource(ip)
        /\ \A j \in live : j # i => table[j] = sources[j]
    <3> HIDE DEF live, i
    <3> QED OBVIOUS
  <2>5. \A j \in DOMAIN sources : sources[j].ip = ip => j \in Stale
    BY <2>2
  <2> HIDE DEF live, i, count, table
  <2>6. found.slot = i /\ found.table = table
    BY <2>1
  <2> HIDE DEF found
  <2>7. QED
    BY <1>1, <2>3, <2>4, <2>5, <2>6 DEF live, found
<1>4. QED
  BY <1>2, <1>3

(* The types of what an account is computed from.                            *)
LEMMA AccountTyped ==
    ASSUME IInv
    PROVE  /\ now \in Nat /\ Unit \in Nat \ {0}
           /\ \A ip \in Ips : /\ history.accepted[ip] \in Seq(0..now) /\ history.blockEnd[ip] \in Nat
                              /\ history.drops[ip] \in Seq(0..now)
           /\ options.burst["source"] \in Nat /\ options.rate["source"] \in Nat
           /\ options.flood_violations \in Nat \ {0} /\ options.flood_window \in Nat
           /\ options.block_duration \in Nat \ {0} /\ options.source_ttl \in Nat
<1>1. options.burst["source"] \in Nat /\ options.rate["source"] \in Nat
  BY OptionsTyped DEF IInv, TypeOK, Buckets
<1>2. QED
  BY <1>1, UnitAssumption, OptionsTyped DEF IInv, TypeOK, History

LEMMA SourceTyped ==
    ASSUME NEW x, SourceOK(x)
    PROVE  /\ x.buckets["source"].tokens \in Nat /\ x.buckets["source"].updated \in 0..now
           /\ x.buckets["source"].tokens <= options.burst["source"]
           /\ x.last_seen \in 0..now /\ x.violation_started \in 0..now
           /\ x.violations \in Nat /\ x.violations < options.flood_violations
           /\ x.blocked_until \in Nat
<1>1. "source" \in Buckets \ {"global"}
  BY DEF Buckets
<1>2. QED
  BY <1>1 DEF SourceOK, Source

LEMMA DropsTyped ==
    ASSUME NEW d \in Seq(0..now), now \in Nat
    PROVE  Len(d) \in Nat /\ \A j \in 1..Len(d) : d[j] \in 0..now
BY LenProperties, ElementOfSeq

LEMMA ProductTyped ==
    /\ \A i, j \in Nat : i * j \in Nat
    /\ \A r, i, j \in Nat : r * (i - j) \in Int
OBVIOUS

(* Arithmetic of the refill: more time, no fewer tokens.                     *)
LEMMA RefillGrows ==
    ASSUME NEW r \in Nat, NEW m \in Int, NEW n \in Int, m <= n
    PROVE  r * m <= r * n
<1>1. n - m \in Nat
  OBVIOUS
<1>2. r * (n - m) \in Nat
  BY <1>1
<1>3. r * (n - m) = r * n - r * m
  OBVIOUS
<1>4. r * n \in Int /\ r * m \in Int
  OBVIOUS
<1>5. QED
  BY <1>2, <1>3, <1>4

LEMMA RepaidLater ==
    ASSUME now \in Nat, Unit \in Nat, NEW a \in Seq(0..now), NEW rate \in Nat, NEW t \in Nat,
           Repaid(a, rate, t)
    PROVE  Repaid(a, rate, t + 1)
<1> DEFINE u == t + 1
<1>1. u \in Nat /\ t <= u
  OBVIOUS
<1> HIDE DEF u
<1>2. ASSUME NEW i \in 1..Len(a) PROVE (Len(a) - i + 1) * Unit <= rate * (u - a[i])
  <2> DEFINE n == Len(a) - i + 1
             s == a[i]
             used == n * Unit
             before == rate * (t - s)
             after == rate * (u - s)
  <2>1. used <= before
    BY DEF Repaid
  <2>2. n \in Int /\ s \in Nat
    BY TimesTyped
  <2> HIDE DEF n, s
  <2>3. used \in Int
    BY <2>2
  <2>4. t - s \in Int /\ u - s \in Int /\ t - s <= u - s
    BY <1>1, <2>2
  <2>5. before <= after /\ before \in Int /\ after \in Int
    BY <2>4, RefillGrows
  <2> HIDE DEF used, before, after
  <2>6. used <= after
    BY <2>1, <2>3, <2>5
  <2>7. QED
    BY <2>6 DEF used, after, n, s
<1>3. Repaid(a, rate, u)
  BY <1>2 DEF Repaid
<1>4. QED
  BY <1>3 DEF u

(* An entry that expires takes nothing with it that still matters.           *)
LEMMA Expires ==
    ASSUME IInv, Room, NEW a \in Seq(0..now), NEW d \in Seq(0..now), NEW e \in Nat,
           NEW x, SourceOK(x), KnownOK(a, d, e, x), now - x.last_seen > options.source_ttl
    PROVE  UnknownOK(a, d, e)
<1> DEFINE u == x.buckets["source"].updated
           tokens == x.buckets["source"].tokens
           rate == options.rate["source"]
           burst == options.burst["source"]
           ttl == options.source_ttl
<1>1. /\ now \in Nat /\ Unit \in Nat /\ burst \in Nat /\ rate \in Nat /\ ttl \in Nat
      /\ options.flood_window \in Nat /\ options.block_duration \in Nat
      /\ u \in Nat /\ tokens \in Nat /\ x.last_seen \in Nat
  <2>1. /\ now \in Nat /\ Unit \in Nat /\ burst \in Nat /\ rate \in Nat /\ ttl \in Nat
        /\ options.flood_window \in Nat /\ options.block_duration \in Nat
    BY AccountTyped
  <2>2. u \in 0..now /\ tokens \in Nat /\ x.last_seen \in 0..now
    BY SourceTyped
  <2> HIDE DEF u, tokens, rate, burst, ttl
  <2>3. QED
    BY <2>1, <2>2
<1>2. ASSUME NEW i \in 1..Len(a) PROVE (Len(a) - i + 1) * Unit <= rate * (now - a[i])
  <2> DEFINE t == a[i]
             n == Len(a) - i + 1
             used == n * Unit
             paid == rate * (u - t)
             refill == ttl * rate
             due == rate * (u - t + ttl)
             limit == rate * (now - t)
  <2>1. u <= x.last_seen /\ tokens + used <= burst + paid
    BY DEF KnownOK, Paid, Paying
  <2>2. burst <= refill
    BY DEF Room
  <2>3. Len(a) \in Nat /\ t \in Nat
    BY <1>1, TimesTyped
  <2>4. n \in Int
    BY <2>3
  <2> HIDE DEF u, tokens, rate, burst, ttl, t, n
  <2>5. paid + refill = due
    BY <1>1, <2>3
  <2>6. u - t + ttl <= now - t
    <3> DEFINE seen == x.last_seen
    <3>1. seen \in Nat /\ u <= seen /\ now - seen > ttl
      BY <1>1, <2>1 DEF ttl
    <3> HIDE DEF seen
    <3>2. QED
      BY <1>1, <2>3, <3>1
  <2>7. due <= limit
    BY <1>1, <2>3, <2>6, RefillGrows
  <2>8. used \in Int /\ paid \in Int /\ refill \in Int /\ due \in Int /\ limit \in Int
    BY <1>1, <2>3, <2>4
  <2> HIDE DEF used, paid, refill, due, limit
  <2>9. used <= limit
    BY <1>1, <2>1, <2>2, <2>5, <2>7, <2>8
  <2>10. QED
    BY <2>9 DEF used, limit, n, t, rate
<1>3. \A j \in 1..Len(d) : d[j] + options.flood_window < now
  <2>1. \A j \in 1..Len(d) : d[j] <= x.last_seen /\ d[j] \in Nat
    <3>1. \A j \in 1..Len(d) : d[j] \in 0..now
      BY <1>1, DropsTyped
    <3>2. \A j \in 1..Len(d) : d[j] <= x.last_seen
      BY DEF KnownOK, Spaced
    <3>3. now \in Nat
      BY <1>1
    <3>4. \A v \in 0..now : v \in Nat
      BY <3>3
    <3>5. QED
      BY <3>1, <3>2, <3>4
  <2>2. options.flood_window <= ttl
    BY DEF Room
  <2>3. ASSUME NEW j \in 1..Len(d) PROVE d[j] + options.flood_window < now
    <3>1. d[j] <= x.last_seen /\ d[j] \in Nat
      BY <2>1
    <3>2. now - x.last_seen > ttl
      OBVIOUS
    <3> DEFINE v == d[j]
               window == options.flood_window
               seen == x.last_seen
    <3>3. v \in Nat /\ window \in Nat /\ seen \in Nat /\ v <= seen /\ window <= ttl
      BY <1>1, <2>2, <3>1
    <3>a. now \in Nat /\ ttl \in Nat /\ now - seen > ttl
      BY <1>1, <3>2
    <3> HIDE DEF ttl, v, window, seen
    <3>4. v + window < now
      BY <3>3, <3>a
    <3>5. QED
      BY <3>4 DEF v, window
  <2>4. QED
    BY <2>3
<1>4. e <= now
  <2>1. e > now => e <= x.last_seen + options.block_duration
    BY DEF KnownOK, Keeps
  <2>2. options.block_duration <= ttl
    BY DEF Room
  <2> DEFINE duration == options.block_duration
             seen == x.last_seen
  <2>3. /\ now \in Nat /\ ttl \in Nat /\ seen \in Nat /\ duration \in Nat /\ duration <= ttl
        /\ now - seen > ttl /\ (e > now => e <= seen + duration)
    BY <1>1, <2>1, <2>2
  <2> HIDE DEF ttl, seen, duration
  <2>4. QED
    BY <2>3
<1>5. QED
  BY <1>2, <1>3, <1>4 DEF UnknownOK, Repaid, KnownOK, Paid

(* A new entry begins with a full bucket and without violations.             *)
LEMMA Appears ==
    ASSUME IInv, NEW ip \in Ips, NEW a \in Seq(0..now), NEW d \in Seq(0..now), NEW e \in Nat,
           Room => UnknownOK(a, d, e)
    PROVE  KnownOK(a, d, e, NewSource(ip))
<1> DEFINE x == NewSource(ip)
<1>1. /\ x.last_seen = now /\ x.violations = 0 /\ x.violation_started = 0 /\ x.blocked_until = 0
      /\ x.buckets["source"].tokens = options.burst["source"] /\ x.buckets["source"].updated = now
  BY DEF NewSource, Buckets
<1> HIDE DEF x
<1>2. /\ now \in Nat /\ Unit \in Nat /\ options.burst["source"] \in Nat
      /\ options.rate["source"] \in Nat
  BY AccountTyped
<1>3. Paid(a, x)
  <2> SUFFICES ASSUME Room, NEW i \in 1..Len(a)
               PROVE  options.burst["source"] + (Len(a) - i + 1) * Unit
                      <= options.burst["source"] + options.rate["source"] * (now - a[i])
    BY <1>1, <1>2 DEF Paid, Paying, UnknownOK
  <2> DEFINE burst == options.burst["source"]
             used == (Len(a) - i + 1) * Unit
             due == options.rate["source"] * (now - a[i])
  <2>1. used <= due
    BY DEF UnknownOK, Repaid
  <2>2. used \in Int /\ due \in Int
    <3>1. Len(a) - i + 1 \in Int /\ now - a[i] \in Int
      <4>1. Len(a) \in Nat /\ a[i] \in Nat
        BY <1>2, TimesTyped
      <4>2. QED
        BY <1>2, <4>1
    <3>2. QED
      BY <1>2, <3>1
  <2>3. burst \in Nat
    BY <1>2
  <2> HIDE DEF burst, used, due
  <2>4. burst + used <= burst + due
    BY <2>1, <2>2, <2>3
  <2>5. QED
    BY <2>4 DEF burst, used, due
<1>4. Counts(d, x)
  BY <1>1 DEF Counts
<1>5. Spaced(d, x)
  <2>1. \A j \in 1..Len(d) : d[j] <= now
    BY <1>2, DropsTyped
  <2>2. QED
    BY <1>1, <2>1 DEF Spaced, UnknownOK
<1>6. Keeps(e, x)
  BY <1>2 DEF Keeps, UnknownOK
<1>7. QED
  BY <1>3, <1>4, <1>5, <1>6 DEF KnownOK, x

(* Being seen does no harm to an entry.                                      *)
LEMMA Seen ==
    ASSUME IInv, NEW a \in Seq(0..now), NEW d \in Seq(0..now), NEW e \in Nat,
           NEW x, SourceOK(x), KnownOK(a, d, e, x)
    PROVE  KnownOK(a, d, e, [x EXCEPT !.last_seen = now])
<1> DEFINE y == [x EXCEPT !.last_seen = now]
<1>1. /\ y.last_seen = now /\ y.violations = x.violations /\ y.buckets = x.buckets
      /\ y.violation_started = x.violation_started /\ y.blocked_until = x.blocked_until
  BY DEF SourceOK, Source
<1> HIDE DEF y
<1>2. /\ now \in Nat /\ x.last_seen \in Nat /\ x.last_seen <= now
      /\ x.buckets["source"].updated \in Nat /\ options.block_duration \in Nat
      /\ \A j \in 1..Len(d) : d[j] <= now
  <2>1. now \in Nat /\ options.block_duration \in Nat
    BY AccountTyped
  <2>2. x.last_seen \in 0..now /\ x.buckets["source"].updated \in 0..now
    BY SourceTyped
  <2>3. \A j \in 1..Len(d) : d[j] \in 0..now
    BY <2>1, DropsTyped
  <2>4. QED
    BY <2>1, <2>2, <2>3
<1>3. Paid(a, y)
  BY <1>1, <1>2 DEF KnownOK, Paid
<1>4. Counts(d, y) /\ Spaced(d, y)
  BY <1>1, <1>2 DEF KnownOK, Counts, Spaced
<1>5. Keeps(e, y)
  BY <1>1, <1>2 DEF KnownOK, Keeps
<1>6. QED
  BY <1>3, <1>4, <1>5 DEF KnownOK, y

(* The account depends on the entry's bucket, times and violations only.     *)
LEMMA AccountOfSame ==
    ASSUME NEW a, NEW d, NEW e, NEW x, NEW y, KnownOK(a, d, e, x),
           y.buckets = x.buckets, y.last_seen = x.last_seen, y.violations = x.violations,
           y.violation_started = x.violation_started, y.blocked_until = x.blocked_until
    PROVE  KnownOK(a, d, e, y)
BY DEF KnownOK, Paid, Counts, Spaced, Keeps

(* The entry that a lookup yields is in order.                               *)
LEMMA FoundKnown ==
    ASSUME IInv, SInv, NEW ip \in Ips
    PROVE  LET found == GetSource(ip) IN
           KnownOK(history.accepted[ip], history.drops[ip], history.blockEnd[ip],
                   found.table[found.slot])
<1> DEFINE found == GetSource(ip)
           x == found.table[found.slot]
           a == history.accepted[ip]
           d == history.drops[ip]
           e == history.blockEnd[ip]
<1>1. a \in Seq(0..now) /\ d \in Seq(0..now) /\ e \in Nat
  BY AccountTyped
<1>2. AccountOK(history, sources, ip)
  BY DEF SInv
<1>3. \A i \in DOMAIN sources : SourceOK(sources[i])
  BY DEF IInv, TypeOK
<1>4. ASSUME NEW i \in DOMAIN sources, sources[i].ip = ip, x = [sources[i] EXCEPT !.last_seen = now]
      PROVE  KnownOK(a, d, e, x)
  <2>1. SourceOK(sources[i]) /\ KnownOK(a, d, e, sources[i])
    BY <1>2, <1>3, <1>4 DEF AccountOK
  <2> HIDE DEF a, d, e, x
  <2>2. QED
    BY <1>1, <1>4, <2>1, Seen
<1>5. ASSUME x = NewSource(ip), \A i \in DOMAIN sources : sources[i].ip = ip => i \in Stale
      PROVE  KnownOK(a, d, e, x)
  <2>1. ASSUME Room PROVE UnknownOK(a, d, e)
    <3>1. CASE \A i \in DOMAIN sources : sources[i].ip # ip
      BY <1>2, <2>1, <3>1 DEF AccountOK
    <3>2. ASSUME NEW i \in DOMAIN sources, sources[i].ip = ip PROVE UnknownOK(a, d, e)
      <4>1. SourceOK(sources[i]) /\ KnownOK(a, d, e, sources[i])
        BY <1>2, <1>3, <3>2 DEF AccountOK
      <4>2. now - sources[i].last_seen > options.source_ttl
        BY <1>5, <3>2 DEF Stale
      <4> HIDE DEF a, d, e, x
      <4>3. QED
        BY <1>1, <2>1, <4>1, <4>2, Expires
    <3>3. QED
      BY <3>1, <3>2
  <2> HIDE DEF a, d, e, x
  <2>2. QED
    BY <1>1, <1>5, <2>1, Appears
<1>6. QED
  <2>1. \/ \E i \in DOMAIN sources : sources[i].ip = ip /\ x = [sources[i] EXCEPT !.last_seen = now]
        \/ x = NewSource(ip) /\ \A i \in DOMAIN sources : sources[i].ip = ip => i \in Stale
    BY LookedUp
  <2> HIDE DEF a, d, e, x
  <2>2. KnownOK(a, d, e, x)
    BY <1>4, <1>5, <2>1
  <2>3. QED
    BY <2>2 DEF a, d, e, x, found

(* A lookup and a new entry for the address keep all accounts, if the        *)
(* history h changes only for this address, and with the new entry.          *)
LEMMA TableStep ==
    ASSUME IInv, SInv, NEW ip \in Ips, NEW y, y.ip = ip, NEW h,
           \A o \in Ips \ {ip} : /\ h.accepted[o] = history.accepted[o]
                                 /\ h.drops[o] = history.drops[o]
                                 /\ h.blockEnd[o] = history.blockEnd[o],
           KnownOK(h.accepted[ip], h.drops[ip], h.blockEnd[ip], y), DropsOK(h.drops[ip]),
           NEW o \in Ips
    PROVE  LET found == GetSource(ip)
           IN  AccountOK(h, [found.table EXCEPT ![found.slot] = y], o)
<1> DEFINE found == GetSource(ip)
           table == [found.table EXCEPT ![found.slot] = y]
<1>1. /\ found.slot \in DOMAIN found.table /\ found.table[found.slot].ip = ip
      /\ \A i, j \in DOMAIN found.table : found.table[i].ip = found.table[j].ip => i = j
  BY GetSourceOK DEF TableOK
<1>2. /\ \A j \in DOMAIN found.table :
             j # found.slot => j \in DOMAIN sources /\ found.table[j] = sources[j]
      /\ Room => \A j \in DOMAIN sources \ Stale :
                     sources[j].ip # ip => j \in DOMAIN found.table /\ j # found.slot
  BY LookedUp
<1> HIDE DEF found
<1>3. /\ DOMAIN table = DOMAIN found.table /\ table[found.slot] = y
      /\ \A j \in DOMAIN found.table : j # found.slot => table[j] = found.table[j]
  BY <1>1
<1> HIDE DEF table
<1>4. CASE o = ip
  <2>1. \A j \in DOMAIN table : table[j].ip = ip => table[j] = y
    BY <1>1, <1>3
  <2>2. ~ \A j \in DOMAIN table : table[j].ip # ip
    BY <1>1, <1>3
  <2>3. AccountOK(h, table, ip)
    BY <2>1, <2>2 DEF AccountOK
  <2>4. QED
    BY <1>4, <2>3 DEF table, found
<1>5. CASE o # ip
  <2> DEFINE a == history.accepted[o]
             d == history.drops[o]
             e == history.blockEnd[o]
  <2>1. h.accepted[o] = a /\ h.drops[o] = d /\ h.blockEnd[o] = e
    BY <1>5
  <2>2. AccountOK(history, sources, o)
    BY DEF SInv
  <2>3. ASSUME NEW j \in DOMAIN table, table[j].ip = o PROVE KnownOK(a, d, e, table[j])
    <3>1. j # found.slot /\ j \in DOMAIN found.table
      BY <1>3, <1>5, <2>3
    <3>2. j \in DOMAIN sources /\ table[j] = sources[j]
      BY <1>2, <1>3, <3>1
    <3>3. QED
      BY <2>2, <2>3, <3>2 DEF AccountOK
  <2>4. ASSUME Room, \A j \in DOMAIN table : table[j].ip # o PROVE UnknownOK(a, d, e)
    <3>1. CASE \A i \in DOMAIN sources : sources[i].ip # o
      BY <2>2, <2>4, <3>1 DEF AccountOK
    <3>2. ASSUME NEW i \in DOMAIN sources, sources[i].ip = o PROVE UnknownOK(a, d, e)
      <4>1. SourceOK(sources[i]) /\ KnownOK(a, d, e, sources[i])
        BY <2>2, <3>2 DEF AccountOK, IInv, TypeOK
      <4>2. i \in Stale
        <5> SUFFICES ASSUME i \notin Stale PROVE FALSE
          OBVIOUS
        <5>1. i \in DOMAIN found.table /\ i # found.slot
          BY <1>2, <1>5, <2>4, <3>2
        <5>2. table[i] = sources[i] /\ i \in DOMAIN table
          BY <1>2, <1>3, <5>1
        <5>3. QED
          BY <2>4, <3>2, <5>2
      <4>3. now - sources[i].last_seen > options.source_ttl
        BY <4>2 DEF Stale
      <4>4. a \in Seq(0..now) /\ d \in Seq(0..now) /\ e \in Nat
        BY AccountTyped
      <4> HIDE DEF a, d, e
      <4>5. QED
        BY <2>4, <4>1, <4>3, <4>4, Expires
    <3>3. QED
      BY <3>1, <3>2
  <2>5. DropsOK(d)
    BY <2>2 DEF AccountOK
  <2> HIDE DEF a, d, e
  <2>6. AccountOK(h, table, o)
    BY <2>1, <2>3, <2>4, <2>5 DEF AccountOK
  <2>7. QED
    BY <2>6 DEF table, found
<1>6. QED
  BY <1>4, <1>5

(* With unchanged options and clock the accounts may be judged before the    *)
(* step.                                                                     *)
LEMMA AccountsLater ==
    ASSUME UNCHANGED <<options, now>>, \A ip \in Ips : AccountOK(history', sources', ip)
    PROVE  SInv'
BY DEF SInv, AccountOK, KnownOK, UnknownOK, Repaid, DropsOK, Paid, Paying, Within, Counts, Spaced, Keeps, Room

-----------------------------------------------------------------------------
(* The steps of an account.                                                  *)

LEMMA CountedSame ==
    ASSUME NEW x, SourceOK(x), NEW v \in Verdicts
    PROVE  LET y == Counted(x, v) IN
           /\ y.ip = x.ip /\ y.buckets = x.buckets /\ y.last_seen = x.last_seen
           /\ y.violations = x.violations /\ y.violation_started = x.violation_started
           /\ y.blocked_until = x.blocked_until
BY DEF Counted, SourceOK, Source

(* Whoever is looked up has just been seen.                                  *)
LEMMA FoundSeen ==
    ASSUME IInv, NEW ip \in Ips
    PROVE  LET found == GetSource(ip)
               x == found.table[found.slot]
           IN  SourceOK(x) /\ x.ip = ip /\ x.last_seen = now
<1> DEFINE found == GetSource(ip)
           x == found.table[found.slot]
<1>1. SourceOK(x) /\ x.ip = ip
  BY GetSourceOK DEF TableOK
<1>2. ASSUME NEW i \in DOMAIN sources, x = [sources[i] EXCEPT !.last_seen = now]
      PROVE  x.last_seen = now
  <2> HIDE DEF x
  <2>1. QED
    BY <1>2 DEF IInv, TypeOK, SourceOK, Source
<1>3. x = NewSource(ip) => x.last_seen = now
  <2> HIDE DEF x
  <2>1. QED
    BY DEF NewSource
<1>4. \/ \E i \in DOMAIN sources : x = [sources[i] EXCEPT !.last_seen = now]
      \/ x = NewSource(ip)
  BY LookedUp
<1> HIDE DEF x
<1>5. x.last_seen = now
  BY <1>2, <1>3, <1>4
<1>6. QED
  BY <1>1, <1>5 DEF x

(* What asking the buckets does to the one of the source: it is refilled up  *)
(* to now and pays if the datagram passes; or it is not asked.               *)
LEMMA TakeAllSource ==
    ASSUME IInv, NEW x, SourceOK(x), NEW kind \in Kinds
    PROVE  LET taken == TakeAll(x, kind)
               old == x.buckets["source"]
               new == taken.buckets["source"] IN
           /\ taken.ok \in BOOLEAN
           /\ \/ ~taken.ok /\ new = old
              \/ /\ new.updated = now /\ new.tokens \in Nat
                 /\ new.tokens + (IF taken.ok THEN Unit ELSE 0)
                    <= old.tokens + (now - old.updated) * options.rate["source"]
                 /\ new.tokens + (IF taken.ok THEN Unit ELSE 0) <= options.burst["source"]
<1> DEFINE ask(b, bucket) == Take(bucket, options.rate[b], options.burst[b])
           g == ask("global", global)
           s == ask("source", x.buckets["source"])
           limited == kind \in {"who_is", "write"}
           k == IF limited THEN ask(kind, x.buckets[kind]) ELSE s
           taken == TakeAll(x, kind)
           old == x.buckets["source"]
           refill == (now - old.updated) * options.rate["source"]
<1>1. "source" \in DOMAIN x.buckets /\ kind # "source"
  BY DEF SourceOK, Source, Buckets, Kinds
<1>2. taken.ok = (g.ok /\ s.ok /\ k.ok)
      /\ taken.buckets["source"] = IF g.ok THEN s.bucket ELSE old
  <2> HIDE DEF g, s, k
  <2> QED BY <1>1 DEF TakeAll, g, s, k
<1>3. /\ s.ok \in BOOLEAN /\ s.bucket \in [tokens : 0..options.burst["source"], updated : 0..now]
      /\ s.bucket.updated = now
      /\ s.bucket.tokens + (IF s.ok THEN Unit ELSE 0) <= old.tokens + refill
      /\ s.bucket.tokens + (IF s.ok THEN Unit ELSE 0) <= options.burst["source"]
  <2> DEFINE rate == options.rate["source"]
             burst == options.burst["source"]
  <2>1. now \in Nat /\ rate \in Nat /\ burst \in Nat /\ old \in [tokens : Nat, updated : 0..now]
    BY AccountTyped DEF SourceOK, Source, Buckets
  <2>2. s = Take(old, rate, burst) /\ refill = (now - old.updated) * rate
    OBVIOUS
  <2> HIDE DEF s, old, refill, rate, burst
  <2>3. /\ s.ok \in BOOLEAN /\ s.bucket \in [tokens : 0..burst, updated : 0..now]
        /\ s.bucket.updated = now
        /\ s.bucket.tokens + (IF s.ok THEN Unit ELSE 0) <= old.tokens + (now - old.updated) * rate
        /\ s.bucket.tokens + (IF s.ok THEN Unit ELSE 0) <= burst
    <3> DEFINE t == Take(old, rate, burst)
    <3>1. /\ t.ok \in BOOLEAN /\ t.bucket \in [tokens : 0..burst, updated : 0..now]
          /\ t.bucket.updated = now
          /\ t.bucket.tokens + (IF t.ok THEN Unit ELSE 0) <= old.tokens + (now - old.updated) * rate
          /\ t.bucket.tokens + (IF t.ok THEN Unit ELSE 0) <= burst
      BY <2>1, TakeBounded
    <3>2. s = t
      BY <2>2
    <3> HIDE DEF t
    <3>3. QED
      BY <3>1, <3>2
  <2>4. QED
    BY <2>2, <2>3 DEF burst
<1>4. taken.ok \in BOOLEAN
  BY TakeAllOK DEF IInv
<1>5. options.burst["source"] \in Nat /\ Unit \in Nat /\ old.tokens \in Nat /\ refill \in Int
  <2>1. /\ options.burst["source"] \in Nat /\ options.rate["source"] \in Nat /\ Unit \in Nat
        /\ now \in Nat /\ old.tokens \in Nat /\ old.updated \in Nat
    BY AccountTyped, SourceTyped
  <2> HIDE DEF old
  <2>2. QED
    BY <2>1
<1> HIDE DEF g, s, k, taken, old, refill
<1>6. s.bucket.tokens \in Nat
  BY <1>3, <1>5
<1>7. CASE ~g.ok
  BY <1>2, <1>4, <1>7 DEF taken, old
<1>8. CASE g.ok
  <2>1. taken.buckets["source"] = s.bucket /\ (taken.ok => s.ok)
    BY <1>2, <1>8
  <2>2. /\ s.bucket.tokens + (IF taken.ok THEN Unit ELSE 0) <= old.tokens + refill
        /\ s.bucket.tokens + (IF taken.ok THEN Unit ELSE 0) <= options.burst["source"]
    BY <1>3, <1>4, <1>5, <1>6, <2>1
  <2>3. QED
    BY <1>3, <1>4, <1>6, <2>1, <2>2 DEF taken, old, refill
<1>9. QED
  BY <1>7, <1>8

(* A datagram that meets the limits is paid for if it passes.                *)
LEMMA Charged ==
    ASSUME IInv, NEW a \in Seq(0..now), NEW d, NEW e, NEW x, SourceOK(x),
           x.last_seen = now, KnownOK(a, d, e, x), NEW kind \in Kinds
    PROVE  LET taken == TakeAll(x, kind)
               times == IF taken.ok THEN Append(a, now) ELSE a
           IN  KnownOK(times, d, e, [x EXCEPT !.buckets = taken.buckets])
<1> DEFINE taken == TakeAll(x, kind)
           old == x.buckets["source"]
           new == taken.buckets["source"]
           y == [x EXCEPT !.buckets = taken.buckets]
           times == IF taken.ok THEN Append(a, now) ELSE a
           left == IF taken.ok THEN Unit ELSE 0
<1>1. /\ taken.ok \in BOOLEAN
      /\ \/ ~taken.ok /\ new = old
         \/ /\ new.updated = now /\ new.tokens \in Nat
            /\ new.tokens + left <= old.tokens + (now - old.updated) * options.rate["source"]
            /\ new.tokens + left <= options.burst["source"]
  BY TakeAllSource
<1> HIDE DEF taken
<1>2. /\ y.buckets["source"] = new /\ y.last_seen = now /\ y.violations = x.violations
      /\ y.violation_started = x.violation_started /\ y.blocked_until = x.blocked_until
  BY DEF SourceOK, Source
<1>3. /\ now \in Nat /\ Unit \in Nat
      /\ options.burst["source"] \in Nat /\ options.rate["source"] \in Nat
      /\ old.tokens \in Nat /\ old.updated \in Nat /\ old.updated <= now
  <2>1. now \in Nat /\ old.tokens \in Nat /\ old.updated \in 0..now
    BY AccountTyped, SourceTyped
  <2> HIDE DEF old
  <2>2. QED
    BY <2>1, AccountTyped
<1> HIDE DEF y
<1>4. Counts(d, y) /\ Spaced(d, y) /\ Keeps(e, y)
  BY <1>2 DEF KnownOK, Counts, Spaced, Keeps
<1>5. Room => Paying(a, "source", old) /\ Within(a, "source")
  BY DEF KnownOK, Paid
<1> HIDE DEF old, new
<1>6. Room => Paying(times, "source", new) /\ Within(times, "source")
  <2>1. CASE ~taken.ok /\ new = old
    BY <1>5, <2>1
  <2>2. CASE /\ new.updated = now /\ new.tokens \in Nat
             /\ new.tokens + left <= old.tokens + (now - old.updated) * options.rate["source"]
             /\ new.tokens + left <= options.burst["source"]
    <3>1. CASE taken.ok
      <4>1. times = Append(a, now) /\ left = Unit
        BY <3>1
      <4> HIDE DEF times, left
      <4>2. QED
        BY <1>3, <1>5, <2>2, <4>1, PaysOne
    <3>2. CASE ~taken.ok
      <4>1. times = a /\ left = 0
        BY <3>2
      <4> HIDE DEF times, left
      <4>2. new.tokens <= old.tokens + (now - old.updated) * options.rate["source"]
        BY <2>2, <4>1
      <4>3. QED
        BY <1>3, <1>5, <2>2, <4>1, <4>2, PaysNothing
    <3>3. QED
      BY <1>1, <3>1, <3>2
  <2>3. QED
    BY <1>1, <2>1, <2>2
<1>7. new.updated <= now
  BY <1>1, <1>3
<1> HIDE DEF times
<1>8. Paid(times, y)
  BY <1>2, <1>6, <1>7 DEF Paid
<1>9. QED
  BY <1>4, <1>8 DEF KnownOK, y, times, taken

\* The violations that still count when another one happens.
Before(x) == IF now - x.violation_started > options.flood_window THEN 0 ELSE x.violations

(* A violation blocks the source, or is counted in the window that runs, or  *)
(* begins one.                                                               *)
LEMMA ViolationCases ==
    ASSUME NEW x, SourceOK(x)
    PROVE  LET y == Violation(x) IN
           /\ y.ip = x.ip /\ y.buckets = x.buckets /\ y.last_seen = x.last_seen
           /\ \/ /\ Before(x) + 1 >= options.flood_violations
                 /\ y.violations = 0 /\ y.violation_started = now
                 /\ y.blocked_until = now + options.block_duration
              \/ /\ ~(Before(x) + 1 >= options.flood_violations)
                 /\ y.violations = Before(x) + 1
                 /\ y.violation_started = IF Before(x) = 0 THEN now ELSE x.violation_started
                 /\ y.blocked_until = x.blocked_until
<1> DEFINE full == Before(x) + 1 >= options.flood_violations
           started == IF Before(x) = 0 THEN now ELSE x.violation_started
           blocked == [x EXCEPT !.violations = 0, !.violation_started = now,
                                !.blocked_until = now + options.block_duration]
           counted == [x EXCEPT !.violations = Before(x) + 1, !.violation_started = started]
<1>1. Violation(x) = IF full THEN blocked ELSE counted
  BY DEF Violation, Before
<1>2. /\ blocked.ip = x.ip /\ blocked.buckets = x.buckets /\ blocked.last_seen = x.last_seen
      /\ blocked.violations = 0 /\ blocked.violation_started = now
      /\ blocked.blocked_until = now + options.block_duration
  BY DEF SourceOK, Source
<1>3. /\ counted.ip = x.ip /\ counted.buckets = x.buckets /\ counted.last_seen = x.last_seen
      /\ counted.violations = Before(x) + 1 /\ counted.violation_started = started
      /\ counted.blocked_until = x.blocked_until
  <2> HIDE DEF started
  <2>1. QED
    BY DEF SourceOK, Source
<1> HIDE DEF full, blocked, counted
<1>4. CASE full
  BY <1>1, <1>2, <1>4 DEF full
<1>5. CASE ~full
  BY <1>1, <1>3, <1>5 DEF full
<1>6. QED
  BY <1>4, <1>5

(* The latest drops are the end of all drops.                                *)
LEMMA LatestIsEnd ==
    ASSUME IInv, NEW s \in Seq(0..now)
    PROVE  LET keep == 2 * options.flood_violations - 1
               l == Latest(s) IN
           /\ Len(l) = IF Len(s) <= keep THEN Len(s) ELSE keep
           /\ \A j \in 1..Len(l) : l[j] = s[Len(s) - Len(l) + j]
<1> DEFINE keep == 2 * options.flood_violations - 1
           l == Latest(s)
<1>1. keep \in Nat \ {0} /\ Len(s) \in Nat
  <2>1. options.flood_violations \in Nat \ {0}
    BY AccountTyped
  <2>2. Len(s) \in Nat
    BY LenProperties
  <2>3. QED
    BY <2>1, <2>2
<1>2. l = IF Len(s) <= keep THEN s ELSE SubSeq(s, Len(s) - keep + 1, Len(s))
  BY DEF Latest
<1> HIDE DEF l, keep
<1>3. CASE Len(s) <= keep
  <2>1. l = s
    BY <1>2, <1>3
  <2>2. \A j \in 1..Len(s) : Len(s) - Len(s) + j = j
    BY <1>1
  <2>3. QED
    BY <1>3, <2>1, <2>2 DEF l, keep
<1>4. CASE ~(Len(s) <= keep)
  <2> DEFINE m == Len(s) - keep + 1
             sub == SubSeq(s, m, Len(s))
  <2>1. l = sub
    BY <1>2, <1>4
  <2>2. m \in 1..Len(s) + 1 /\ Len(s) \in m - 1..Len(s) /\ Len(s) - m + 1 = keep
    BY <1>1, <1>4
  <2> HIDE DEF m, sub
  <2>3. Len(sub) = keep /\ \A j \in 1..keep : sub[j] = s[m + j - 1]
    BY <2>2, SubSeqProperties DEF sub
  <2>4. \A j \in 1..keep : m + j - 1 = Len(s) - keep + j
    BY <1>1 DEF m
  <2>5. QED
    BY <1>4, <2>1, <2>3, <2>4 DEF l, keep
<1>5. QED
  BY <1>3, <1>4

(* A drop that does not block is counted, and no flood goes by.              *)
LEMMA OneMoreDrop ==
    ASSUME IInv, NEW a \in Seq(0..now), NEW d \in Seq(0..now), NEW e \in Nat,
           NEW x, SourceOK(x), x.last_seen = now, KnownOK(a, d, e, x), DropsOK(d),
           ~(Before(x) + 1 >= options.flood_violations)
    PROVE  LET l == Latest(Append(d, now))
           IN  KnownOK(a, l, e, Violation(x)) /\ DropsOK(l)
<1> DEFINE y == Violation(x)
           dd == Append(d, now)
           l == Latest(dd)
           L == Len(d)
           M == Len(l)
           b == Before(x)
           n == options.flood_violations
           window == options.flood_window
           keep == 2 * n - 1
<1>1. /\ y.buckets = x.buckets /\ y.last_seen = now /\ y.violations = b + 1
      /\ y.violation_started = IF b = 0 THEN now ELSE x.violation_started
      /\ y.blocked_until = x.blocked_until
  BY ViolationCases
<1>2. /\ now \in Nat /\ n \in Nat \ {0} /\ window \in Nat /\ x.violations \in Nat
      /\ x.violations < n /\ x.violation_started \in 0..now /\ L \in Nat
      /\ \A j \in 1..L : d[j] \in 0..now
  BY AccountTyped, SourceTyped, DropsTyped
<1>3. b \in Nat /\ b + 1 < n /\ b \in {0, x.violations}
  BY <1>2 DEF Before
<1>4. dd \in Seq(0..now) /\ Len(dd) = L + 1 /\ dd[L + 1] = now /\ \A j \in 1..L : dd[j] = d[j]
  <2>1. now \in 0..now
    BY <1>2
  <2>2. QED
    BY <2>1, AppendProperties
<1>5. M = (IF L + 1 <= keep THEN L + 1 ELSE keep) /\ \A j \in 1..M : l[j] = dd[L + 1 - M + j]
  <2> HIDE DEF dd
  <2> DEFINE N == Len(dd)
  <2>1. M = (IF N <= keep THEN N ELSE keep) /\ \A j \in 1..M : l[j] = dd[N - M + j]
    BY <1>4, LatestIsEnd
  <2>2. N = L + 1 /\ L \in Nat /\ N \in Nat /\ keep \in Nat
    BY <1>2, <1>4
  <2> HIDE DEF N, l, L, M, keep
  <2>3. M = (IF L + 1 <= keep THEN L + 1 ELSE keep) /\ M \in Nat
    BY <2>1, <2>2
  <2>4. \A j \in 1..M : N - M + j = L + 1 - M + j
    BY <2>2, <2>3
  <2>5. QED
    BY <2>1, <2>3, <2>4
<1>6. b > 0 => L >= b /\ d[L - b + 1] = x.violation_started
  BY <1>3 DEF KnownOK, Counts
<1>7. \A j, k \in 1..L : j <= k => d[j] <= d[k]
  BY DEF DropsOK
<1>8. Room => /\ x.violations = 0 => \A j \in 1..L : d[j] + window < now
              /\ x.violations > 0 => \A j \in 1..L : j <= L - x.violations - n + 2
                                                     => d[j] + window < x.violation_started
  BY DEF KnownOK, Spaced
<1>9. x.violations > 0 => L >= x.violations /\ d[L - x.violations + 1] = x.violation_started
  BY DEF KnownOK, Counts
<1>10. b # x.violations => now - x.violation_started > window
  BY DEF Before
<1>11. Paid(a, y) /\ Keeps(e, y)
  BY <1>1 DEF KnownOK, Paid, Keeps
<1> HIDE DEF y, dd, l, L, b, n, window
<1>12. M \in Nat /\ M >= b + 1 /\ M <= L + 1 /\ M <= keep
  <2>1. keep = 2 * n - 1
    OBVIOUS
  <2> HIDE DEF keep, M
  <2>2. QED
    BY <1>2, <1>3, <1>5, <1>6, <2>1
<1> HIDE DEF M
<1>13. Counts(l, y)
  <2>1. l[M - b] = dd[L + 1 - b]
    <3>1. M - b \in 1..M /\ L + 1 - M + (M - b) = L + 1 - b
      BY <1>2, <1>3, <1>12
    <3>2. QED
      BY <1>5, <3>1
  <2>2. CASE b = 0
    BY <1>1, <1>2, <1>4, <1>12, <2>1, <2>2 DEF Counts, M
  <2>3. CASE b > 0
    <3>1. L + 1 - b \in 1..L /\ L + 1 - b = L - b + 1
      BY <1>2, <1>3, <1>6, <2>3
    <3>2. l[M - b] = x.violation_started
      BY <1>4, <1>6, <2>1, <2>3, <3>1
    <3>3. M - (b + 1) + 1 = M - b
      BY <1>3, <1>12
    <3>4. QED
      BY <1>1, <1>12, <2>3, <3>2, <3>3 DEF Counts, M
  <2>4. QED
    BY <1>3, <2>2, <2>3
<1>14. \A j \in 1..L + 1 : dd[j] \in 0..now
  <2> SUFFICES ASSUME NEW j \in 1..L + 1 PROVE dd[j] \in 0..now
    OBVIOUS
  <2>1. j \in 1..L \/ j = L + 1
    BY <1>2
  <2>2. QED
    BY <1>2, <1>4, <2>1
<1>15. \A j \in 1..M : L + 1 - M + j \in 1..L + 1
  BY <1>2, <1>12
<1>16. y.violation_started \in 0..now
  BY <1>1, <1>2
<1>17. ASSUME Room, NEW j \in 1..M, j <= M - (b + 1) - n + 2
       PROVE  l[j] + window < y.violation_started
  <2> DEFINE i == L + 1 - M + j
  <2>1. i \in 1..L /\ i <= L - b - n + 2
    BY <1>2, <1>3, <1>12, <1>17
  <2>2. l[j] = d[i]
    BY <1>4, <1>5, <2>1
  <2> HIDE DEF i
  <2>3. CASE b > 0
    <3>1. b = x.violations /\ x.violations > 0
      BY <1>3, <2>3
    <3>2. i <= L - x.violations - n + 2
      BY <2>1, <3>1
    <3>3. d[i] + window < x.violation_started
      BY <1>8, <1>17, <2>1, <3>1, <3>2
    <3>4. y.violation_started = x.violation_started
      BY <1>1, <2>3
    <3>5. QED
      BY <2>2, <3>3, <3>4
  <2>4. CASE b = 0
    <3>1. d[i] + window < now
      <4>1. CASE x.violations = 0
        BY <1>8, <1>17, <2>1, <4>1
      <4>2. CASE x.violations # 0
        <5> DEFINE k == L - x.violations + 1
        <5>1. now - x.violation_started > window /\ d[k] = x.violation_started
          BY <1>2, <1>9, <1>10, <2>4, <4>2
        <5>2. k \in 1..L /\ i <= k
          <6> DEFINE v == x.violations
          <6>1. v \in Nat \ {0} /\ v < n /\ v <= L /\ L \in Nat /\ n \in Nat
            BY <1>2, <1>9, <4>2
          <6>2. i \in 1..L /\ i <= L - n + 2
            BY <1>2, <2>1, <2>4
          <6> HIDE DEF v
          <6>3. L - v + 1 \in 1..L /\ i <= L - v + 1
            BY <6>1, <6>2
          <6>4. QED
            BY <6>3 DEF v
        <5> HIDE DEF k
        <5>3. d[i] <= d[k] /\ d[i] \in Nat /\ d[k] \in Nat
          BY <1>2, <1>7, <2>1, <5>2
        <5>4. QED
          BY <1>2, <5>1, <5>3
      <4>3. QED
        BY <4>1, <4>2
    <3>2. y.violation_started = now
      BY <1>1, <2>4
    <3>3. QED
      BY <2>2, <3>1, <3>2
  <2>5. QED
    BY <1>3, <2>3, <2>4
<1>18. Spaced(l, y)
  <2>1. \A j \in 1..M : l[j] <= now
    <3>1. ASSUME NEW j \in 1..M PROVE l[j] \in 0..now
      <4>1. l[j] = dd[L + 1 - M + j] /\ L + 1 - M + j \in 1..L + 1
        BY <1>5, <1>15
      <4>2. QED
        BY <1>14, <4>1
    <3>2. QED
      BY <1>2, <3>1
  <2>2. y.violations = b + 1 /\ b + 1 > 0 /\ b + 1 # 0 /\ y.last_seen = now
    BY <1>1, <1>3
  <2>3. QED
    BY <1>17, <2>1, <2>2 DEF Spaced, M, n, window
<1>19. \A j, k \in 1..M : j <= k => l[j] <= l[k]
  <2>1. \A j, k \in 1..L + 1 : j <= k => dd[j] <= dd[k]
    <3> SUFFICES ASSUME NEW j \in 1..L + 1, NEW k \in 1..L + 1, j <= k PROVE dd[j] <= dd[k]
      OBVIOUS
    <3>1. CASE k = L + 1
      <4>1. dd[j] \in 0..now
        BY <1>14
      <4>2. QED
        BY <1>2, <1>4, <3>1, <4>1
    <3>2. CASE k # L + 1
      <4>1. k \in 1..L /\ j \in 1..L
        BY <1>2, <3>2
      <4>2. QED
        BY <1>4, <1>7, <4>1
    <3>3. QED
      BY <3>1, <3>2
  <2> SUFFICES ASSUME NEW j \in 1..M, NEW k \in 1..M, j <= k PROVE l[j] <= l[k]
    OBVIOUS
  <2> DEFINE f(i) == L + 1 - M + i
  <2>2. f(j) \in 1..L + 1 /\ f(k) \in 1..L + 1 /\ f(j) <= f(k)
    BY <1>2, <1>12, <1>15
  <2>3. l[j] = dd[f(j)] /\ l[k] = dd[f(k)]
    BY <1>5
  <2> HIDE DEF f
  <2>4. QED
    BY <2>1, <2>2, <2>3
<1>20. ASSUME Room, M >= keep, l[M] - l[M - keep + 1] <= window PROVE FALSE
  <2>1. M = keep /\ M - keep + 1 = 1 /\ keep \in Nat /\ M \in 1..M /\ 1 \in 1..M
    <3>1. keep \in Nat \ {0}
      BY <1>2
    <3> HIDE DEF keep
    <3>2. QED
      BY <1>12, <1>20, <3>1
  <2>2. l[M] = now
    <3>1. L + 1 - M + M = L + 1
      BY <1>2, <1>12
    <3>2. QED
      BY <1>4, <1>5, <2>1, <3>1
  <2>3. 1 <= M - (b + 1) - n + 2
    BY <1>2, <1>3, <2>1
  <2>4. l[1] + window < y.violation_started
    BY <1>17, <1>20, <2>1, <2>3
  <2>5. l[1] \in Nat
    BY <1>5, <1>14, <1>15, <2>1
  <2> HIDE DEF keep
  <2>6. QED
    BY <1>2, <1>16, <1>20, <2>1, <2>2, <2>4, <2>5
<1>21. DropsOK(l)
  BY <1>19, <1>20 DEF DropsOK, M, n, window
<1>22. QED
  BY <1>11, <1>13, <1>18, <1>21 DEF KnownOK, y, l, dd

\* The limits were exceeded flood_violations times within one flood_window.
Justified(d) ==
    LET n == options.flood_violations
    IN  Len(d) >= n /\ now - d[Len(d) - n + 1] <= options.flood_window

(* A drop that blocks is one of too many in a window, and the block begins.  *)
LEMMA DropThatBlocks ==
    ASSUME IInv, NEW a \in Seq(0..now), NEW d \in Seq(0..now), NEW e \in Nat,
           NEW x, SourceOK(x), x.last_seen = now, KnownOK(a, d, e, x),
           Before(x) + 1 >= options.flood_violations
    PROVE  /\ KnownOK(a, <<>>, now + options.block_duration, Violation(x))
           /\ DropsOK(<<>>)
           /\ Justified(Append(d, now))
<1> DEFINE y == Violation(x)
           n == options.flood_violations
           window == options.flood_window
           b == Before(x)
           L == Len(d)
           dd == Append(d, now)
<1>1. /\ now \in Nat /\ n \in Nat \ {0} /\ window \in Nat /\ options.block_duration \in Nat
      /\ x.violations \in Nat /\ x.violations < n /\ x.violation_started \in 0..now /\ L \in Nat
  BY AccountTyped, SourceTyped, DropsTyped
<1>2. b + 1 = n /\ b \in {0, x.violations}
      /\ (b # 0 => b = x.violations /\ ~(now - x.violation_started > window))
  <2>1. b = IF now - x.violation_started > window THEN 0 ELSE x.violations
    BY DEF Before
  <2>2. b + 1 >= n
    OBVIOUS
  <2> HIDE DEF b, n
  <2>3. QED
    BY <1>1, <2>1, <2>2
<1>3. /\ y.buckets = x.buckets /\ y.last_seen = now /\ y.violations = 0
      /\ y.blocked_until = now + options.block_duration
  BY <1>2, ViolationCases
<1>4. Len(<<>>) = 0
  OBVIOUS
<1>5. Paid(a, y)
  BY <1>3 DEF KnownOK, Paid
<1>6. Counts(<<>>, y) /\ Spaced(<<>>, y) /\ Keeps(now + options.block_duration, y)
  <2>1. 1..0 = {}
    OBVIOUS
  <2> HIDE DEF y
  <2>2. Counts(<<>>, y)
    BY <1>3 DEF Counts
  <2>3. Spaced(<<>>, y)
    BY <1>3, <1>4, <2>1 DEF Spaced
  <2>4. Keeps(now + options.block_duration, y)
    BY <1>1, <1>3 DEF Keeps
  <2>5. QED
    BY <2>2, <2>3, <2>4
<1>7. DropsOK(<<>>)
  <2>1. ~(0 >= 2 * n - 1)
    BY <1>1
  <2>2. 1..0 = {}
    OBVIOUS
  <2>3. QED
    BY <1>4, <2>1, <2>2 DEF DropsOK
<1>8. dd \in Seq(0..now) /\ Len(dd) = L + 1 /\ dd[L + 1] = now /\ \A j \in 1..L : dd[j] = d[j]
  <2>1. now \in 0..now
    BY <1>1
  <2>2. QED
    BY <2>1, AppendProperties
<1>9. x.violations > 0 => L >= x.violations /\ d[L - x.violations + 1] = x.violation_started
  BY DEF KnownOK, Counts
<1>10. Justified(dd)
  <2> HIDE DEF dd, L, n, window, b
  <2>a. ASSUME L + 1 >= n, now - dd[L + 1 - n + 1] <= window PROVE Justified(dd)
    <3> DEFINE N == Len(dd)
    <3>1. N = L + 1
      BY <1>8
    <3> HIDE DEF N
    <3>2. N >= n /\ now - dd[N - n + 1] <= window
      BY <1>1, <2>a, <3>1
    <3>3. QED
      BY <3>2 DEF Justified, N, n, window
  <2>1. CASE b = 0
    <3>1. L + 1 - n + 1 = L + 1 /\ L + 1 >= n
      BY <1>1, <1>2, <2>1
    <3>2. now - dd[L + 1 - n + 1] <= window
      BY <1>1, <1>8, <3>1
    <3>3. QED
      BY <2>a, <3>1, <3>2
  <2>2. CASE b # 0
    <3>1. /\ x.violations > 0 /\ x.violations + 1 = n
          /\ ~(now - x.violation_started > window)
      BY <1>1, <1>2, <2>2
    <3>2. /\ L + 1 - n + 1 = L - x.violations + 1 /\ L + 1 >= n /\ L + 1 - n + 1 \in 1..L
      <4> DEFINE v == x.violations
      <4>1. v \in Nat \ {0} /\ n = v + 1 /\ L \in Nat /\ L >= v
        BY <1>1, <1>9, <3>1
      <4> HIDE DEF v
      <4>2. L + 1 - n + 1 = L - v + 1 /\ L + 1 >= n /\ L + 1 - n + 1 \in 1..L
        BY <4>1
      <4>3. QED
        BY <4>2 DEF v
    <3>3. dd[L + 1 - n + 1] = x.violation_started
      BY <1>8, <1>9, <3>1, <3>2
    <3>4. now - dd[L + 1 - n + 1] <= window
      BY <1>1, <3>1, <3>3
    <3>5. QED
      BY <2>a, <3>2, <3>4
  <2>3. QED
    BY <2>1, <2>2
<1>11. QED
  BY <1>3, <1>5, <1>6, <1>7, <1>10 DEF KnownOK, y, dd

-----------------------------------------------------------------------------
(* The history of the addresses.                                             *)

\* What a history says of an address.
SameFor(g, h, ip) ==
    /\ g.accepted[ip] = h.accepted[ip]
    /\ g.drops[ip] = h.drops[ip]
    /\ g.blockEnd[ip] = h.blockEnd[ip]

LEMMA ArrivedSame ==
    ASSUME NEW h \in History
    PROVE  /\ Arrived(h) \in History
           /\ \A ip \in Ips : SameFor(Arrived(h), h, ip)
<1>1. Arrived(h) \in History
  BY ArrivedOK
<1>2. QED
  BY <1>1 DEF Arrived, History, SameFor

LEMMA GrantedSame ==
    ASSUME NEW h \in History, NEW times \in Seq(0..now)
    PROVE  LET g == [h EXCEPT !.granted = times] IN
           /\ g \in History /\ \A ip \in Ips : SameFor(g, h, ip)
BY DEF History, SameFor

LEMMA HistoryAccepts ==
    ASSUME NEW h \in History, NEW ip \in Ips
    PROVE  LET g == [h EXCEPT !.accepted[ip] = Append(@, now)] IN
           /\ \A o \in Ips \ {ip} : SameFor(g, h, o)
           /\ g.accepted[ip] = Append(h.accepted[ip], now)
           /\ g.drops[ip] = h.drops[ip] /\ g.blockEnd[ip] = h.blockEnd[ip]
<1> DEFINE a == [h.accepted EXCEPT ![ip] = Append(@, now)]
           g == [h EXCEPT !.accepted = a]
<1>1. [h EXCEPT !.accepted[ip] = Append(@, now)] = g
  BY DEF History
<1>2. a[ip] = Append(h.accepted[ip], now) /\ \A o \in Ips \ {ip} : a[o] = h.accepted[o]
  BY DEF History
<1> HIDE DEF a
<1>3. g.accepted = a /\ g.drops = h.drops /\ g.blockEnd = h.blockEnd
  BY DEF History
<1> HIDE DEF g
<1>4. QED
  BY <1>1, <1>2, <1>3 DEF SameFor

\* The history after another drop.
WithDrops(h, ip, d, e) == [h EXCEPT !.drops[ip] = d, !.blockEnd[ip] = e]

LEMMA HistoryDrops ==
    ASSUME NEW h \in History, NEW ip \in Ips, NEW d, NEW e
    PROVE  LET g == WithDrops(h, ip, d, e) IN
           /\ \A o \in Ips \ {ip} : SameFor(g, h, o)
           /\ g.accepted[ip] = h.accepted[ip] /\ g.drops[ip] = d /\ g.blockEnd[ip] = e
<1> DEFINE ds == [h.drops EXCEPT ![ip] = d]
           es == [h.blockEnd EXCEPT ![ip] = e]
           g == [h EXCEPT !.drops = ds, !.blockEnd = es]
<1>1. WithDrops(h, ip, d, e) = g
  BY DEF History, WithDrops
<1>2. /\ ds[ip] = d /\ \A o \in Ips \ {ip} : ds[o] = h.drops[o]
      /\ es[ip] = e /\ \A o \in Ips \ {ip} : es[o] = h.blockEnd[o]
  BY DEF History
<1> HIDE DEF ds, es
<1>3. g.accepted = h.accepted /\ g.drops = ds /\ g.blockEnd = es
  BY DEF History
<1> HIDE DEF g
<1>4. QED
  BY <1>1, <1>2, <1>3 DEF SameFor

-----------------------------------------------------------------------------
(* A datagram that meets the limits leaves an entry in order, whatever       *)
(* becomes of it; it is accepted only when no block lasts, and a block only  *)
(* begins if it is justified.                                                *)
LEMMA LimitOutcome ==
    ASSUME IInv, SInv, NEW ip \in Ips, NEW kind \in Kinds, Limit(ip, kind)
    PROVE  LET found == GetSource(ip)
               h == history'
           IN  \E y : /\ y.ip = ip /\ sources' = [found.table EXCEPT ![found.slot] = y]
                      /\ \A o \in Ips \ {ip} : SameFor(h, history, o)
                      /\ KnownOK(h.accepted[ip], h.drops[ip], h.blockEnd[ip], y)
                      /\ DropsOK(h.drops[ip])
                      /\ Room /\ Len(h.accepted[ip]) > Len(history.accepted[ip])
                         => now >= history.blockEnd[ip]
                      /\ h.blockEnd[ip] > history.blockEnd[ip]
                         => Justified(Append(history.drops[ip], now))
<1> DEFINE found == GetSource(ip)
           x == found.table[found.slot]
           taken == TakeAll(x, kind)
           charged == [x EXCEPT !.buckets = taken.buckets]
           accepted == Counted(charged, "accepted")
           counted == Counted(charged, "rate")
           dropped == Violation(counted)
           blocks == dropped.blocked_until > now
           a == history.accepted[ip]
           d == history.drops[ip]
           e == history.blockEnd[ip]
           more == Append(a, now)
           granted == [history EXCEPT !.granted = IF taken.spent THEN Append(@, now) ELSE @]
           spent == Arrived(granted)
           h == history'
<1>1. /\ a \in Seq(0..now) /\ d \in Seq(0..now) /\ e \in Nat
      /\ now \in Nat /\ options.block_duration \in Nat \ {0} /\ Unit \in Nat
  BY AccountTyped
<1>2. SourceOK(x) /\ x.ip = ip /\ x.last_seen = now /\ KnownOK(a, d, e, x)
  BY FoundSeen, FoundKnown
<1>3. ~(x.blocked_until > now)
  BY DEF Limit, Blocked
<1>4. DropsOK(d)
  BY DEF SInv, AccountOK
<1>5. /\ \/ /\ taken.ok
            /\ sources' = [found.table EXCEPT ![found.slot] = accepted]
            /\ h = [spent EXCEPT !.accepted[ip] = Append(@, now)]
         \/ /\ ~taken.ok
            /\ sources' = [found.table EXCEPT ![found.slot] = dropped]
            /\ h = [spent EXCEPT !.drops[ip] = IF blocks THEN <<>> ELSE Latest(Append(d, now)),
                                 !.blockEnd[ip] = IF blocks THEN dropped.blocked_until ELSE @]
  BY DEF Limit
<1>6. /\ taken.ok \in BOOLEAN /\ taken.spent \in BOOLEAN
      /\ SourceOK(charged) /\ charged.ip = ip
  <2> HIDE DEF x
  <2> QED BY <1>2, TakeAllOK DEF IInv
<1>7. /\ charged.last_seen = now /\ charged.blocked_until = x.blocked_until
  <2> HIDE DEF x, taken
  <2> QED BY <1>2 DEF SourceOK, Source
<1>8. KnownOK(IF taken.ok THEN more ELSE a, d, e, charged)
  <2> HIDE DEF x, a, d, e
  <2> QED BY <1>1, <1>2, Charged
<1>9. spent \in History /\ \A o \in Ips : SameFor(spent, history, o)
  <2> DEFINE n == IF taken.spent THEN Append(history.granted, now) ELSE history.granted
  <2>1. history \in History /\ history.granted \in Seq(0..now)
    BY DEF IInv, TypeOK, History
  <2>2. n \in Seq(0..now)
    <3>1. now \in 0..now
      BY <1>1
    <3> HIDE DEF taken
    <3>2. QED
      BY <2>1, <3>1, AppendProperties
  <2>3. granted = [history EXCEPT !.granted = n]
    BY <2>1
  <2> HIDE DEF n
  <2>4. granted \in History /\ \A o \in Ips : SameFor(granted, history, o)
    <3> HIDE DEF granted
    <3> QED BY <2>1, <2>2, <2>3, GrantedSame
  <2> HIDE DEF granted
  <2>5. QED
    BY <2>4, ArrivedSame DEF SameFor
<1>10. spent.accepted[ip] = a /\ spent.drops[ip] = d /\ spent.blockEnd[ip] = e
  BY <1>9 DEF SameFor
<1>b. Len(more) = Len(a) + 1 /\ Len(a) \in Nat
  <2>1. now \in 0..now
    BY <1>1
  <2>2. QED
    BY <1>1, <2>1, AppendProperties, LenProperties
<1> HIDE DEF spent, granted, taken, charged, x, found, blocks, more
<1>11. CASE /\ taken.ok
            /\ sources' = [found.table EXCEPT ![found.slot] = accepted]
            /\ h = [spent EXCEPT !.accepted[ip] = Append(@, now)]
  <2>1. /\ \A o \in Ips \ {ip} : SameFor(h, spent, o)
        /\ h.accepted[ip] = more /\ h.drops[ip] = d /\ h.blockEnd[ip] = e
    <3> HIDE DEF h, a, d, e
    <3> QED BY <1>9, <1>10, <1>11, HistoryAccepts DEF more
  <2>2. accepted.ip = ip /\ KnownOK(more, d, e, accepted)
    <3>1. KnownOK(more, d, e, charged)
      BY <1>8, <1>11
    <3>2. "accepted" \in Verdicts
      BY DEF Verdicts
    <3> HIDE DEF a, d, e
    <3>3. QED
      BY <1>6, <3>1, <3>2, CountedSame, AccountOfSame
  <2>3. \A o \in Ips \ {ip} : SameFor(h, history, o)
    BY <1>9, <2>1 DEF SameFor
  <2>4. Room => now >= e
    <3>1. Room /\ e > now => x.blocked_until >= e
      BY <1>2 DEF KnownOK, Keeps
    <3>2. x.blocked_until \in Nat
      BY <1>2, SourceTyped
    <3> HIDE DEF e
    <3>3. QED
      BY <1>1, <1>3, <3>1, <3>2
  <2>5. ~(e > e)
    BY <1>1
  <2> HIDE DEF accepted
  <2>6. QED
    BY <1>4, <1>11, <2>1, <2>2, <2>3, <2>4, <2>5 DEF found, x, a, d, e, h
<1>12. CASE /\ ~taken.ok
            /\ sources' = [found.table EXCEPT ![found.slot] = dropped]
            /\ h = [spent EXCEPT !.drops[ip] = IF blocks THEN <<>> ELSE Latest(Append(d, now)),
                                 !.blockEnd[ip] = IF blocks THEN dropped.blocked_until ELSE @]
  <2> DEFINE dn == IF blocks THEN <<>> ELSE Latest(Append(d, now))
             en == IF blocks THEN dropped.blocked_until ELSE e
  <2>1. h = WithDrops(spent, ip, dn, en)
    <3>1. spent.blockEnd[ip] = e /\ spent \in History
      BY <1>9, <1>10
    <3> HIDE DEF dropped, d, e
    <3>2. QED
      BY <1>12, <3>1 DEF History, WithDrops
  <2>2. /\ \A o \in Ips \ {ip} : SameFor(h, spent, o)
        /\ h.accepted[ip] = a /\ h.drops[ip] = dn /\ h.blockEnd[ip] = en
    <3> HIDE DEF h, a, d, e, dn, en
    <3> QED BY <1>9, <1>10, <2>1, HistoryDrops
  <2>3. \A o \in Ips \ {ip} : SameFor(h, history, o)
    BY <1>9, <2>2 DEF SameFor
  <2>4. /\ SourceOK(counted) /\ counted.ip = ip /\ counted.last_seen = now
        /\ counted.blocked_until = x.blocked_until /\ KnownOK(a, d, e, counted)
    <3>1. KnownOK(a, d, e, charged)
      BY <1>8, <1>12
    <3>2. "rate" \in Verdicts
      BY DEF Verdicts
    <3> HIDE DEF a, d, e
    <3>3. QED
      BY <1>6, <1>7, <3>1, <3>2, CountedSame, CountedOK, AccountOfSame
  <2> HIDE DEF counted
  <2>5. dropped.ip = ip
    BY <2>4, ViolationCases
  <2>6. CASE Before(counted) + 1 >= options.flood_violations
    <3>1. dropped.blocked_until = now + options.block_duration
      BY <2>4, <2>6, ViolationCases
    <3>2. blocks
      <4> HIDE DEF dropped
      <4> QED BY <1>1, <3>1 DEF blocks
    <3>3. /\ KnownOK(a, <<>>, now + options.block_duration, dropped) /\ DropsOK(<<>>)
          /\ Justified(Append(d, now))
      <4> HIDE DEF a, d, e
      <4> QED BY <1>1, <2>4, <2>6, DropThatBlocks
    <3>4. dn = <<>> /\ en = now + options.block_duration
      BY <3>1, <3>2
    <3>5. ~(Len(a) > Len(a))
      BY <1>b
    <3> HIDE DEF dropped, dn, en
    <3>6. QED
      BY <1>12, <2>2, <2>3, <2>5, <3>3, <3>4, <3>5 DEF found, x, a, d, e, h
  <2>7. CASE ~(Before(counted) + 1 >= options.flood_violations)
    <3>1. dropped.blocked_until = x.blocked_until
      BY <2>4, <2>7, ViolationCases
    <3>2. ~blocks
      BY <1>3, <3>1 DEF blocks
    <3>3. dn = Latest(Append(d, now)) /\ en = e
      BY <3>2
    <3>4. KnownOK(a, dn, e, dropped) /\ DropsOK(dn)
      <4> HIDE DEF a, d, e, dn
      <4> QED BY <1>1, <1>4, <2>4, <2>7, <3>3, OneMoreDrop
    <3>5. ~(Len(a) > Len(a)) /\ ~(e > e)
      BY <1>1, <1>b
    <3> HIDE DEF dropped, dn, en
    <3>6. QED
      BY <1>12, <2>2, <2>3, <2>5, <3>3, <3>4, <3>5 DEF found, x, a, d, e, h
  <2>8. QED
    BY <2>6, <2>7
<1>13. QED
  BY <1>5, <1>11, <1>12

(* The accounts of a history that says the same of every address.            *)
LEMMA AccountSame ==
    ASSUME NEW g, NEW h, NEW ip, SameFor(g, h, ip),
           NEW table, AccountOK(h, table, ip)
    PROVE  AccountOK(g, table, ip)
BY DEF AccountOK, SameFor

LEMMA HistoryArrives ==
    ASSUME IInv, history' = Arrived(history)
    PROVE  \A ip \in Ips : SameFor(history', history, ip)
BY ArrivedSame DEF IInv, TypeOK

LEMMA AccountsInit == Init => SInv
<1> SUFFICES ASSUME Init, NEW ip \in Ips PROVE AccountOK(history, sources, ip)
  BY DEF SInv
<1>1. /\ history.accepted[ip] = <<>> /\ history.blockEnd[ip] = 0
      /\ history.drops[ip] = <<>> /\ now = 0 /\ sources = <<>>
  BY DEF Init, Fresh
<1>2. Len(<<>>) = 0 /\ 1..0 = {} /\ DOMAIN sources = {}
  BY <1>1
<1>3. IInv
  BY InitOK
<1>4. options.flood_violations \in Nat \ {0}
  BY <1>3, AccountTyped
<1>5. Within(<<>>, "source")
  BY NothingYet
<1>6. UnknownOK(<<>>, <<>>, 0)
  BY <1>1, <1>2, <1>5 DEF UnknownOK, Repaid
<1>7. DropsOK(<<>>)
  <2>1. ~(0 >= 2 * options.flood_violations - 1)
    BY <1>4
  <2>2. QED
    BY <1>2, <2>1 DEF DropsOK
<1>8. QED
  BY <1>1, <1>2, <1>6, <1>7 DEF AccountOK

(* A datagram that is dropped before the limits only looks its source up.    *)
LEMMA DropKeepsAccounts ==
    ASSUME IInv, SInv, NEW ip \in Ips, NEW v \in Verdicts, Drop(GetSource(ip), v),
           history' = Arrived(history), UNCHANGED <<options, now>>
    PROVE  SInv'
<1> DEFINE found == GetSource(ip)
           x == found.table[found.slot]
           y == Counted(x, v)
           h == history'
<1>1. SourceOK(x) /\ x.ip = ip
  BY FoundSeen
<1>2. KnownOK(history.accepted[ip], history.drops[ip], history.blockEnd[ip], x)
  BY FoundKnown
<1>3. y.ip = ip /\ KnownOK(history.accepted[ip], history.drops[ip], history.blockEnd[ip], y)
  <2> HIDE DEF x
  <2> QED BY <1>1, <1>2, CountedSame, AccountOfSame
<1>4. sources' = [found.table EXCEPT ![found.slot] = y]
  BY DEF Drop
<1>5. \A o \in Ips : SameFor(h, history, o)
  BY HistoryArrives
<1>6. DropsOK(h.drops[ip])
  BY <1>5 DEF SInv, AccountOK, SameFor
<1>7. KnownOK(h.accepted[ip], h.drops[ip], h.blockEnd[ip], y)
  BY <1>3, <1>5 DEF SameFor
<1> HIDE DEF y, h
<1>8. \A o \in Ips : AccountOK(h, [found.table EXCEPT ![found.slot] = y], o)
  BY <1>3, <1>5, <1>6, <1>7, TableStep DEF SameFor
<1>9. QED
  BY <1>4, <1>8, AccountsLater DEF h

LEMMA LimitKeepsAccounts ==
    ASSUME IInv, SInv, NEW ip \in Ips, NEW kind \in Kinds, Limit(ip, kind)
    PROVE  SInv'
<1> DEFINE found == GetSource(ip)
           h == history'
<1>1. PICK y : /\ y.ip = ip /\ sources' = [found.table EXCEPT ![found.slot] = y]
               /\ \A o \in Ips \ {ip} : SameFor(h, history, o)
               /\ KnownOK(h.accepted[ip], h.drops[ip], h.blockEnd[ip], y)
               /\ DropsOK(h.drops[ip])
  BY LimitOutcome
<1> HIDE DEF h
<1>2. \A o \in Ips : AccountOK(h, [found.table EXCEPT ![found.slot] = y], o)
  BY <1>1, TableStep DEF SameFor
<1>3. UNCHANGED <<options, now>>
  BY DEF Limit
<1>4. QED
  BY <1>1, <1>2, <1>3, AccountsLater DEF h

LEMMA GetStatsKeepsAccounts ==
    ASSUME IInv, SInv, NEW reset \in BOOLEAN, GetStats(reset)
    PROVE  SInv'
<1> DEFINE live == DOMAIN sources \ Stale
<1>1. /\ DOMAIN sources' = live /\ UNCHANGED <<options, now, history>>
      /\ \A i \in live : sources'[i] = IF reset THEN [sources[i] EXCEPT !.count = Zeros] ELSE sources[i]
  BY DEF GetStats
<1>2. ASSUME NEW i \in live
      PROVE  /\ sources'[i].ip = sources[i].ip /\ sources'[i].buckets = sources[i].buckets
             /\ sources'[i].last_seen = sources[i].last_seen
             /\ sources'[i].violations = sources[i].violations
             /\ sources'[i].violation_started = sources[i].violation_started
             /\ sources'[i].blocked_until = sources[i].blocked_until
  <2>1. SourceOK(sources[i])
    BY DEF IInv, TypeOK
  <2> DEFINE x == sources[i]
             y == sources'[i]
  <2>2. y = x \/ y = [x EXCEPT !.count = Zeros]
    BY <1>1
  <2> HIDE DEF x, y
  <2>3. /\ y.ip = x.ip /\ y.buckets = x.buckets /\ y.last_seen = x.last_seen
        /\ y.violations = x.violations /\ y.violation_started = x.violation_started
        /\ y.blocked_until = x.blocked_until
    BY <2>1, <2>2 DEF SourceOK, Source, x
  <2>4. QED
    BY <2>3 DEF x, y
<1> HIDE DEF live
<1>3. ASSUME NEW ip \in Ips PROVE AccountOK(history, sources', ip)
  <2> DEFINE a == history.accepted[ip]
             d == history.drops[ip]
             e == history.blockEnd[ip]
  <2>1. AccountOK(history, sources, ip)
    BY DEF SInv
  <2>2. ASSUME NEW i \in live, sources'[i].ip = ip PROVE KnownOK(a, d, e, sources'[i])
    <3>1. KnownOK(a, d, e, sources[i])
      BY <1>2, <2>1, <2>2 DEF AccountOK, live
    <3> HIDE DEF a, d, e
    <3>2. QED
      BY <1>2, <3>1, AccountOfSame
  <2>3. ASSUME Room, \A i \in live : sources'[i].ip # ip PROVE UnknownOK(a, d, e)
    <3>1. CASE \A i \in DOMAIN sources : sources[i].ip # ip
      BY <2>1, <2>3, <3>1 DEF AccountOK
    <3>2. ASSUME NEW i \in DOMAIN sources, sources[i].ip = ip PROVE UnknownOK(a, d, e)
      <4>1. SourceOK(sources[i]) /\ KnownOK(a, d, e, sources[i])
        BY <2>1, <3>2 DEF AccountOK, IInv, TypeOK
      <4>2. i \in Stale
        BY <1>2, <2>3, <3>2 DEF live
      <4>3. now - sources[i].last_seen > options.source_ttl
        BY <4>2 DEF Stale
      <4>4. a \in Seq(0..now) /\ d \in Seq(0..now) /\ e \in Nat
        BY AccountTyped
      <4> HIDE DEF a, d, e
      <4>5. QED
        BY <2>3, <4>1, <4>3, <4>4, Expires
    <3>3. QED
      BY <3>1, <3>2
  <2>4. DropsOK(d)
    BY <2>1 DEF AccountOK
  <2>5. QED
    BY <1>1, <2>2, <2>3, <2>4 DEF AccountOK
<1>4. QED
  BY <1>1, <1>3, AccountsLater

LEMMA ConfigureKeepsAccounts ==
    ASSUME IInv, SInv, NEW o \in Configs, Configure(o)
    PROVE  SInv'
<1> SUFFICES ASSUME NEW ip \in Ips PROVE AccountOK(history, sources, ip)'
  BY DEF SInv
<1>1. /\ history'.accepted[ip] = <<>> /\ history'.blockEnd[ip] = 0
      /\ history'.drops[ip] = <<>> /\ now' = now /\ sources' = <<>> /\ options' = o
  BY DEF Configure, Fresh
<1>2. Len(<<>>) = 0 /\ 1..0 = {} /\ DOMAIN sources' = {}
  BY <1>1
<1>3. now \in Nat /\ o.flood_violations \in Nat \ {0}
  BY AccountTyped, OptionsTyped
<1>4. Within(<<>>, "source")'
  BY <1>2 DEF Within
<1>5. UnknownOK(<<>>, <<>>, 0)'
  BY <1>1, <1>2, <1>3, <1>4 DEF UnknownOK, Repaid
<1>6. DropsOK(<<>>)'
  <2>1. ~(0 >= 2 * o.flood_violations - 1)
    BY <1>3
  <2>2. QED
    BY <1>1, <1>2, <2>1 DEF DropsOK
<1>7. QED
  BY <1>1, <1>2, <1>5, <1>6 DEF AccountOK

LEMMA TickKeepsAccounts ==
    ASSUME IInv, SInv, Tick
    PROVE  SInv'
<1> SUFFICES ASSUME NEW ip \in Ips PROVE AccountOK(history, sources, ip)'
  BY DEF SInv
<1> DEFINE a == history.accepted[ip]
           d == history.drops[ip]
           e == history.blockEnd[ip]
<1>1. now \in Nat /\ now' = now + 1 /\ UNCHANGED <<options, sources, history>>
  BY AccountTyped DEF Tick, tableVars
<1>2. AccountOK(history, sources, ip)
  BY DEF SInv
<1>3. /\ a \in Seq(0..now) /\ d \in Seq(0..now) /\ e \in Nat
      /\ options.rate["source"] \in Nat /\ options.flood_window \in Nat
      /\ \A j \in 1..Len(d) : d[j] \in Nat
  <2>1. /\ a \in Seq(0..now) /\ d \in Seq(0..now) /\ e \in Nat
        /\ options.rate["source"] \in Nat /\ options.flood_window \in Nat
    BY AccountTyped
  <2> HIDE DEF a, d, e
  <2>2. \A j \in 1..Len(d) : d[j] \in Nat
    BY <2>1, <1>1, TimesTyped
  <2>3. QED
    BY <2>1, <2>2
<1>4. Room' = Room
  BY <1>1 DEF Room
<1>5. ASSUME NEW i \in DOMAIN sources, KnownOK(a, d, e, sources[i])
      PROVE  KnownOK(a, d, e, sources[i])'
  <2>1. Paid(a, sources[i])' /\ Counts(d, sources[i])'
    BY <1>1, <1>4, <1>5 DEF KnownOK, Paid, Paying, Within, Counts
  <2>2. Spaced(d, sources[i])'
    <3>1. Spaced(d, sources[i])
      BY <1>5 DEF KnownOK
    <3>2. \A j \in 1..Len(d) : d[j] + options.flood_window < now => d[j] + options.flood_window < now + 1
      BY <1>1, <1>3
    <3>3. QED
      BY <1>1, <1>4, <3>1, <3>2 DEF Spaced
  <2>3. Keeps(e, sources[i])'
    BY <1>1, <1>3, <1>4, <1>5 DEF KnownOK, Keeps
  <2>4. QED
    BY <2>1, <2>2, <2>3 DEF KnownOK
<1>6. ASSUME UnknownOK(a, d, e) PROVE UnknownOK(a, d, e)'
  <2>1. Within(a, "source")'
    BY <1>1, <1>6 DEF UnknownOK, Within
  <2>2. Repaid(a, options.rate["source"], now + 1)
    <3>1. Repaid(a, options.rate["source"], now) /\ Unit \in Nat
      BY <1>6, AccountTyped DEF UnknownOK
    <3> HIDE DEF a
    <3>2. QED
      BY <1>1, <1>3, <3>1, RepaidLater
  <2>3. (\A j \in 1..Len(d) : d[j] + options.flood_window < now + 1) /\ e <= now + 1
    <3>1. (\A j \in 1..Len(d) : d[j] + options.flood_window < now) /\ e <= now
      BY <1>6 DEF UnknownOK
    <3>2. now \in Nat /\ e \in Nat /\ options.flood_window \in Nat /\ \A j \in 1..Len(d) : d[j] \in Nat
      BY <1>1, <1>3
    <3> HIDE DEF a, d, e
    <3>3. QED
      BY <3>1, <3>2
  <2>4. a' = a /\ d' = d /\ e' = e /\ options' = options /\ now' = now + 1
    BY <1>1
  <2>5. Repaid(a, options.rate["source"], now)'
    <3> HIDE DEF a, d, e
    <3> QED BY <2>2, <2>4 DEF Repaid
  <2>6. (\A j \in 1..Len(d) : d[j] + options.flood_window < now)' /\ (e <= now)'
    <3> HIDE DEF a, d, e
    <3> QED BY <2>3, <2>4
  <2>7. QED
    BY <2>1, <2>5, <2>6 DEF UnknownOK
<1>7. DropsOK(d)'
  BY <1>1, <1>2, <1>4 DEF AccountOK, DropsOK
<1>8. QED
  BY <1>1, <1>2, <1>4, <1>5, <1>6, <1>7 DEF AccountOK

LEMMA AccountsStep == IInv /\ SInv /\ [Next]_vars => SInv'
<1> SUFFICES ASSUME IInv, SInv, [Next]_vars PROVE SInv'
  OBVIOUS
<1>a. ASSUME UNCHANGED <<options, sources, now>>, history' = Arrived(history) PROVE SInv'
  <2>1. \A ip \in Ips : SameFor(history', history, ip)
    BY <1>a, HistoryArrives
  <2>2. \A ip \in Ips : AccountOK(history', sources, ip)
    BY <2>1, AccountSame DEF SInv
  <2>3. QED
    BY <1>a, <2>2, AccountsLater
<1>1. CASE AcceptUnprotected
  BY <1>1, <1>a DEF AcceptUnprotected, tableVars
<1>2. ASSUME NEW ip \in Ips, DropDenied(ip) PROVE SInv'
  BY <1>2, DropKeepsAccounts DEF DropDenied, Verdicts
<1>3. ASSUME NEW ip \in Ips, DropBlocked(ip) PROVE SInv'
  BY <1>3, DropKeepsAccounts DEF DropBlocked, Verdicts
<1>4. ASSUME NEW ip \in Ips, DropMalformed(ip) PROVE SInv'
  BY <1>4, DropKeepsAccounts DEF DropMalformed, Verdicts
<1>5. ASSUME NEW ip \in Ips, NEW kind \in Kinds, Limit(ip, kind) PROVE SInv'
  BY <1>5, LimitKeepsAccounts
<1>6. ASSUME NEW ip \in Ips, Malformed(ip) PROVE SInv'
  BY <1>6, DropKeepsAccounts DEF Malformed, Verdicts
<1>7. CASE QueueOverflow
  BY <1>7, <1>a DEF QueueOverflow, tableVars
<1>8. ASSUME NEW o \in Configs, Configure(o) PROVE SInv'
  BY <1>8, ConfigureKeepsAccounts
<1>9. ASSUME NEW reset \in BOOLEAN, GetStats(reset) PROVE SInv'
  BY <1>9, GetStatsKeepsAccounts
<1>10. CASE Tick
  BY <1>10, TickKeepsAccounts
<1>11. CASE UNCHANGED vars
  BY <1>11, AccountsLater DEF vars, SInv
<1>12. QED
  BY <1>1, <1>2, <1>3, <1>4, <1>5, <1>6, <1>7, <1>8, <1>9, <1>10, <1>11 DEF Next, Accept

LEMMA AccountsHold == Spec => []SInv
BY InvariantHolds, AccountsInit, AccountsStep, PTL DEF Spec

(* Given room in the table, in no interval does an address get more          *)
(* datagrams accepted than its own bucket allows, through expiry of its      *)
(* entry and replacement of others.                                          *)
THEOREM SourceRateHolds == Spec => []SourceRateBound
<1>1. SInv => SourceRateBound
  BY DEF SInv, AccountOK, KnownOK, Paid, UnknownOK, SourceRateBound
<1>2. QED
  BY <1>1, AccountsHold, PTL

(* Given room in the table, an address cannot exceed the limits twice as     *)
(* often as configured, less one, within flood_window without being blocked. *)
THEOREM FloodsAreBlocked == Spec => []FloodIsBlocked
<1>1. SInv => FloodIsBlocked
  BY DEF SInv, AccountOK, DropsOK, FloodIsBlocked, Flood
<1>2. QED
  BY <1>1, AccountsHold, PTL

(* In the history of an address, only a datagram that meets the limits, or   *)
(* new options, change what was accepted and blocked.                        *)
LEMMA OtherSteps ==
    ASSUME IInv, SInv, [Next]_vars, NEW ip \in Ips
    PROVE  \/ SameFor(history', history, ip)
           \/ history'.accepted[ip] = <<>> /\ history'.blockEnd[ip] = 0
           \/ \E kind \in Kinds : Limit(ip, kind)
<1>1. ASSUME history' = Arrived(history) PROVE SameFor(history', history, ip)
  BY <1>1, HistoryArrives
<1>2. ASSUME UNCHANGED history PROVE SameFor(history', history, ip)
  BY <1>2 DEF SameFor
<1>3. CASE AcceptUnprotected \/ QueueOverflow
  BY <1>1, <1>3 DEF AcceptUnprotected, QueueOverflow
<1>4. ASSUME NEW o \in Ips, DropDenied(o) \/ DropBlocked(o) \/ DropMalformed(o) \/ Malformed(o)
      PROVE  SameFor(history', history, ip)
  BY <1>1, <1>4 DEF DropDenied, DropBlocked, DropMalformed, Malformed
<1>5. ASSUME NEW o \in Ips, NEW kind \in Kinds, Limit(o, kind), o # ip
      PROVE  SameFor(history', history, ip)
  BY <1>5, LimitOutcome
<1>6. ASSUME NEW o \in Configs, Configure(o)
      PROVE  history'.accepted[ip] = <<>> /\ history'.blockEnd[ip] = 0
  BY <1>6 DEF Configure, Fresh
<1>7. CASE (\E reset \in BOOLEAN : GetStats(reset)) \/ Tick \/ UNCHANGED vars
  BY <1>2, <1>7 DEF GetStats, Tick, vars
<1>8. QED
  BY <1>3, <1>4, <1>5, <1>6, <1>7 DEF Next, Accept

(* Given room in the table, nothing of a blocked address is accepted before  *)
(* its block ends, whatever other addresses send meanwhile.                  *)
THEOREM BlocksHold == Spec => BlockHolds
<1>1. ASSUME IInv, SInv, [Next]_vars
      PROVE  Room => \A ip \in Ips : Len(history'.accepted[ip]) > Len(history.accepted[ip])
                                     => now >= history.blockEnd[ip]
  <2> SUFFICES ASSUME Room, NEW ip \in Ips, Len(history'.accepted[ip]) > Len(history.accepted[ip])
               PROVE  now >= history.blockEnd[ip]
    OBVIOUS
  <2>1. Len(history.accepted[ip]) \in Nat
    BY <1>1, AccountTyped, LenProperties
  <2>2. ~SameFor(history', history, ip)
    BY <2>1 DEF SameFor
  <2>3. history'.accepted[ip] # <<>>
    <3>1. Len(<<>>) = 0
      OBVIOUS
    <3>2. QED
      BY <2>1, <3>1
  <2>4. PICK kind \in Kinds : Limit(ip, kind)
    BY <1>1, <2>2, <2>3, OtherSteps
  <2>5. QED
    BY <1>1, <2>4, LimitOutcome
<1>2. QED
  BY <1>1, InvariantHolds, AccountsHold, PTL DEF Spec, BlockHolds

(* A block begins only when the address has exceeded the limits              *)
(* flood_violations times within one flood_window, room or not.              *)
THEOREM BlocksAreJustified == Spec => BlockJustified
<1>1. ASSUME IInv, SInv, [Next]_vars
      PROVE  \A ip \in Ips : history'.blockEnd[ip] > history.blockEnd[ip]
                             => Justified(Append(history.drops[ip], now))
  <2> SUFFICES ASSUME NEW ip \in Ips, history'.blockEnd[ip] > history.blockEnd[ip]
               PROVE  Justified(Append(history.drops[ip], now))
    OBVIOUS
  <2>1. history.blockEnd[ip] \in Nat
    BY <1>1, AccountTyped
  <2>2. ~SameFor(history', history, ip)
    BY <2>1 DEF SameFor
  <2>3. history'.blockEnd[ip] # 0
    BY <2>1
  <2>4. PICK kind \in Kinds : Limit(ip, kind)
    BY <1>1, <2>2, <2>3, OtherSteps
  <2>5. QED
    BY <1>1, <2>4, LimitOutcome
<1>2. ASSUME IInv, SInv, [Next]_vars
      PROVE  \A ip \in Ips : history'.blockEnd[ip] > history.blockEnd[ip]
                => LET d == Append(history.drops[ip], now)
                       n == options.flood_violations
                   IN  Len(d) >= n /\ now - d[Len(d) - n + 1] <= options.flood_window
  BY <1>1, <1>2 DEF Justified
<1>3. QED
  BY <1>2, InvariantHolds, AccountsHold, PTL DEF Spec, BlockJustified
=============================================================================
