-------------------------- MODULE SharedCacheProofs --------------------------
(* Theorems about SharedCache for every value of its constants.             *)
EXTENDS SharedCache, FiniteSetTheorems, WellFoundedInduction, TLAPS

-----------------------------------------------------------------------------
\* Numbers and finite sets.

(* A non-empty set of naturals has a least element.                         *)
LEMMA LeastExists ==
    ASSUME NEW S \in SUBSET Nat, S # {}
    PROVE  \E x \in S : \A y \in S : x <= y
<1> DEFINE R == OpToRel(<, Nat)
<1>1. \E x \in S : \A y \in S : ~ (<<y, x>> \in R)
  BY WFMin, NatLessThanWellFounded, Zenon
<1>2. \A x, y \in Nat : <<y, x>> \in R <=> y < x
  BY DEF OpToRel
<1> HIDE DEF R
<1>3. PICK x \in S : \A y \in S : ~ (<<y, x>> \in R)
  BY <1>1
<1>4. \A y \in S : ~ (y < x)
  BY <1>2, <1>3, Zenon
<1>5. x \in Nat /\ \A y \in S : y \in Nat
  OBVIOUS
<1>6. QED
  BY <1>4, <1>5

LEMMA MinIsLeast ==
    ASSUME NEW S \in SUBSET Nat, S # {}
    PROVE  Min(S) \in S /\ \A y \in S : Min(S) <= y
BY LeastExists DEF Min

(* A finite set has a greatest: the smallest set without one, less an        *)
(* element, would be a smaller one.                                         *)
LEMMA MaxIsGreatest ==
    ASSUME NEW S \in SUBSET Nat, IsFiniteSet(S), S # {}
    PROVE  Max(S) \in S /\ \A y \in S : Max(S) >= y
<1> DEFINE HasMax(T) == \E x \in T : \A y \in T : x >= y
           sizes == {n \in Nat : \E T \in SUBSET S : T # {} /\ ~HasMax(T) /\ Cardinality(T) = n}
<1>1. ASSUME NEW n \in sizes PROVE \E m \in sizes : m < n
  <2>1. PICK T \in SUBSET S : T # {} /\ ~HasMax(T) /\ Cardinality(T) = n
    BY <1>1
  <2>2. PICK x \in T : TRUE
    BY <2>1
  <2>3. T \ {x} # {}
    <3>1. ASSUME T \ {x} = {} PROVE FALSE
      <4>1. T = {x} /\ x \in Nat
        BY <2>2, <3>1
      <4>2. HasMax(T)
        BY <4>1
      <4>3. QED
        BY <2>1, <4>2
    <3>2. QED
      BY <3>1
  <2>4. ~HasMax(T \ {x})
    <3>1. ASSUME NEW m \in T \ {x}, \A y \in T \ {x} : m >= y PROVE FALSE
      <4>1. m \in Nat /\ x \in Nat /\ \A y \in T : y \in Nat
        BY <2>2
      <4>2. CASE m >= x
        <5>1. \A y \in T : m >= y
          BY <3>1, <4>2
        <5>2. QED
          BY <2>1, <5>1
      <4>3. CASE ~(m >= x)
        <5>1. \A y \in T : x >= y
          BY <3>1, <4>1, <4>3
        <5>2. QED
          BY <2>1, <2>2, <5>1
      <4>4. QED
        BY <4>2, <4>3
    <3>2. QED
      BY <3>1
  <2>5. IsFiniteSet(T)
    BY FS_Subset
  <2>6. IsFiniteSet(T \ {x}) /\ Cardinality(T \ {x}) = Cardinality(T) - 1
    BY <2>2, <2>5, FS_RemoveElement
  <2>7. Cardinality(T \ {x}) \in Nat /\ n \in Nat
    BY <2>6, FS_CardinalityType
  <2>8. Cardinality(T \ {x}) \in sizes
    BY <2>3, <2>4, <2>7
  <2>9. Cardinality(T \ {x}) < n
    BY <2>1, <2>6, <2>7
  <2> HIDE DEF sizes
  <2>10. QED
    BY <2>8, <2>9
<1>2. sizes = {}
  <2>1. sizes \in SUBSET Nat
    OBVIOUS
  <2> HIDE DEF sizes
  <2>2. ASSUME sizes # {} PROVE FALSE
    <3>1. PICK n \in sizes : \A m \in sizes : n <= m
      BY <2>1, <2>2, LeastExists
    <3>2. PICK m \in sizes : m < n
      BY <1>1
    <3>3. m \in Nat /\ n \in Nat /\ n <= m
      BY <2>1, <3>1
    <3>4. QED
      BY <3>2, <3>3
  <2>3. QED
    BY <2>2
<1>3. Cardinality(S) \in Nat
  BY FS_CardinalityType
<1>4. HasMax(S)
  BY <1>2, <1>3
<1>5. QED
  BY <1>4 DEF Max

(* A row of n elements.                                                     *)
LEMMA RowSize ==
    ASSUME NEW i, NEW n \in Nat
    PROVE  IsFiniteSet({i} \X (1..n)) /\ Cardinality({i} \X (1..n)) = n
<1>1. IsFiniteSet({i}) /\ Cardinality({i}) = 1
  BY FS_Singleton
<1>2. IsFiniteSet(1..n) /\ Cardinality(1..n) = n
  BY FS_Interval
<1>3. IsFiniteSet({i} \X (1..n)) /\ Cardinality({i} \X (1..n)) = Cardinality({i}) * Cardinality(1..n)
  BY <1>1, <1>2, FS_Product, Zenon
<1>4. 1 * n = n
  OBVIOUS
<1>5. QED
  BY <1>1, <1>2, <1>3, <1>4

(* A set of slots is no larger than the table.                              *)
LEMMA SlotsFinite ==
    ASSUME NEW S \in SUBSET (1..Slots)
    PROVE  IsFiniteSet(S) /\ Cardinality(S) \in 0..Slots
<1>1. IsFiniteSet(1..Slots) /\ Cardinality(1..Slots) = Slots
  BY FS_Interval, SlotsAssumption
<1>2. IsFiniteSet(S) /\ Cardinality(S) <= Cardinality(1..Slots)
  BY <1>1, FS_Subset
<1>3. QED
  BY <1>1, <1>2, FS_CardinalityType, SlotsAssumption

-----------------------------------------------------------------------------
(* The invariant of L1.                                                     *)

\* A slot in use: a value that fits, in the partition of its key.  It expires
\* at most two ttls after it was stored, and at once as long as it is torn.
SlotOK(e) ==
    /\ e \in Slot
    /\ e.value.length <= L1MaxBytes
    /\ e.key # NoKey => e.part = PartOf[e.key[1]]
    /\ e.value.version = Torn => e.value.expires = 0
    /\ e.value.expires <= e.value.stored + 2 * Ttl[e.part]

\* No two slots have the same key.
KeysDiffer == \A i, j \in DOMAIN l1 : l1[i].key = l1[j].key /\ l1[i].key # NoKey => i = j

\* What a partition may hold.
Limit(p) == MaxEntries[p] + (IF p = FirstPart THEN crashes ELSE 0)

TableOK ==
    /\ l1 = [i \in DOMAIN l1 |-> l1[i]]
    /\ DOMAIN l1 \subseteq 1..Slots
    /\ \A i \in DOMAIN l1 : SlotOK(l1[i])

L1OK ==
    /\ TableOK /\ KeysDiffer
    /\ \A p \in Parts : Cardinality(Entries(p)) <= Limit(p)
    /\ Bytes(DOMAIN l1) <= L1MaxBytes

LEMMA LimitNat ==
    ASSUME crashes \in Nat, NEW p \in Parts
    PROVE  Limit(p) \in Nat \ {0} /\ MaxEntries[p] \in Nat \ {0} /\ MaxEntries[p] <= Limit(p)
BY OptionsAssumption DEF Limit

(* The bytes of the slots are finitely many, and a part has at most as many  *)
(* as the whole.                                                            *)
BytesOf(t, S) == UNION {{i} \X (1..t[i].value.length) : i \in S}

LEMMA BytesFinite ==
    ASSUME NEW t, NEW S \in SUBSET (1..Slots),
           \A i \in S : t[i].value.length \in Nat /\ t[i].value.length <= L1MaxBytes
    PROVE  IsFiniteSet(BytesOf(t, S)) /\ Cardinality(BytesOf(t, S)) \in Nat
<1>1. L1MaxBytes \in Nat
  BY OptionsAssumption
<1>2. IsFiniteSet(1..Slots) /\ IsFiniteSet(1..L1MaxBytes)
  BY <1>1, FS_Interval, SlotsAssumption
<1>3. IsFiniteSet((1..Slots) \X (1..L1MaxBytes))
  BY <1>2, FS_Product
<1>4. BytesOf(t, S) \subseteq (1..Slots) \X (1..L1MaxBytes)
  <2> SUFFICES ASSUME NEW b \in BytesOf(t, S) PROVE b \in (1..Slots) \X (1..L1MaxBytes)
    OBVIOUS
  <2>1. PICK i \in S : b \in {i} \X (1..t[i].value.length)
    BY DEF BytesOf
  <2>2. i \in 1..Slots /\ 1..t[i].value.length \subseteq 1..L1MaxBytes
    BY <1>1
  <2>3. QED
    BY <2>1, <2>2
<1>5. QED
  BY <1>3, <1>4, FS_Subset, FS_CardinalityType

LEMMA BytesMonotonic ==
    ASSUME NEW t, NEW u, NEW S \in SUBSET (1..Slots), NEW T \in SUBSET S,
           \A i \in S : t[i].value.length \in Nat /\ t[i].value.length <= L1MaxBytes,
           \A i \in T : u[i].value.length = t[i].value.length
    PROVE  Cardinality(BytesOf(u, T)) <= Cardinality(BytesOf(t, S))
<1>1. BytesOf(u, T) \subseteq BytesOf(t, S)
  BY DEF BytesOf
<1>2. QED
  BY <1>1, BytesFinite, FS_Subset

(* One slot more brings at most its length.                                 *)
LEMMA BytesAdd ==
    ASSUME NEW t, NEW S \in SUBSET (1..Slots), NEW i \in 1..Slots,
           \A j \in S \cup {i} : t[j].value.length \in Nat /\ t[j].value.length <= L1MaxBytes
    PROVE  Cardinality(BytesOf(t, S \cup {i})) <= Cardinality(BytesOf(t, S)) + t[i].value.length
<1>1. PICK n \in Nat : n = t[i].value.length
  OBVIOUS
<1> DEFINE own == {i} \X (1..n)
<1>2. IsFiniteSet(own) /\ Cardinality(own) = n
  BY RowSize
<1>3. BytesOf(t, S \cup {i}) = BytesOf(t, S) \cup own
  BY <1>1 DEF BytesOf
<1>4. IsFiniteSet(BytesOf(t, S)) /\ Cardinality(BytesOf(t, S)) \in Nat
  BY BytesFinite
<1> HIDE DEF own
<1>5. Cardinality(BytesOf(t, S) \cup own)
        = Cardinality(BytesOf(t, S)) + n - Cardinality(BytesOf(t, S) \cap own)
  BY <1>2, <1>4, FS_Union
<1>6. Cardinality(BytesOf(t, S) \cap own) \in Nat
  BY <1>4, FS_Intersection, FS_CardinalityType
<1>7. Cardinality(BytesOf(t, S) \cup own) <= Cardinality(BytesOf(t, S)) + n
  BY <1>4, <1>5, <1>6
<1>8. QED
  BY <1>1, <1>3, <1>7

-----------------------------------------------------------------------------
(* The choice of a slot.                                                    *)

(* A non-empty set of slots has a least recently used one.                  *)
LEMMA LeastRecentExists ==
    ASSUME TableOK, NEW S \in SUBSET DOMAIN l1, S # {}
    PROVE  LeastRecent(S) \in S /\ \A j \in S \ {LeastRecent(S)} : Older(LeastRecent(S), j)
<1>1. \A i \in S : l1[i].touched \in Nat /\ i \in Nat
  BY DEF TableOK, SlotOK, Slot
<1> DEFINE times == {l1[i].touched : i \in S}
<1>2. PICK t \in times : \A u \in times : t <= u
  <2>1. times \in SUBSET Nat /\ times # {}
    BY <1>1
  <2> HIDE DEF times
  <2>2. QED
    BY <2>1, LeastExists
<1> DEFINE oldest == {i \in S : l1[i].touched = t}
<1>3. PICK i \in oldest : \A j \in oldest : i <= j
  <2>1. oldest \in SUBSET Nat /\ oldest # {}
    BY <1>1
  <2> HIDE DEF oldest
  <2>2. QED
    BY <2>1, LeastExists
<1>4. i \in S /\ \A j \in S \ {i} : Older(i, j)
  <2> SUFFICES ASSUME NEW j \in S \ {i} PROVE Older(i, j)
    OBVIOUS
  <2>1. l1[i].touched <= l1[j].touched
    BY <1>2
  <2>2. CASE l1[j].touched = l1[i].touched
    BY <1>1, <1>3, <2>2 DEF Older
  <2>3. CASE l1[j].touched # l1[i].touched
    BY <1>1, <2>1, <2>3 DEF Older
  <2>4. QED
    BY <2>2, <2>3
<1>5. QED
  BY <1>4 DEF LeastRecent

(* The slot for a key exists.  If the key has a slot it is that one; if not,  *)
(* it is in use only when its partition, or the table, is full.             *)
LEMMA TargetIsSlot ==
    ASSUME L1OK, NEW k \in FullKeys
    PROVE  LET i == Target(k) IN
           /\ i \in 1..Slots
           /\ Holding(k) # {} => i \in Holding(k)
           /\ \/ i \in Entries(PartOf[k[1]])
              \/ Cardinality(Entries(PartOf[k[1]])) < MaxEntries[PartOf[k[1]]]
<1> DEFINE p == PartOf[k[1]]
           own == Entries(p)
           full == DOMAIN l1 = 1..Slots \/ Cardinality(own) >= MaxEntries[p]
<1>1. p \in Parts /\ MaxEntries[p] \in Nat \ {0} /\ k # NoKey
  BY PartsAssumption, OptionsAssumption DEF FullKeys
<1>2. own \subseteq DOMAIN l1 /\ DOMAIN l1 \subseteq 1..Slots /\ 1..Slots \subseteq Nat /\ 1..Slots # {}
  BY SlotsAssumption DEF Entries, L1OK, TableOK
<1>3. Cardinality(own) \in Nat /\ (own = {} => Cardinality(own) = 0)
  BY <1>2, SlotsFinite, FS_EmptySet
<1>4. CASE Holding(k) # {}
  <2>1. Holding(k) \subseteq DOMAIN l1
    BY DEF Holding
  <2>2. Min(Holding(k)) \in Holding(k)
    BY <1>2, <1>4, <2>1, MinIsLeast
  <2>3. Holding(k) \subseteq own
    BY <1>1 DEF Holding, Entries, L1OK, TableOK, SlotOK
  <2>4. QED
    BY <1>2, <1>4, <2>1, <2>2, <2>3 DEF Target
<1>5. CASE Holding(k) = {} /\ full /\ own # {}
  <2>1. Target(k) = LeastRecent(own)
    BY <1>5 DEF Target
  <2>2. LeastRecent(own) \in own
    BY <1>2, <1>5, LeastRecentExists DEF L1OK
  <2>3. QED
    BY <1>2, <1>5, <2>1, <2>2
<1>6. CASE Holding(k) = {} /\ full /\ own = {}
  <2>1. Target(k) = LeastRecent(DOMAIN l1)
    BY <1>6 DEF Target
  <2>2. DOMAIN l1 # {} /\ Cardinality(own) < MaxEntries[p]
    <3>1. Cardinality(own) = 0 /\ ~(0 >= MaxEntries[p])
      BY <1>1, <1>3, <1>6
    <3>2. DOMAIN l1 = 1..Slots
      BY <1>6, <3>1
    <3>3. QED
      BY <1>1, <1>2, <3>1, <3>2
  <2>3. LeastRecent(DOMAIN l1) \in DOMAIN l1
    BY <2>2, LeastRecentExists DEF L1OK
  <2>4. QED
    BY <1>2, <1>6, <2>1, <2>2, <2>3
<1>7. CASE Holding(k) = {} /\ ~full
  <2>1. Target(k) = Min((1..Slots) \ DOMAIN l1)
    BY <1>7 DEF Target
  <2>2. (1..Slots) \ DOMAIN l1 # {} /\ (1..Slots) \ DOMAIN l1 \subseteq Nat
    BY <1>2, <1>7
  <2>3. Target(k) \in 1..Slots
    BY <2>1, <2>2, MinIsLeast
  <2>4. Cardinality(own) < MaxEntries[p]
    BY <1>1, <1>3, <1>7
  <2>5. QED
    BY <1>7, <2>3, <2>4
<1>8. QED
  BY <1>4, <1>5, <1>6, <1>7

(* What the eviction leaves has room for the new value.                     *)
LEMMA VictimsMakeRoom ==
    ASSUME TableOK, NEW i \in 1..Slots, NEW length \in Nat, length <= L1MaxBytes
    PROVE  LET left == (DOMAIN l1 \ Victims(i, length)) \ {i}
           IN  Bytes(left) \in Nat /\ Bytes(left) + length <= L1MaxBytes
<1> DEFINE others == DOMAIN l1 \ {i}
           left == (DOMAIN l1 \ Victims(i, length)) \ {i}
           From(j) == {m \in others : ~Older(m, j)}
<1>1. L1MaxBytes \in Nat /\ DOMAIN l1 \subseteq 1..Slots
  BY OptionsAssumption DEF TableOK
<1>2. \A S : Bytes(S) = Cardinality(BytesOf(l1, S))
  BY DEF Bytes, BytesOf
<1>3. \A j \in DOMAIN l1 : l1[j].value.length \in Nat /\ l1[j].value.length <= L1MaxBytes
  BY DEF TableOK, SlotOK, Slot, Value
<1>4. \A S \in SUBSET DOMAIN l1 : Bytes(S) \in Nat
  <2> TAKE S \in SUBSET DOMAIN l1
  <2> QED BY <1>1, <1>2, <1>3, BytesFinite
<1>5. left = {j \in others : ~(Bytes(From(j)) + length > L1MaxBytes)}
  BY DEF Victims
<1>6. CASE left = {}
  <2>1. BytesOf(l1, {}) = {}
    BY DEF BytesOf
  <2>2. Bytes({}) = 0
    BY <1>2, <2>1, FS_EmptySet
  <2>3. QED
    BY <1>6, <2>2
<1>7. CASE left # {}
  <2> DEFINE j == LeastRecent(left)
  <2>1. j \in left /\ \A m \in left \ {j} : Older(j, m)
    BY <1>7, LeastRecentExists
  <2>2. left \subseteq From(j)
    <3> SUFFICES ASSUME NEW m \in left PROVE m \in others /\ ~Older(m, j)
      OBVIOUS
    <3>1. l1[m].touched \in Nat /\ l1[j].touched \in Nat /\ m \in Nat /\ j \in Nat
      BY <1>1, <2>1 DEF TableOK, SlotOK, Slot
    <3>2. m = j \/ Older(j, m)
      BY <2>1
    <3>3. QED
      BY <3>1, <3>2 DEF Older
  <2>3. From(j) \subseteq DOMAIN l1
    OBVIOUS
  <2>4. Bytes(left) <= Bytes(From(j))
    BY <1>1, <1>2, <1>3, <2>2, <2>3, BytesMonotonic
  <2>5. Bytes(From(j)) + length <= L1MaxBytes
    <3>1. ~(Bytes(From(j)) + length > L1MaxBytes) /\ Bytes(From(j)) \in Nat
      BY <1>4, <1>5, <2>1, <2>3
    <3> HIDE DEF From
    <3>2. QED
      BY <1>1, <3>1
  <2>6. QED
    BY <1>1, <1>4, <2>3, <2>4, <2>5
<1>8. QED
  BY <1>6, <1>7

-----------------------------------------------------------------------------
(* The steps of L1.                                                         *)

(* Freeing slots.                                                           *)
LEMMA WithoutKeeps ==
    ASSUME L1OK, crashes \in Nat, NEW S, l1' = Without(S), crashes' \in Nat, crashes' >= crashes
    PROVE  L1OK'
<1> DEFINE left == DOMAIN l1 \ S
<1>1. DOMAIN l1' = left /\ \A i \in left : l1'[i] = l1[i]
  BY DEF Without
<1>2. TableOK'
  BY <1>1 DEF L1OK, TableOK, Without
<1>3. KeysDiffer'
  BY <1>1 DEF L1OK, KeysDiffer
<1>4. ASSUME NEW p \in Parts PROVE Cardinality(Entries(p)') <= Limit(p)'
  <2>1. Entries(p)' \subseteq Entries(p) /\ Entries(p) \subseteq 1..Slots
    BY <1>1 DEF Entries, L1OK, TableOK
  <2>2. Cardinality(Entries(p)') <= Cardinality(Entries(p))
    BY <2>1, SlotsFinite, FS_Subset
  <2>3. Cardinality(Entries(p)') \in Nat /\ Cardinality(Entries(p)) \in Nat
    BY <2>1, SlotsFinite
  <2>4. Limit(p) <= Limit(p)' /\ Limit(p) \in Nat /\ Limit(p)' \in Nat
    BY OptionsAssumption DEF Limit
  <2>5. Cardinality(Entries(p)) <= Limit(p)
    BY DEF L1OK
  <2>6. QED
    BY <2>2, <2>3, <2>4, <2>5
<1>5. Bytes(DOMAIN l1)' <= L1MaxBytes
  <2>1. Bytes(DOMAIN l1)' = Cardinality(BytesOf(l1', left)) /\ Bytes(DOMAIN l1) = Cardinality(BytesOf(l1, DOMAIN l1))
    BY <1>1 DEF Bytes, BytesOf
  <2>2. \A j \in DOMAIN l1 : l1[j].value.length \in Nat /\ l1[j].value.length <= L1MaxBytes
    BY DEF L1OK, TableOK, SlotOK, Slot, Value
  <2>3. DOMAIN l1 \subseteq 1..Slots
    BY DEF L1OK, TableOK
  <2>4. Bytes(DOMAIN l1)' <= Bytes(DOMAIN l1)
    BY <1>1, <2>1, <2>2, <2>3, BytesMonotonic
  <2>5. Bytes(DOMAIN l1)' \in Nat /\ Bytes(DOMAIN l1) \in Nat
    BY <1>1, <2>1, <2>2, <2>3, BytesFinite
  <2>6. QED
    BY <2>4, <2>5, OptionsAssumption DEF L1OK
<1>6. QED
  BY <1>2, <1>3, <1>4, <1>5 DEF L1OK

(* A hit only marks its slot as used.                                       *)
LEMMA NextTickNat ==
    ASSUME TableOK, NEW i
    PROVE  NextTick(i) \in Nat
<1> DEFINE ticks == {0} \cup {l1[j].touched : j \in DOMAIN l1 \ {i}}
<1>1. NextTick(i) = 1 + Max(ticks)
  BY DEF NextTick
<1>2. ticks \subseteq Nat
  BY DEF TableOK, SlotOK, Slot
<1>3. IsFiniteSet(ticks)
  <2> DEFINE D == DOMAIN l1 \ {i}
             f == [j \in D |-> l1[j].touched]
             used == {l1[j].touched : j \in D}
  <2>1. IsFiniteSet(D)
    BY SlotsFinite DEF TableOK
  <2>2. f \in Surjection(D, used)
    BY DEF Surjection
  <2>3. IsFiniteSet(used)
    BY <2>1, <2>2, FS_Surjection
  <2>4. ticks = used \cup {0}
    OBVIOUS
  <2>5. QED
    BY <2>3, <2>4, FS_AddElement
<1>4. Max(ticks) \in Nat
  <2> HIDE DEF ticks
  <2>1. ticks # {}
    BY DEF ticks
  <2>2. QED
    BY <1>2, <1>3, <2>1, MaxIsGreatest
<1>5. QED
  BY <1>1, <1>4

LEMMA TouchKeeps ==
    ASSUME L1OK, crashes \in Nat, NEW i \in DOMAIN l1, NEW tick \in Nat,
           l1' = [l1 EXCEPT ![i].touched = tick], crashes' = crashes
    PROVE  L1OK'
<1>1. DOMAIN l1' = DOMAIN l1
  OBVIOUS
<1>2. \A j \in DOMAIN l1 : /\ l1'[j].key = l1[j].key /\ l1'[j].part = l1[j].part
                           /\ l1'[j].value = l1[j].value
                           /\ SlotOK(l1'[j])
  <2> SUFFICES ASSUME NEW j \in DOMAIN l1
               PROVE  /\ l1'[j].key = l1[j].key /\ l1'[j].part = l1[j].part
                      /\ l1'[j].value = l1[j].value
                      /\ SlotOK(l1'[j])
    OBVIOUS
  <2>1. SlotOK(l1[j])
    BY DEF L1OK, TableOK
  <2>2. l1'[j] = IF j = i THEN [l1[j] EXCEPT !.touched = tick] ELSE l1[j]
    BY DEF L1OK, TableOK
  <2>3. l1'[j] \in Slot /\ l1'[j].key = l1[j].key /\ l1'[j].part = l1[j].part /\ l1'[j].value = l1[j].value
    BY <2>1, <2>2 DEF SlotOK, Slot
  <2>4. QED
    BY <2>1, <2>3 DEF SlotOK
<1>3. TableOK'
  BY <1>1, <1>2 DEF L1OK, TableOK
<1>4. KeysDiffer'
  BY <1>1, <1>2 DEF L1OK, KeysDiffer
<1>5. \A p \in Parts : Entries(p)' = Entries(p) /\ Limit(p)' = Limit(p)
  BY <1>1, <1>2 DEF Entries, Limit
<1>6. Bytes(DOMAIN l1)' = Bytes(DOMAIN l1)
  <2>1. \A j \in DOMAIN l1 : l1'[j].value.length = l1[j].value.length
    BY <1>2
  <2>2. BytesOf(l1', DOMAIN l1) = BytesOf(l1, DOMAIN l1)
    BY <2>1 DEF BytesOf
  <2>3. Bytes(DOMAIN l1)' = Cardinality(BytesOf(l1', DOMAIN l1))
        /\ Bytes(DOMAIN l1) = Cardinality(BytesOf(l1, DOMAIN l1))
    BY <1>1 DEF Bytes, BytesOf
  <2>4. QED
    BY <2>2, <2>3
<1>7. QED
  BY <1>3, <1>4, <1>5, <1>6 DEF L1OK

(* A slot is filled: with the entry of key k, or with what a dead worker has *)
(* written of it.                                                           *)
LEMMA PutKeeps ==
    ASSUME L1OK, crashes \in Nat, NEW k \in FullKeys, NEW length \in Nat, length <= L1MaxBytes,
           NEW e, SlotOK(e), e.value.length <= length, e.key \in {k, NoKey},
           l1' = With(Target(k), e, Victims(Target(k), length)),
           crashes' \in Nat, crashes' >= crashes,
           e.part = PartOf[k[1]] \/ (e.part = FirstPart /\ crashes' >= crashes + 1)
    PROVE  L1OK'
<1> DEFINE t == Target(k)
           left == (DOMAIN l1 \ Victims(t, length)) \ {t}
<1>1. t \in 1..Slots
  BY TargetIsSlot
<1>2. DOMAIN l1' = left \cup {t} /\ l1'[t] = e /\ \A j \in left : l1'[j] = l1[j]
  BY DEF With
<1>3. left \subseteq DOMAIN l1 /\ DOMAIN l1 \subseteq 1..Slots
  BY DEF L1OK, TableOK
<1>4. TableOK'
  <2>1. l1' = [i \in DOMAIN l1' |-> l1'[i]]
    BY DEF With
  <2>2. DOMAIN l1' \subseteq 1..Slots
    BY <1>1, <1>2, <1>3
  <2>3. \A j \in DOMAIN l1' : SlotOK(l1'[j])
    BY <1>2, <1>3 DEF L1OK, TableOK
  <2>4. QED
    BY <2>1, <2>2, <2>3 DEF TableOK, SlotOK
<1>5. KeysDiffer'
  <2>1. ASSUME NEW j \in left, l1[j].key = k PROVE FALSE
    <3>1. j \in Holding(k)
      BY <1>3, <2>1 DEF Holding
    <3>2. t \in Holding(k)
      BY <3>1, TargetIsSlot
    <3>3. j # t /\ j \in DOMAIN l1 /\ t \in DOMAIN l1 /\ l1[t].key = k /\ l1[j].key = k
      BY <2>1, <3>2 DEF Holding
    <3>4. k # NoKey
      BY PartsAssumption DEF FullKeys
    <3>5. QED
      BY <3>3, <3>4 DEF L1OK, KeysDiffer
  <2>2. ASSUME NEW i \in left, NEW j \in left, l1[i].key = l1[j].key, l1[i].key # NoKey PROVE i = j
    BY <1>3, <2>2 DEF L1OK, KeysDiffer
  <2>3. QED
    BY <1>2, <2>1, <2>2 DEF KeysDiffer
<1>6. ASSUME NEW p \in Parts PROVE Cardinality(Entries(p)') <= Limit(p)'
  <2> DEFINE own == Entries(p)
             new == Entries(p)'
  <2>1. own \subseteq 1..Slots /\ new \subseteq own \cup {t} /\ (e.part # p => new \subseteq own \ {t})
    BY <1>2, <1>3 DEF Entries
  <2>2. new \subseteq 1..Slots
    BY <1>1, <2>1
  <2> SUFFICES Cardinality(new) <= Limit(p)'
    OBVIOUS
  <2> HIDE DEF new
  <2>3. /\ IsFiniteSet(own) /\ Cardinality(own) \in Nat
        /\ IsFiniteSet(new) /\ Cardinality(new) \in Nat
    BY <2>1, <2>2, SlotsFinite
  <2>4. Cardinality(own) <= Limit(p) /\ MaxEntries[p] <= Limit(p) /\ Limit(p) \in Nat /\ MaxEntries[p] \in Nat
    BY LimitNat DEF L1OK
  <2>5. Limit(p)' \in Nat /\ Limit(p)' >= Limit(p) /\ (p = FirstPart => Limit(p)' = Limit(p) + (crashes' - crashes))
    BY OptionsAssumption DEF Limit
  <2>6. IsFiniteSet(own \cup {t})
        /\ Cardinality(own \cup {t}) = IF t \in own THEN Cardinality(own) ELSE Cardinality(own) + 1
    BY <2>3, FS_AddElement
  <2>7. Cardinality(new) <= Cardinality(own \cup {t})
    BY <2>1, <2>6, FS_Subset
  <2>8. CASE e.part # p
    <3>1. Cardinality(new) <= Cardinality(own)
      BY <2>1, <2>3, <2>8, FS_Subset
    <3>2. QED
      BY <2>3, <2>4, <2>5, <3>1
  <2>9. CASE e.part = p /\ p = PartOf[k[1]]
    <3>1. t \in own \/ Cardinality(own) < MaxEntries[p]
      BY <2>9, TargetIsSlot
    <3> HIDE DEF own, t
    <3>2. QED
      BY <2>3, <2>4, <2>5, <2>6, <2>7, <3>1
  <2>10. CASE e.part = p /\ p = FirstPart /\ crashes' >= crashes + 1
    <3> HIDE DEF own, t
    <3>1. QED
      BY <2>3, <2>4, <2>5, <2>6, <2>7, <2>10
  <2>11. QED
    BY <2>8, <2>9, <2>10
<1>7. Bytes(DOMAIN l1)' <= L1MaxBytes
  <2>1. \A j \in DOMAIN l1 : l1[j].value.length \in Nat /\ l1[j].value.length <= L1MaxBytes
    BY DEF L1OK, TableOK, SlotOK, Slot, Value
  <2>2. \A j \in left \cup {t} : l1'[j].value.length \in Nat /\ l1'[j].value.length <= L1MaxBytes
    BY <1>2, <1>4 DEF TableOK, SlotOK, Slot, Value
  <2>3. Bytes(left) \in Nat /\ Bytes(left) + length <= L1MaxBytes
    BY <1>1, VictimsMakeRoom DEF L1OK
  <2>4. Bytes(left) = Cardinality(BytesOf(l1, left))
        /\ Bytes(DOMAIN l1)' = Cardinality(BytesOf(l1', left \cup {t}))
    BY <1>2 DEF Bytes, BytesOf
  <2> HIDE DEF left, t
  <2>5. BytesOf(l1', left) = BytesOf(l1, left)
    BY <1>2 DEF BytesOf
  <2>6. left \subseteq 1..Slots
    BY <1>3
  <2>7. Cardinality(BytesOf(l1', left \cup {t})) <= Cardinality(BytesOf(l1', left)) + l1'[t].value.length
    BY <1>1, <2>2, <2>6, BytesAdd
  <2>8. Cardinality(BytesOf(l1', left \cup {t})) \in Nat
    <3>1. left \cup {t} \subseteq 1..Slots
      BY <1>1, <2>6
    <3>2. QED
      BY <2>2, <3>1, BytesFinite
  <2>9. l1'[t].value.length \in Nat /\ l1'[t].value.length <= length
    BY <1>2, <2>2
  <2>10. QED
    <3> DEFINE all == Cardinality(BytesOf(l1', left \cup {t}))
               old == Bytes(left)
               new == l1'[t].value.length
    <3>1. all \in Nat /\ old \in Nat /\ new \in Nat /\ all <= old + new /\ new <= length
      BY <2>3, <2>4, <2>5, <2>7, <2>8, <2>9
    <3>2. Bytes(DOMAIN l1)' = all /\ old + length <= L1MaxBytes /\ L1MaxBytes \in Nat /\ length \in Nat
      BY <2>3, <2>4, OptionsAssumption
    <3> HIDE DEF all, old, new
    <3>3. QED
      BY <3>1, <3>2
<1>8. QED
  BY <1>4, <1>5, <1>6, <1>7 DEF L1OK

-----------------------------------------------------------------------------
(* The inductive invariant.                                                 *)

Creating == {"size", "init", "publish"}
Starters == {"open", "attach"} \cup Creating

\* What a worker is doing: it has the key and the partitions that its step
\* needs, and a value that was never torn and has its time from its source.
OpOK(o) ==
    /\ o \in Op
    /\ o.step \in {"get1", "get2", "promote", "fetch", "put1", "put2", "prune"} => o.key \in Keys
    /\ o.step \in {"clear1", "clear2"} => o.todo # <<>>
    /\ o.value.version # Torn
    /\ o.step = "promote" => o.value.expires <= o.value.stored + 2 * Ttl[PartOf[o.key]]
    /\ o.step \in {"put1", "put2"} => o.value.expires <= o.value.stored + Ttl[PartOf[o.key]]

OpsOK == op = [w \in Workers |-> op[w]] /\ \A w \in Workers : OpOK(op[w])

\* A record of L2 expires at most a ttl after it was stored.
RecordsOK ==
    /\ DOMAIN l2 \subseteq Keys
    /\ \A k \in DOMAIN l2 : /\ l2[k] \in Value /\ l2[k].version # Torn
                            /\ l2[k].expires <= l2[k].stored + Ttl[PartOf[k]]

\* One worker creates the segment, step by step; the others use it when it is ready.
SetupOK ==
    /\ \A w \in Workers : /\ At(w, "size") => segment = "empty"
                          /\ At(w, "init") => segment = "sized"
                          /\ At(w, "publish") => segment = "initialised"
                          /\ conf[w].shm => segment = "ready"
    /\ \A v, w \in Workers : op[v].step \in Creating /\ op[w].step \in Creating => v = w
    /\ \A w \in Workers : op[w].step \notin Starters /\ conf[w].enabled => conf[w].shm \/ w \in degraded

MutexOK ==
    /\ mutex \in Workers \cup {Free, Dead}
    /\ mutex \in Workers => conf[mutex].shm /\ op[mutex].step \in ShmSteps

RestOK ==
    /\ {now, crashes, calls} \subseteq Nat
    /\ conf \in [Workers -> Conf] /\ degraded \subseteq Workers
    /\ segment \in {"absent", "empty", "sized", "initialised", "ready"}
    /\ device \in [Keys -> Nat] /\ acked \in [Keys -> Nat]

IInv == L1OK /\ RecordsOK /\ OpsOK /\ SetupOK /\ MutexOK /\ RestOK

-----------------------------------------------------------------------------
(* What a step does to L1, as the code of the sections writes it.           *)

LEMMA SameKeeps ==
    ASSUME L1OK, crashes \in Nat, UNCHANGED l1, crashes' \in Nat, crashes' >= crashes
    PROVE  L1OK'
<1>1. l1' = Without({})
  BY DEF Without, L1OK, TableOK
<1>2. QED
  BY <1>1, WithoutKeeps

LEMMA ShmPutKeeps ==
    ASSUME L1OK, crashes \in Nat, NEW k \in FullKeys, NEW v \in Value, v.version # Torn,
           v.expires <= v.stored + 2 * Ttl[PartOf[k[1]]],
           ShmPut(k, v), crashes' \in Nat, crashes' >= crashes
    PROVE  L1OK'
<1>1. CASE v.length > L1MaxBytes
  BY <1>1, SameKeeps DEF ShmPut
<1>2. CASE ~(v.length > L1MaxBytes)
  <2> DEFINE e == [key |-> k, part |-> PartOf[k[1]], touched |-> NextTick(Target(k)), value |-> v]
  <2>1. l1' = With(Target(k), e, Victims(Target(k), v.length))
    BY <1>2 DEF ShmPut
  <2>2. v.length \in Nat /\ v.length <= L1MaxBytes
    BY <1>2, OptionsAssumption DEF Value
  <2>3. NextTick(Target(k)) \in Nat
    BY NextTickNat DEF L1OK
  <2>4. PartOf[k[1]] \in Parts
    BY PartsAssumption DEF FullKeys
  <2>5. SlotOK(e)
    BY <2>2, <2>3, <2>4 DEF SlotOK, Slot
  <2> HIDE DEF e
  <2>6. e.value.length <= v.length /\ e.key \in {k, NoKey} /\ e.part = PartOf[k[1]]
    BY <2>2 DEF e
  <2>7. QED
    BY <2>1, <2>2, <2>5, <2>6, PutKeeps
<1>3. QED
  BY <1>1, <1>2

(* What a dead worker has written of a slot.                                *)
LEMMA TornKeeps ==
    ASSUME L1OK, crashes \in Nat, NEW k \in FullKeys, NEW v \in Value, v.version # Torn,
           v.expires <= v.stored + 2 * Ttl[PartOf[k[1]]], v.length <= L1MaxBytes,
           NEW e \in TornEntries(k, v), l1' = With(Target(k), e, Victims(Target(k), v.length)),
           crashes' = crashes + 1
    PROVE  L1OK'
<1> DEFINE E(part, key, value) == [key |-> key, part |-> part, touched |-> 0, value |-> value]
           torn == [NoValue EXCEPT !.version = Torn]
           half == [torn EXCEPT !.length = v.length]
           late == [v EXCEPT !.expires = 0]
           p == PartOf[k[1]]
<1>1. /\ p \in Parts /\ FirstPart \in Parts /\ L1MaxBytes \in Nat
      /\ \A q \in Parts : Ttl[q] \in Nat
  BY PartsAssumption, OptionsAssumption DEF FullKeys
<1>2. /\ torn \in Value /\ half \in Value /\ late \in Value /\ late.version = v.version
      /\ torn.version = Torn /\ torn.length = 0 /\ half.length = v.length /\ late.length = v.length
      /\ torn.expires = 0 /\ half.expires = 0 /\ late.expires = 0
      /\ torn.stored = 0 /\ half.stored = 0 /\ late.stored = v.stored
  BY DEF Value, NoValue
<1>3. v.length \in Nat /\ v.stored \in Nat /\ v.expires \in Nat
  BY DEF Value
<1>4. TornEntries(k, v) = {E(FirstPart, NoKey, torn), E(p, NoKey, torn), E(p, k, torn),
                           E(p, k, half), E(p, k, late), E(p, k, v)}
  BY DEF TornEntries
<1> HIDE DEF torn, half, late
<1>5. ASSUME NEW part \in {FirstPart, p}, NEW key \in {NoKey, k}, NEW value \in {torn, half, late, v},
             part = p \/ key = NoKey, value \in {late, v} => part = p
      PROVE  LET x == E(part, key, value)
             IN  SlotOK(x) /\ x.value.length <= v.length /\ x.key \in {k, NoKey} /\ x.part \in {FirstPart, p}
  <2> DEFINE x == E(part, key, value)
  <2>1. value \in Value /\ value.length <= v.length /\ value.length <= L1MaxBytes
        /\ (value.version = Torn => value.expires = 0)
        /\ value.expires <= value.stored + 2 * Ttl[part]
    BY <1>1, <1>2, <1>3, <1>5
  <2>2. x.key = key /\ x.part = part /\ x.value = value /\ x \in Slot
    BY <1>1, <2>1 DEF Slot
  <2>3. key # NoKey => part = PartOf[key[1]]
    BY <1>5
  <2> HIDE DEF x
  <2>4. SlotOK(x)
    BY <2>1, <2>2, <2>3 DEF SlotOK
  <2>5. QED
    BY <2>1, <2>2, <2>4 DEF x
<1> DEFINE Good(x) == SlotOK(x) /\ x.value.length <= v.length /\ x.key \in {k, NoKey} /\ x.part \in {FirstPart, p}
<1>6. Good(e)
  <2>1. CASE e = E(FirstPart, NoKey, torn)
    <3>1. torn \in {late, v} => FirstPart = p
      BY <1>2
    <3>2. Good(E(FirstPart, NoKey, torn))
      BY <1>5, <3>1
    <3>3. QED
      BY <2>1, <3>2
  <2>2. \A key \in {NoKey, k}, value \in {torn, half, late, v} : Good(E(p, key, value))
    BY <1>5
  <2> HIDE DEF E, Good, p
  <2>3. CASE e # E(FirstPart, NoKey, torn)
    <3>1. \E key \in {NoKey, k}, value \in {torn, half, late, v} : e = E(p, key, value)
      BY <1>4, <2>3, Zenon
    <3>2. QED
      BY <2>2, <3>1, Zenon
  <2>4. QED
    BY <2>1, <2>3
<1>7. QED
  BY <1>3, <1>6, PutKeeps

-----------------------------------------------------------------------------
(* What a step does to the state of its worker.                             *)

LEMMA GotoOK ==
    ASSUME NEW o, OpOK(o), NEW s \in Steps, o.value.version # Torn,
           s \in {"get1", "get2", "promote", "fetch", "put1", "put2", "prune"} => o.key \in Keys,
           s \in {"clear1", "clear2"} => o.todo # <<>>,
           s = "promote" => o.value.expires <= o.value.stored + 2 * Ttl[PartOf[o.key]],
           s \in {"put1", "put2"} => o.value.expires <= o.value.stored + Ttl[PartOf[o.key]]
    PROVE  OpOK([o EXCEPT !.step = s]) /\ [o EXCEPT !.step = s].step = s
<1> DEFINE n == [o EXCEPT !.step = s]
<1>1. n \in Op /\ n.step = s /\ n.key = o.key /\ n.value = o.value /\ n.todo = o.todo
  BY DEF OpOK, Op
<1> HIDE DEF n
<1>2. OpOK(n)
  BY <1>1 DEF OpOK
<1>3. QED
  BY <1>1, <1>2 DEF n

LEMMA NoValueOK == NoValue \in Value /\ NoValue.version # Torn
BY DEF NoValue, Value, Torn

LEMMA BeginOK ==
    ASSUME NEW o \in Op, o.value = NoValue, o.step \in {"get1", "clear1", "open", "openL2", "idle"},
           o.step = "get1" => o.key \in Keys, o.step = "clear1" => o.todo # <<>>
    PROVE  OpOK(o)
BY NoValueOK DEF OpOK

LEMMA IdleOK ==
    /\ OpOK(Idle) /\ Idle \in Op /\ Idle.step = "idle" /\ Idle.value = NoValue
    /\ OpOK(Starting) /\ Starting.step = "open"
<1>1. Idle \in Op /\ Idle.step = "idle" /\ Idle.value = NoValue
  BY NoValueOK DEF Idle, Op, Steps
<1>2. Starting \in Op /\ Starting.step = "open" /\ Starting.value = NoValue
  BY <1>1 DEF Starting, Op, Steps, SetupSteps
<1>3. QED
  BY <1>1, <1>2, BeginOK

LEMMA OpStep ==
    ASSUME OpsOK, NEW w \in Workers, NEW o, OpOK(o), op' = [op EXCEPT ![w] = o]
    PROVE  OpsOK' /\ op'[w] = o /\ \A x \in Workers \ {w} : op'[x] = op[x]
BY DEF OpsOK, OpOK

(* A step that neither begins nor ends among the first ones keeps what is    *)
(* known of them, and of the mutex if its owner stays in a section.         *)
LEMMA AccessStep ==
    ASSUME OpsOK, SetupOK, MutexOK, NEW w \in Workers, NEW o, OpOK(o), op' = [op EXCEPT ![w] = o],
           op[w].step \notin Starters, o.step \notin Starters, UNCHANGED setupVars,
           mutex' \in {mutex, Free}, mutex' = w => o.step \in ShmSteps
    PROVE  OpsOK' /\ SetupOK' /\ MutexOK'
<1>1. OpsOK' /\ op'[w] = o /\ \A x \in Workers \ {w} : op'[x] = op[x]
  BY OpStep
<1>2. UNCHANGED <<segment, conf, degraded>>
  BY DEF setupVars
<1>3. SetupOK'
  BY <1>1, <1>2 DEF SetupOK, At, Starters, Creating
<1>4. MutexOK'
  BY <1>1, <1>2, WorkersAssumption DEF MutexOK, Free, Dead
<1>5. QED
  BY <1>1, <1>3, <1>4

LEMMA AccessKeeps ==
    ASSUME IInv, NEW w \in Workers, NEW o, OpOK(o), op' = [op EXCEPT ![w] = o],
           op[w].step \notin Starters, o.step \notin Starters, UNCHANGED setupVars,
           mutex' \in {mutex, Free}, mutex' = w => o.step \in ShmSteps,
           L1OK', RecordsOK', {now', crashes', calls'} \subseteq Nat,
           device' \in [Keys -> Nat], acked' \in [Keys -> Nat]
    PROVE  IInv'
<1>1. OpsOK' /\ SetupOK' /\ MutexOK'
  BY AccessStep DEF IInv
<1>2. RestOK'
  BY DEF IInv, RestOK, setupVars
<1>3. QED
  BY <1>1, <1>2 DEF IInv

(* Facts that every step starts from.                                       *)
LEMMA Start ==
    ASSUME IInv, NEW w \in Workers
    PROVE  /\ OpOK(op[w]) /\ op[w] \in Op /\ op[w].step \in Steps
           /\ conf[w] \in Conf
           /\ {now, crashes, calls} \subseteq Nat
           /\ (mutex = w => op[w].step \in ShmSteps /\ conf[w].shm)
BY DEF IInv, OpsOK, OpOK, Op, RestOK, MutexOK

LEMMA NoL1Step ==
    ASSUME IInv, UNCHANGED <<l1, crashes>>
    PROVE  L1OK'
BY SameKeeps DEF IInv, RestOK

(* What the calls of a script begin.                                        *)
LEMMA BeginKeeps ==
    ASSUME IInv, NEW w \in Workers,
           \/ \E k \in Keys : Read(w, k) \/ Refresh(w, k) \/ WriteAcked(w, k)
           \/ \E parts \in SUBSET Parts : ClearCache(w, parts)
    PROVE  IInv'
<1> USE DEF envVars, setupVars, boundVars, At
<1>1. op[w].step = "idle" /\ mutex # w
  BY Start DEF Read, Refresh, WriteAcked, ClearCache, ShmSteps
<1>2. "idle" \notin Starters /\ "get1" \notin Starters /\ "clear1" \notin Starters
  BY DEF Starters, Creating
<1>3. L1OK' /\ RecordsOK' /\ {now', crashes', calls'} \subseteq Nat
  <2>1. UNCHANGED <<l1, l2, now, crashes>> /\ calls' \in {calls, calls + 1}
    BY DEF Read, Refresh, WriteAcked, ClearCache
  <2>2. QED
    BY <2>1, Start, NoL1Step DEF IInv, RecordsOK
<1>4. device \in [Keys -> Nat] /\ acked \in [Keys -> Nat]
  BY DEF IInv, RestOK
<1>5. ASSUME NEW k \in Keys, Read(w, k) PROVE IInv'
  <2> DEFINE o == [Idle EXCEPT !.step = "get1", !.key = k]
  <2>1. o \in Op /\ o.step = "get1" /\ o.key = k /\ o.value = NoValue
    BY IdleOK DEF Op, Steps, AccessSteps, ShmSteps
  <2>2. op' = [op EXCEPT ![w] = o]
    BY <1>5 DEF Read
  <2> HIDE DEF o
  <2>3. QED
    BY <1>1, <1>2, <1>3, <1>4, <1>5, <2>1, <2>2, BeginOK, AccessKeeps DEF Read
<1>6. ASSUME NEW k \in Keys, Refresh(w, k) PROVE IInv'
  <2> DEFINE o == [Idle EXCEPT !.step = "clear1", !.key = k, !.todo = <<{PartOf[k]}>>]
  <2>1. <<{PartOf[k]}>> \in Seq(SUBSET Parts) /\ <<{PartOf[k]}>> # <<>>
    BY PartsAssumption
  <2>2. o \in Op /\ o.step = "clear1" /\ o.todo # <<>> /\ o.value = NoValue
    BY <2>1, IdleOK DEF Op, Steps, AccessSteps, ShmSteps
  <2>3. op' = [op EXCEPT ![w] = o]
    BY <1>6 DEF Refresh
  <2> HIDE DEF o
  <2>4. QED
    BY <1>1, <1>2, <1>3, <1>4, <1>6, <2>2, <2>3, BeginOK, AccessKeeps DEF Refresh
<1>7. ASSUME NEW k \in Keys, WriteAcked(w, k) PROVE IInv'
  <2> DEFINE o == [Idle EXCEPT !.step = "clear1", !.key = k, !.todo = ReadPartitions, !.ack = device[k] + 1]
  <2>1. ReadPartitions \in Seq(SUBSET Parts) /\ ReadPartitions # <<>> /\ device[k] + 1 \in Nat
    BY <1>4, OptionsAssumption
  <2>2. o \in Op /\ o.step = "clear1" /\ o.todo # <<>> /\ o.value = NoValue
    BY <2>1, IdleOK DEF Op, Steps, AccessSteps, ShmSteps
  <2>3. op' = [op EXCEPT ![w] = o] /\ device' = [device EXCEPT ![k] = device[k] + 1]
    BY <1>7 DEF WriteAcked
  <2>4. device' \in [Keys -> Nat]
    BY <1>4, <2>1, <2>3
  <2> HIDE DEF o
  <2>5. QED
    BY <1>1, <1>2, <1>3, <1>4, <1>7, <2>2, <2>3, <2>4, BeginOK, AccessKeeps DEF WriteAcked
<1>8. ASSUME NEW parts \in SUBSET Parts, ClearCache(w, parts) PROVE IInv'
  <2> DEFINE o == [Idle EXCEPT !.step = "clear1", !.todo = <<parts>>]
  <2>1. <<parts>> \in Seq(SUBSET Parts) /\ <<parts>> # <<>>
    OBVIOUS
  <2>2. o \in Op /\ o.step = "clear1" /\ o.todo # <<>> /\ o.value = NoValue
    BY <2>1, IdleOK DEF Op, Steps, AccessSteps, ShmSteps
  <2>3. op' = [op EXCEPT ![w] = o]
    BY <1>8 DEF ClearCache
  <2> HIDE DEF o
  <2>4. QED
    <3>1. OpOK(o)
      BY <2>2, BeginOK
    <3>2. UNCHANGED setupVars /\ mutex' = mutex /\ device' = device /\ acked' = acked
      BY <1>8 DEF ClearCache
    <3>3. op[w].step \notin Starters /\ o.step \notin Starters /\ mutex' # w
      BY <1>1, <1>2, <2>2, <3>2
    <3>4. device' \in [Keys -> Nat] /\ acked' \in [Keys -> Nat]
      BY <1>4, <3>2
    <3>5. QED
      BY <1>3, <2>3, <3>1, <3>2, <3>3, <3>4, AccessKeeps
<1>9. QED
  BY <1>5, <1>6, <1>7, <1>8

(* The mutex is taken; a section without L1 does nothing.                   *)
LEMMA LockKeeps ==
    ASSUME IInv, NEW w \in Workers, Lock(w)
    PROVE  IInv'
<1>1. UNCHANGED <<l1, l2, op, envVars, now, boundVars>> /\ mutex' = w
      /\ op[w].step \in ShmSteps /\ conf[w].shm
  BY DEF Lock
<1>2. L1OK'
  BY <1>1, NoL1Step DEF boundVars
<1>3. OpsOK' /\ RecordsOK' /\ RestOK'
  BY <1>1 DEF IInv, OpsOK, RecordsOK, RestOK, envVars, setupVars, boundVars
<1>4. SetupOK'
  BY <1>1 DEF IInv, SetupOK, At, envVars, setupVars
<1>5. MutexOK'
  BY <1>1 DEF MutexOK, envVars, setupVars
<1>6. QED
  BY <1>2, <1>3, <1>4, <1>5 DEF IInv

LEMMA SkipL1Keeps ==
    ASSUME IInv, NEW w \in Workers, SkipL1(w)
    PROVE  IInv'
<1> USE DEF envVars, setupVars, boundVars, At, Key
<1>1. UNCHANGED <<l1, mutex, l2, segment, conf, degraded, device, acked, now, crashes, calls>>
      /\ ~conf[w].shm /\ mutex # w
  BY Start DEF SkipL1
<1>2. L1OK' /\ RecordsOK' /\ {now', crashes', calls'} \subseteq Nat
      /\ device' \in [Keys -> Nat] /\ acked' \in [Keys -> Nat]
  BY <1>1, NoL1Step DEF IInv, RecordsOK, RestOK
<1>3. PICK o : /\ OpOK(o) /\ op' = [op EXCEPT ![w] = o]
               /\ op[w].step \in ShmSteps /\ o.step \notin Starters
  <2>1. OpOK(op[w])
    BY Start
  <2> DEFINE g(s) == [op[w] EXCEPT !.step = s]
  <2>2. {"get2", "put2", "clear2"} \subseteq Steps
    BY DEF Steps, AccessSteps
  <2>3. CASE At(w, "get1") /\ Goto(w, "get2")
    <3>1. OpOK(g("get2")) /\ g("get2").step = "get2"
      BY <2>1, <2>2, <2>3, GotoOK DEF OpOK
    <3>2. QED
      BY <2>3, <3>1 DEF Goto, ShmSteps, Starters, Creating
  <2>4. CASE At(w, "promote") /\ Done(w)
    BY <2>4, IdleOK DEF Done, ShmSteps, Starters, Creating
  <2>5. CASE At(w, "put1") /\ Goto(w, "put2")
    <3>1. OpOK(g("put2")) /\ g("put2").step = "put2"
      BY <2>1, <2>2, <2>5, GotoOK DEF OpOK
    <3>2. QED
      BY <2>5, <3>1 DEF Goto, ShmSteps, Starters, Creating
  <2>6. CASE At(w, "clear1") /\ Goto(w, "clear2")
    <3>1. OpOK(g("clear2")) /\ g("clear2").step = "clear2"
      BY <2>1, <2>2, <2>6, GotoOK DEF OpOK
    <3>2. QED
      BY <2>6, <3>1 DEF Goto, ShmSteps, Starters, Creating
  <2>7. QED
    BY <2>3, <2>4, <2>5, <2>6 DEF SkipL1
<1>4. op[w].step \notin Starters
  BY <1>3 DEF Starters, Creating, ShmSteps
<1>5. QED
  BY <1>1, <1>2, <1>3, <1>4, AccessKeeps

(* The sections under the mutex.                                            *)
LEMMA FullKeyOK ==
    ASSUME IInv, NEW w \in Workers, op[w].key \in Keys
    PROVE  FullKey(w) \in FullKeys /\ FullKey(w)[1] = op[w].key
BY Start DEF FullKey, FullKeys, Key, Conf

LEMMA SectionKeeps ==
    ASSUME IInv, NEW w \in Workers, mutex = w, mutex' = Free, NEW o, OpOK(o), o.step \notin Starters,
           op' = [op EXCEPT ![w] = o], L1OK', UNCHANGED <<l2, envVars, now, boundVars>>
    PROVE  IInv'
<1>1. op[w].step \notin Starters
  BY Start DEF ShmSteps, Starters, Creating
<1>2. RecordsOK' /\ {now', crashes', calls'} \subseteq Nat
      /\ device' \in [Keys -> Nat] /\ acked' \in [Keys -> Nat] /\ UNCHANGED setupVars
  BY DEF IInv, RecordsOK, RestOK, envVars, setupVars, boundVars
<1>3. mutex' # w
  BY WorkersAssumption DEF Free
<1>4. QED
  BY <1>1, <1>2, <1>3, AccessKeeps

LEMMA GetL1Keeps ==
    ASSUME IInv, NEW w \in Workers, GetL1(w)
    PROVE  IInv'
<1> DEFINE k == FullKey(w)
<1>1. mutex = w /\ mutex' = Free /\ op[w].step = "get1" /\ OpOK(op[w])
      /\ UNCHANGED <<l2, envVars, now, boundVars>>
  BY Start DEF GetL1, Owns, Unlock, At
<1>2. op[w].key \in Keys /\ crashes' = crashes /\ crashes \in Nat
  BY <1>1, Start DEF OpOK, boundVars
<1>3. ASSUME NEW i \in Holding(k), l1' = [l1 EXCEPT ![i].touched = NextTick(i)], Done(w) PROVE IInv'
  <2>1. i \in DOMAIN l1 /\ NextTick(i) \in Nat
    BY NextTickNat DEF Holding, IInv, L1OK
  <2>2. L1OK'
    BY <1>2, <1>3, <2>1, TouchKeeps DEF IInv
  <2>3. op' = [op EXCEPT ![w] = Idle] /\ "idle" \notin Starters
    BY <1>3 DEF Done, Starters, Creating
  <2>4. QED
    BY <1>1, <2>2, <2>3, IdleOK, SectionKeeps
<1>4. ASSUME l1' = Without(Holding(k)), Goto(w, "get2") PROVE IInv'
  <2>1. L1OK'
    BY <1>2, <1>4, WithoutKeeps DEF IInv
  <2> DEFINE o == [op[w] EXCEPT !.step = "get2"]
  <2>2. "get2" \in Steps /\ "get2" \notin Starters
    BY DEF Steps, AccessSteps, Starters, Creating
  <2>3. OpOK(o) /\ o.step = "get2"
    BY <1>1, <1>2, <2>2, GotoOK DEF OpOK
  <2>4. op' = [op EXCEPT ![w] = o]
    BY <1>4 DEF Goto
  <2>5. QED
    BY <1>1, <2>1, <2>2, <2>3, <2>4, SectionKeeps
<1>5. QED
  BY <1>3, <1>4 DEF GetL1

LEMMA PromoteKeeps ==
    ASSUME IInv, NEW w \in Workers, Promote(w)
    PROVE  IInv'
<1>1. mutex = w /\ mutex' = Free /\ op[w].step = "promote" /\ OpOK(op[w])
      /\ UNCHANGED <<l2, envVars, now, boundVars>>
  BY Start DEF Promote, Owns, Unlock, At
<1>2. op[w].key \in Keys /\ crashes' = crashes /\ crashes \in Nat
  BY <1>1, Start DEF OpOK, boundVars
<1>3. op[w].value \in Value /\ op[w].value.version # Torn
      /\ op[w].value.expires <= op[w].value.stored + 2 * Ttl[PartOf[op[w].key]]
  BY <1>1 DEF OpOK, Op
<1>4. L1OK'
  BY <1>2, <1>3, FullKeyOK, ShmPutKeeps DEF IInv, Promote
<1>5. op' = [op EXCEPT ![w] = Idle] /\ "idle" \notin Starters
  BY DEF Promote, Done, Starters, Creating
<1>6. QED
  BY <1>1, <1>4, <1>5, IdleOK, SectionKeeps

LEMMA PutL1Keeps ==
    ASSUME IInv, NEW w \in Workers, PutL1(w)
    PROVE  IInv'
<1>1. mutex = w /\ mutex' = Free /\ op[w].step = "put1" /\ OpOK(op[w])
      /\ UNCHANGED <<l2, envVars, now, boundVars>>
  BY Start DEF PutL1, Owns, Unlock, At
<1>2. op[w].key \in Keys /\ crashes' = crashes /\ crashes \in Nat
  BY <1>1, Start DEF OpOK, boundVars
<1>3. op[w].value \in Value /\ op[w].value.version # Torn
      /\ op[w].value.expires <= op[w].value.stored + Ttl[PartOf[op[w].key]]
  BY <1>1 DEF OpOK, Op
<1>4. op[w].value.expires <= op[w].value.stored + 2 * Ttl[PartOf[op[w].key]]
  <2>1. Ttl[PartOf[op[w].key]] \in Nat
    BY <1>2, PartsAssumption, OptionsAssumption
  <2>2. op[w].value.expires \in Nat /\ op[w].value.stored \in Nat
    BY <1>3 DEF Value
  <2>3. QED
    BY <1>3, <2>1, <2>2
<1>5. L1OK'
  BY <1>2, <1>3, <1>4, FullKeyOK, ShmPutKeeps DEF IInv, PutL1
<1> DEFINE o == [op[w] EXCEPT !.step = "put2"]
<1>6. "put2" \in Steps /\ "put2" \notin Starters
  BY DEF Steps, AccessSteps, Starters, Creating
<1>7. OpOK(o) /\ o.step = "put2"
  BY <1>1, <1>2, <1>3, <1>6, GotoOK
<1>8. op' = [op EXCEPT ![w] = o]
  BY DEF PutL1, Goto
<1>9. QED
  BY <1>1, <1>5, <1>6, <1>7, <1>8, SectionKeeps

LEMMA ClearL1Keeps ==
    ASSUME IInv, NEW w \in Workers, ClearL1(w)
    PROVE  IInv'
<1>1. mutex = w /\ mutex' = Free /\ op[w].step = "clear1" /\ OpOK(op[w])
      /\ UNCHANGED <<l2, envVars, now, boundVars>>
  BY Start DEF ClearL1, Owns, Unlock, At
<1>2. crashes' = crashes /\ crashes \in Nat
  BY <1>1, Start DEF boundVars
<1>3. L1OK'
  BY <1>2, WithoutKeeps DEF IInv, ClearL1
<1> DEFINE o == [op[w] EXCEPT !.step = "clear2"]
<1>4. "clear2" \in Steps /\ "clear2" \notin Starters
  BY DEF Steps, AccessSteps, Starters, Creating
<1>5. OpOK(o) /\ o.step = "clear2"
  BY <1>1, <1>4, GotoOK DEF OpOK
<1>6. op' = [op EXCEPT ![w] = o]
  BY DEF ClearL1, Goto
<1>7. QED
  BY <1>1, <1>3, <1>4, <1>5, <1>6, SectionKeeps

(* The steps outside of the mutex.                                          *)
LEMMA FreeStepKeeps ==
    ASSUME IInv, NEW w \in Workers, op[w].step \notin ShmSteps \cup Starters,
           NEW o, OpOK(o), o.step \notin Starters, op' = [op EXCEPT ![w] = o], RecordsOK',
           UNCHANGED <<l1, mutex, device, setupVars, now, boundVars>>, acked' \in [Keys -> Nat]
    PROVE  IInv'
<1>1. mutex # w
  BY Start
<1>2. {now', crashes', calls'} \subseteq Nat /\ device' \in [Keys -> Nat] /\ crashes' = crashes
  BY DEF IInv, RestOK, boundVars
<1>3. L1OK'
  BY <1>2, NoL1Step
<1>4. QED
  BY <1>1, <1>2, <1>3, AccessKeeps

LEMMA GetL2Keeps ==
    ASSUME IInv, NEW w \in Workers, GetL2(w)
    PROVE  IInv'
<1> DEFINE k == op[w].key
           v == [l2[k] EXCEPT !.expires = now + Ttl[PartOf[k]]]
<1>1. op[w].step = "get2" /\ OpOK(op[w]) /\ k \in Keys /\ op[w] \in Op /\ now \in Nat
  BY Start DEF GetL2, At, OpOK
<1>2. UNCHANGED <<l1, mutex, l2, envVars, now, boundVars>>
  BY DEF GetL2
<1>3. RecordsOK' /\ acked' \in [Keys -> Nat] /\ UNCHANGED <<device, setupVars>>
  BY <1>2 DEF IInv, RecordsOK, RestOK, envVars
<1>4. {"promote", "fetch"} \subseteq Steps /\ op[w].step \notin ShmSteps \cup Starters
      /\ "promote" \notin Starters /\ "fetch" \notin Starters
  BY <1>1 DEF Steps, AccessSteps, ShmSteps, Starters, Creating
<1>5. ASSUME k \in DOMAIN l2, Live(l2[k]),
             op' = [op EXCEPT ![w].step = "promote", ![w].value = v]
      PROVE  IInv'
  <2>1. l2[k] \in Value /\ l2[k].version # Torn /\ l2[k].expires <= l2[k].stored + Ttl[PartOf[k]]
    BY <1>5 DEF IInv, RecordsOK
  <2>2. Ttl[PartOf[k]] \in Nat
    BY <1>1, PartsAssumption, OptionsAssumption
  <2>3. v \in Value /\ v.version # Torn /\ v.stored = l2[k].stored /\ v.expires = now + Ttl[PartOf[k]]
    BY <1>1, <2>1, <2>2 DEF Value
  <2>4. v.expires <= v.stored + 2 * Ttl[PartOf[k]]
    BY <1>1, <1>5, <2>1, <2>2, <2>3 DEF Live, Value
  <2> HIDE DEF v
  <2> DEFINE o == [op[w] EXCEPT !.step = "promote", !.value = v]
  <2>5. o \in Op /\ o.step = "promote" /\ o.value = v /\ o.key = k
    BY <1>1, <1>4, <2>3 DEF Op
  <2>6. op' = [op EXCEPT ![w] = o]
    BY <1>5
  <2> HIDE DEF o
  <2>7. OpOK(o)
    BY <1>1, <2>3, <2>4, <2>5 DEF OpOK
  <2>8. QED
    BY <1>2, <1>3, <1>4, <2>5, <2>6, <2>7, FreeStepKeeps
<1>6. ASSUME Goto(w, "fetch") PROVE IInv'
  <2> DEFINE o == [op[w] EXCEPT !.step = "fetch"]
  <2>1. OpOK(o) /\ o.step = "fetch"
    BY <1>1, <1>4, GotoOK DEF OpOK
  <2>2. op' = [op EXCEPT ![w] = o]
    BY <1>6 DEF Goto
  <2>3. QED
    BY <1>2, <1>3, <1>4, <2>1, <2>2, FreeStepKeeps
<1>7. QED
  BY <1>5, <1>6 DEF GetL2, Key

LEMMA FetchKeeps ==
    ASSUME IInv, NEW w \in Workers, FetchFails(w) \/ \E length \in Lengths : Fetch(w, length)
    PROVE  IInv'
<1> DEFINE k == op[w].key
<1>1. op[w].step = "fetch" /\ OpOK(op[w]) /\ k \in Keys /\ op[w] \in Op /\ now \in Nat
  BY Start DEF Fetch, FetchFails, At, OpOK
<1>2. UNCHANGED <<l1, mutex, l2, envVars, now, boundVars>>
  BY DEF Fetch, FetchFails
<1>3. RecordsOK' /\ acked' \in [Keys -> Nat] /\ UNCHANGED <<device, setupVars>> /\ device \in [Keys -> Nat]
  BY <1>2 DEF IInv, RecordsOK, RestOK, envVars
<1>4. "put1" \in Steps /\ op[w].step \notin ShmSteps \cup Starters
      /\ "put1" \notin Starters /\ "idle" \notin Starters
  BY <1>1 DEF Steps, AccessSteps, ShmSteps, Starters, Creating
<1>5. ASSUME NEW length \in Lengths, Fetch(w, length) PROVE IInv'
  <2> DEFINE v == [version |-> device[k], length |-> length, expires |-> now + Ttl[PartOf[k]], stored |-> now]
             o == [op[w] EXCEPT !.step = "put1", !.value = v]
  <2>1. Ttl[PartOf[k]] \in Nat /\ length \in Nat /\ device[k] \in Nat
    BY <1>1, <1>3, PartsAssumption, OptionsAssumption
  <2>2. v \in Value /\ v.version # Torn /\ v.expires <= v.stored + Ttl[PartOf[k]]
    BY <1>1, <2>1 DEF Value, Torn
  <2>3. op' = [op EXCEPT ![w] = o]
    BY <1>5 DEF Fetch, Key
  <2> HIDE DEF v
  <2>4. o \in Op /\ o.step = "put1" /\ o.value = v /\ o.key = k
    BY <1>1, <1>4, <2>2 DEF Op
  <2> HIDE DEF o
  <2>5. OpOK(o)
    BY <1>1, <2>2, <2>4 DEF OpOK
  <2>6. QED
    BY <1>2, <1>3, <1>4, <2>3, <2>4, <2>5, FreeStepKeeps
<1>6. ASSUME FetchFails(w) PROVE IInv'
  BY <1>2, <1>3, <1>4, <1>6, IdleOK, FreeStepKeeps DEF FetchFails, Done
<1>7. QED
  BY <1>5, <1>6

LEMMA PutL2Keeps ==
    ASSUME IInv, NEW w \in Workers, PutL2(w) \/ PutWithoutL2(w)
    PROVE  IInv'
<1> DEFINE k == op[w].key
<1>1. op[w].step = "put2" /\ OpOK(op[w]) /\ k \in Keys /\ op[w] \in Op
  BY Start DEF PutL2, PutWithoutL2, At, OpOK
<1>2. UNCHANGED <<l1, mutex, envVars, now, boundVars>>
  BY DEF PutL2, PutWithoutL2
<1>3. acked' \in [Keys -> Nat] /\ UNCHANGED <<device, setupVars>>
  BY <1>2 DEF IInv, RestOK, envVars
<1>4. "prune" \in Steps /\ op[w].step \notin ShmSteps \cup Starters
      /\ "prune" \notin Starters /\ "idle" \notin Starters
  BY <1>1 DEF Steps, AccessSteps, ShmSteps, Starters, Creating
<1>5. ASSUME PutL2(w) PROVE IInv'
  <2> DEFINE o == [op[w] EXCEPT !.step = "prune", !.value = NoValue]
  <2>1. o \in Op /\ o.step = "prune" /\ o.value = NoValue /\ o.key = k
    BY <1>1, <1>4, NoValueOK DEF Op
  <2>2. op' = [op EXCEPT ![w] = o]
    BY <1>5 DEF PutL2
  <2> HIDE DEF o
  <2>3. OpOK(o)
    BY <1>1, <2>1, NoValueOK DEF OpOK
  <2>4. RecordsOK'
    <3>1. CASE UNCHANGED l2
      BY <3>1 DEF IInv, RecordsOK
    <3>2. CASE l2' = [x \in DOMAIN l2 \cup {k} |-> IF x = k THEN op[w].value ELSE l2[x]]
      <4>1. op[w].value \in Value /\ op[w].value.version # Torn
            /\ op[w].value.expires <= op[w].value.stored + Ttl[PartOf[k]]
        BY <1>1 DEF OpOK, Op
      <4>2. QED
        BY <1>1, <3>2, <4>1 DEF IInv, RecordsOK
    <3>3. QED
      BY <1>5, <3>1, <3>2 DEF PutL2, Key
  <2>5. QED
    BY <1>2, <1>3, <1>4, <2>1, <2>2, <2>3, <2>4, FreeStepKeeps
<1>6. ASSUME PutWithoutL2(w) PROVE IInv'
  <2>1. RecordsOK'
    BY <1>6 DEF IInv, RecordsOK, PutWithoutL2
  <2>2. QED
    BY <1>2, <1>3, <1>4, <1>6, <2>1, IdleOK, FreeStepKeeps DEF PutWithoutL2, Done
<1>7. QED
  BY <1>5, <1>6

(* Records only go.                                                         *)
LEMMA FewerRecords ==
    ASSUME RecordsOK, NEW S \in SUBSET DOMAIN l2, l2' = [k \in S |-> l2[k]]
    PROVE  RecordsOK'
BY DEF RecordsOK

LEMMA PruneKeeps ==
    ASSUME IInv, NEW w \in Workers, Prune(w)
    PROVE  IInv'
<1>1. op[w].step = "prune" /\ op' = [op EXCEPT ![w] = Idle]
      /\ UNCHANGED <<l1, mutex, envVars, now, boundVars>>
  BY DEF Prune, At, Done
<1>2. acked' \in [Keys -> Nat] /\ UNCHANGED <<device, setupVars>>
  BY <1>1 DEF IInv, RestOK, envVars
<1>3. op[w].step \notin ShmSteps \cup Starters /\ "idle" \notin Starters
  BY <1>1 DEF ShmSteps, Starters, Creating
<1>4. RecordsOK'
  <2>1. CASE UNCHANGED l2
    BY <2>1 DEF IInv, RecordsOK
  <2>2. CASE ~UNCHANGED l2
    <3>1. \E S \in SUBSET DOMAIN l2 : l2' = [k \in S |-> l2[k]]
      BY <2>2 DEF Prune
    <3>2. QED
      BY <3>1, FewerRecords DEF IInv
  <2>3. QED
    BY <2>1, <2>2
<1>5. QED
  BY <1>1, <1>2, <1>3, <1>4, IdleOK, FreeStepKeeps

LEMMA ClearL2Keeps ==
    ASSUME IInv, NEW w \in Workers, ClearL2(w)
    PROVE  IInv'
<1>1. op[w].step = "clear2" /\ OpOK(op[w]) /\ op[w] \in Op /\ op[w].todo # <<>>
      /\ UNCHANGED <<l1, mutex, device, setupVars, now, boundVars>>
  BY Start DEF ClearL2, At, OpOK
<1>2. op[w].step \notin ShmSteps \cup Starters
      /\ {"idle", "clear1", "fetch"} \cap Starters = {} /\ {"clear1", "fetch"} \subseteq Steps
  BY <1>1 DEF ShmSteps, Starters, Creating, Steps, AccessSteps
<1>3. RecordsOK'
  <2>1. CASE UNCHANGED l2
    BY <2>1 DEF IInv, RecordsOK
  <2>2. CASE ~UNCHANGED l2
    <3> DEFINE S == {x \in DOMAIN l2 : PartOf[x] \notin Head(op[w].todo)}
    <3>1. S \in SUBSET DOMAIN l2 /\ l2' = [k \in S |-> l2[k]]
      BY <2>2 DEF ClearL2
    <3>2. QED
      BY <3>1, FewerRecords DEF IInv
  <2>3. QED
    BY <2>1, <2>2
<1>4. AfterClear(w) /\ acked \in [Keys -> Nat]
  BY DEF ClearL2, IInv, RestOK
<1> DEFINE rest == Tail(op[w].todo)
<1>5. CASE rest # <<>> /\ op' = [op EXCEPT ![w].step = "clear1", ![w].todo = rest] /\ UNCHANGED acked
  <2> DEFINE o == [op[w] EXCEPT !.step = "clear1", !.todo = rest]
  <2>1. rest \in Seq(SUBSET Parts)
    BY <1>1 DEF Op
  <2>2. o \in Op /\ o.step = "clear1" /\ o.todo = rest /\ o.value = op[w].value
    BY <1>1, <1>2, <2>1 DEF Op
  <2>3. op' = [op EXCEPT ![w] = o]
    BY <1>5
  <2> HIDE DEF o
  <2>4. OpOK(o)
    BY <1>1, <1>5, <2>2 DEF OpOK
  <2>5. QED
    BY <1>1, <1>2, <1>3, <1>4, <1>5, <2>2, <2>3, <2>4, FreeStepKeeps
<1>6. CASE /\ op[w].ack > 0 /\ Done(w)
           /\ acked' = IF op[w].ack > acked[Key(w)] THEN [acked EXCEPT ![Key(w)] = op[w].ack] ELSE acked
  <2>1. op[w].ack \in Nat
    BY <1>1 DEF Op
  <2>2. acked' \in [Keys -> Nat]
    BY <1>4, <1>6, <2>1
  <2>3. QED
    BY <1>1, <1>2, <1>3, <1>6, <2>2, IdleOK, FreeStepKeeps DEF Done
<1>7. CASE Done(w) /\ UNCHANGED acked
  BY <1>1, <1>2, <1>3, <1>4, <1>7, IdleOK, FreeStepKeeps DEF Done
<1>8. CASE Key(w) # NoKey /\ op' = [op EXCEPT ![w].step = "fetch", ![w].todo = <<>>] /\ UNCHANGED acked
  <2> DEFINE o == [op[w] EXCEPT !.step = "fetch", !.todo = <<>>]
  <2>1. <<>> \in Seq(SUBSET Parts) /\ op[w].key \in Keys
    BY <1>1, <1>8 DEF Op, Key
  <2>2. o \in Op /\ o.step = "fetch" /\ o.key = op[w].key /\ o.value = op[w].value
    BY <1>1, <1>2, <2>1 DEF Op
  <2>3. op' = [op EXCEPT ![w] = o]
    BY <1>8
  <2> HIDE DEF o
  <2>4. OpOK(o)
    BY <1>1, <2>1, <2>2 DEF OpOK
  <2>5. QED
    BY <1>1, <1>2, <1>3, <1>4, <1>8, <2>2, <2>3, <2>4, FreeStepKeeps
<1>9. QED
  BY <1>4, <1>5, <1>6, <1>7, <1>8 DEF AfterClear

-----------------------------------------------------------------------------
(* The creation of the segment, the options and the death of a worker.      *)

LEMMA AfterOpenOK ==
    ASSUME NEW w \in Workers, OpOK(op[w]), AfterOpen(w)
    PROVE  \E o : OpOK(o) /\ op' = [op EXCEPT ![w] = o] /\ o.step \in {"openL2", "clear1", "idle"}
<1>1. {"openL2", "clear1"} \subseteq Steps
  BY DEF Steps, AccessSteps, ShmSteps, SetupSteps
<1>2. CASE Goto(w, "openL2")
  <2>1. OpOK([op[w] EXCEPT !.step = "openL2"]) /\ [op[w] EXCEPT !.step = "openL2"].step = "openL2"
    BY <1>1, GotoOK DEF OpOK
  <2>2. QED
    BY <1>2, <2>1 DEF Goto
<1>3. CASE op[w].todo # <<>> /\ Goto(w, "clear1")
  <2>1. OpOK([op[w] EXCEPT !.step = "clear1"]) /\ [op[w] EXCEPT !.step = "clear1"].step = "clear1"
    BY <1>1, <1>3, GotoOK DEF OpOK
  <2>2. QED
    BY <1>3, <2>1 DEF Goto
<1>4. CASE Done(w)
  BY <1>4, IdleOK DEF Done
<1>5. QED
  BY <1>2, <1>3, <1>4 DEF AfterOpen

(* A worker outside of the sections moves on, or dies; the levels of the others, and  *)
(* who owns the mutex, stay.                                                *)
LEMMA OpenKeeps ==
    ASSUME IInv, NEW w \in Workers, NEW o, OpOK(o), op' = [op EXCEPT ![w] = o],
           mutex # w \/ mutex' = Dead, mutex' \in {mutex, Free, Dead}, L1OK', RecordsOK', SetupOK',
           {now', crashes', calls'} \subseteq Nat,
           NEW c \in Conf, conf' = [conf EXCEPT ![w] = c], degraded' \subseteq Workers,
           segment' \in {"absent", "empty", "sized", "initialised", "ready"},
           UNCHANGED <<device, acked>>
    PROVE  IInv'
<1>1. OpsOK' /\ op'[w] = o /\ \A x \in Workers \ {w} : op'[x] = op[x]
  BY OpStep DEF IInv
<1>2. conf' \in [Workers -> Conf] /\ \A x \in Workers \ {w} : conf'[x] = conf[x]
  BY DEF IInv, RestOK
<1>3. MutexOK'
  BY <1>1, <1>2, WorkersAssumption DEF IInv, MutexOK, Free, Dead
<1>4. RestOK'
  BY <1>2 DEF IInv, RestOK
<1>5. QED
  BY <1>1, <1>3, <1>4 DEF IInv

(* L1 opened or not, by a worker that is not the owner of the mutex.        *)
LEMMA WithoutL1Keeps ==
    ASSUME IInv, NEW w \in Workers, op[w].step \in Starters, WithoutL1(w),
           UNCHANGED <<l1, mutex, l2, segment, device, acked, now, calls>>,
           crashes' \in {crashes, crashes + 1}
    PROVE  IInv'
<1>1. OpOK(op[w]) /\ conf[w] \in Conf /\ {now, crashes, calls} \subseteq Nat /\ mutex # w
  BY Start DEF Starters, Creating, ShmSteps
<1>2. PICK o : OpOK(o) /\ op' = [op EXCEPT ![w] = o] /\ o.step \in {"openL2", "clear1", "idle"}
  BY <1>1, AfterOpenOK DEF WithoutL1
<1>3. op'[w] = o /\ \A x \in Workers \ {w} : op'[x] = op[x]
  BY <1>2, OpStep DEF IInv
<1>4. L1OK' /\ RecordsOK' /\ {now', crashes', calls'} \subseteq Nat
  BY <1>1, SameKeeps DEF IInv, RecordsOK
<1>5. UNCHANGED conf /\ degraded' = degraded \cup {w}
  BY DEF WithoutL1
<1>6. conf' = [conf EXCEPT ![w] = conf[w]] /\ degraded' \subseteq Workers
      /\ segment' \in {"absent", "empty", "sized", "initialised", "ready"}
  BY <1>5 DEF IInv, RestOK
<1>7. SetupOK'
  BY <1>2, <1>3, <1>5 DEF IInv, SetupOK, Starters, Creating, At
<1>8. QED
  BY <1>1, <1>2, <1>4, <1>6, <1>7, OpenKeeps

LEMMA WithL1Keeps ==
    ASSUME IInv, NEW w \in Workers, op[w].step \in Starters, WithL1(w),
           segment' = "ready", segment = "ready" \/ op[w].step \in Creating,
           UNCHANGED <<l1, mutex, l2, device, acked, now, boundVars>>
    PROVE  IInv'
<1>1. OpOK(op[w]) /\ conf[w] \in Conf /\ {now, crashes, calls} \subseteq Nat /\ mutex # w
  BY Start DEF Starters, Creating, ShmSteps
<1>2. PICK o : OpOK(o) /\ op' = [op EXCEPT ![w] = o] /\ o.step \in {"openL2", "clear1", "idle"}
  BY <1>1, AfterOpenOK DEF WithL1
<1>3. op'[w] = o /\ \A x \in Workers \ {w} : op'[x] = op[x]
  BY <1>2, OpStep DEF IInv
<1>4. L1OK' /\ RecordsOK' /\ {now', crashes', calls'} \subseteq Nat
  BY <1>1, SameKeeps DEF IInv, RecordsOK, boundVars
<1> DEFINE c == [conf[w] EXCEPT !.shm = TRUE]
<1>5. c \in Conf /\ c.shm /\ c.enabled = conf[w].enabled
  BY <1>1 DEF Conf
<1>6. conf' = [conf EXCEPT ![w] = c] /\ degraded' = degraded \ {w} /\ degraded \subseteq Workers
  BY DEF WithL1, IInv, RestOK
<1> HIDE DEF c
<1>7. conf'[w] = c /\ \A x \in Workers \ {w} : conf'[x] = conf[x]
  BY <1>6 DEF IInv, RestOK
<1>8. \A x \in Workers \ {w} : op[x].step \notin Creating
  BY DEF IInv, SetupOK, Creating, At
<1>9. SetupOK'
  BY <1>2, <1>3, <1>5, <1>6, <1>7, <1>8 DEF IInv, SetupOK, Starters, Creating, At
<1>10. QED
  BY <1>1, <1>2, <1>4, <1>5, <1>6, <1>9, OpenKeeps

(* The worker goes on to step s, while the segment changes or not.          *)
LEMMA CreateKeeps ==
    ASSUME IInv, NEW w \in Workers, NEW s \in Creating \cup {"attach"}, Goto(w, s),
           op[w].step \in Starters, mutex' \in {mutex, Free}, L1OK', SetupOK',
           segment' \in {"absent", "empty", "sized", "initialised", "ready"},
           UNCHANGED <<l2, conf, degraded, device, acked, now, boundVars>>
    PROVE  IInv'
<1>1. OpOK(op[w]) /\ conf[w] \in Conf /\ {now, crashes, calls} \subseteq Nat /\ mutex # w
  BY Start DEF Starters, Creating, ShmSteps
<1> DEFINE o == [op[w] EXCEPT !.step = s]
<1>2. s \in Steps
  BY DEF Steps, SetupSteps, Creating
<1>3. OpOK(o) /\ op' = [op EXCEPT ![w] = o]
  BY <1>1, <1>2, GotoOK DEF Goto, OpOK, Creating
<1> HIDE DEF o
<1>4. RecordsOK' /\ {now', crashes', calls'} \subseteq Nat
  BY <1>1 DEF IInv, RecordsOK, boundVars
<1>5. conf' = [conf EXCEPT ![w] = conf[w]] /\ degraded' \subseteq Workers
  BY DEF IInv, RestOK
<1>6. QED
  BY <1>1, <1>3, <1>4, <1>5, OpenKeeps

LEMMA CreationKeeps ==
    ASSUME IInv, NEW w \in Workers,
           \/ OpenSegment(w) \/ SizeSegment(w) \/ InitSegment(w) \/ PublishSegment(w) \/ Attach(w)
    PROVE  IInv'
<1> USE DEF boundVars
<1>1. OpOK(op[w]) /\ {now, crashes, calls} \subseteq Nat /\ op \in [Workers -> Op]
  BY Start DEF IInv, OpsOK, OpOK
<1>2. op[w].step \in Starters
  BY DEF OpenSegment, SizeSegment, InitSegment, PublishSegment, Attach, At, Starters, Creating
<1>3. ASSUME NEW s, Goto(w, s) PROVE op'[w].step = s /\ \A x \in Workers \ {w} : op'[x] = op[x]
  BY <1>1, <1>3 DEF Goto, Op
<1>4. ASSUME UNCHANGED <<l1, crashes>> PROVE L1OK'
  BY <1>4, NoL1Step
<1>5. ASSUME NEW x \in Workers, op[x].step \in Creating PROVE segment \in {"empty", "sized", "initialised"}
  BY <1>5 DEF IInv, SetupOK, Creating, At
<1>6. CASE OpenSegment(w)
  <2>1. CASE segment = "absent" /\ segment' = "empty" /\ Goto(w, "size") /\ UNCHANGED <<conf, degraded, boundVars>>
    <3>1. \A x \in Workers : op[x].step \notin Creating
      BY <1>5, <2>1
    <3>2. SetupOK'
      BY <1>3, <2>1, <3>1 DEF IInv, SetupOK, Starters, Creating, At
    <3>3. QED
      BY <1>2, <1>4, <1>6, <2>1, <3>2, CreateKeeps DEF OpenSegment, Creating
  <2>2. CASE Goto(w, "attach") /\ UNCHANGED <<segment, conf, degraded, boundVars>>
    <3>1. SetupOK'
      BY <1>3, <2>2 DEF IInv, SetupOK, Starters, Creating, At
    <3>2. QED
      BY <1>2, <1>4, <1>6, <2>2, <3>1, CreateKeeps DEF OpenSegment, IInv, RestOK
  <2>3. CASE Fails /\ WithoutL1(w) /\ UNCHANGED segment
    BY <1>2, <1>6, <2>3, WithoutL1Keeps DEF OpenSegment, Fails
  <2>4. QED
    BY <1>6, <2>1, <2>2, <2>3 DEF OpenSegment
<1>7. CASE SizeSegment(w)
  <2>1. CASE segment' = "sized" /\ Goto(w, "init") /\ UNCHANGED <<conf, degraded, boundVars>>
    <3>1. op[w].step = "size" /\ \A x \in Workers \ {w} : op[x].step \notin Creating
      BY <1>7 DEF SizeSegment, At, IInv, SetupOK, Creating
    <3>2. \A x \in Workers : ~conf[x].shm
      BY <3>1 DEF IInv, SetupOK, At
    <3>3. SetupOK'
      BY <1>3, <2>1, <3>1, <3>2 DEF IInv, SetupOK, Starters, Creating, At
    <3>4. QED
      BY <1>2, <1>4, <1>7, <2>1, <3>3, CreateKeeps DEF SizeSegment, Creating
  <2>2. CASE Fails /\ WithoutL1(w) /\ UNCHANGED segment
    BY <1>2, <1>7, <2>2, WithoutL1Keeps DEF SizeSegment, Fails
  <2>3. QED
    BY <1>7, <2>1, <2>2 DEF SizeSegment
<1>8. CASE InitSegment(w)
  <2>1. op[w].step = "init" /\ \A x \in Workers \ {w} : op[x].step \notin Creating
    BY <1>8 DEF InitSegment, At, IInv, SetupOK, Creating
  <2>2. \A x \in Workers : ~conf[x].shm
    BY <2>1 DEF IInv, SetupOK, At
  <2>3. Goto(w, "publish") /\ segment' = "initialised" /\ UNCHANGED <<conf, degraded>>
    BY <1>8 DEF InitSegment
  <2>4. SetupOK'
    BY <1>3, <2>1, <2>2, <2>3 DEF IInv, SetupOK, Starters, Creating, At
  <2>5. l1' = Without(DOMAIN l1)
    BY <1>8 DEF InitSegment, Without
  <2>6. L1OK'
    BY <1>1, <1>8, <2>5, WithoutKeeps DEF InitSegment, IInv
  <2>7. QED
    BY <1>2, <1>8, <2>3, <2>4, <2>6, CreateKeeps DEF InitSegment, Creating
<1>9. CASE PublishSegment(w)
  BY <1>2, <1>9, WithL1Keeps DEF PublishSegment, Creating, At
<1>10. CASE Attach(w)
  <2>1. CASE segment = "ready"
    BY <1>2, <1>10, <2>1, WithL1Keeps DEF Attach
  <2>2. CASE segment # "ready"
    BY <1>2, <1>10, <2>2, WithoutL1Keeps DEF Attach
  <2>3. QED
    BY <2>1, <2>2
<1>11. QED
  BY <1>6, <1>7, <1>8, <1>9, <1>10

(* A worker ends; another one starts in its place.                          *)
LEMMA RestartKeeps ==
    ASSUME IInv, NEW w \in Workers, op' = [op EXCEPT ![w] = Starting],
           conf' = [conf EXCEPT ![w] = Ini], degraded' = degraded \ {w},
           (mutex # w /\ UNCHANGED mutex) \/ mutex' = Dead, L1OK', UNCHANGED <<l2, segment, device, acked, now, calls>>,
           crashes' \in {crashes, crashes + 1}
    PROVE  IInv'
<1>1. Ini \in Conf /\ ~Ini.shm /\ op'[w].step = "open" /\ \A x \in Workers \ {w} : op'[x] = op[x]
  BY IdleOK, OpStep DEF IInv, Ini, Conf
<1>2. conf'[w] = Ini /\ \A x \in Workers \ {w} : conf'[x] = conf[x]
  BY DEF IInv, RestOK
<1> HIDE DEF Ini
<1>3. SetupOK'
  BY <1>1, <1>2 DEF IInv, SetupOK, Starters, Creating, At
<1>4. RecordsOK' /\ {now', crashes', calls'} \subseteq Nat /\ degraded' \subseteq Workers
      /\ segment' \in {"absent", "empty", "sized", "initialised", "ready"}
  BY DEF IInv, RecordsOK, RestOK
<1>5. QED
  BY <1>1, <1>3, <1>4, IdleOK, OpenKeeps

LEMMA DiesKeeps ==
    ASSUME IInv, NEW w \in Workers, Dies(w) \/ AttachKills(w)
    PROVE  IInv'
<1>1. OpOK(op[w]) /\ op[w] \in Op /\ crashes \in Nat
      /\ (mutex = w => op[w].step \in ShmSteps /\ conf[w].shm)
  BY Start
<1>2. CASE Crash(w)
  <2>1. L1OK'
    BY <1>1, <1>2, SameKeeps DEF Crash, Die, IInv
  <2>2. QED
    BY <1>2, <2>1, RestartKeeps DEF Crash, Die
<1>3. CASE AttachKills(w)
  <2>1. L1OK' /\ mutex # w
    BY <1>1, <1>3, NoL1Step DEF AttachKills, boundVars, At, ShmSteps
  <2>2. QED
    BY <1>3, <2>1, RestartKeeps DEF AttachKills, boundVars
<1>4. ASSUME CrashWithMutex(w), L1OK', UNCHANGED <<l2, device, acked, now, calls>> PROVE IInv'
  BY <1>4, RestartKeeps DEF CrashWithMutex, Die
<1>5. CASE CrashInPut(w)
  <2> DEFINE k == FullKey(w)
             v == op[w].value
             i == Target(k)
  <2>1. op[w].step \in {"promote", "put1"} /\ v.length <= L1MaxBytes /\ CrashWithMutex(w)
        /\ crashes' = crashes + 1 /\ UNCHANGED <<l2, device, acked, now, calls>>
    BY <1>5 DEF CrashInPut, CrashWithMutex, Die
  <2>2. op[w].key \in Keys /\ v \in Value /\ v.version # Torn
    BY <1>1, <2>1 DEF OpOK, Op
  <2>3. v.expires <= v.stored + 2 * Ttl[PartOf[op[w].key]]
    <3>1. Ttl[PartOf[op[w].key]] \in Nat /\ v.expires \in Nat /\ v.stored \in Nat
      BY <2>2, PartsAssumption, OptionsAssumption DEF Value
    <3>2. \/ v.expires <= v.stored + 2 * Ttl[PartOf[op[w].key]]
          \/ v.expires <= v.stored + Ttl[PartOf[op[w].key]]
      BY <1>1, <2>1 DEF OpOK
    <3>3. QED
      BY <3>1, <3>2
  <2>4. k \in FullKeys /\ k[1] = op[w].key
    BY <2>2, FullKeyOK
  <2> HIDE DEF k, v
  <2>5. ASSUME NEW S, l1' = Without(S) PROVE L1OK'
    BY <1>1, <2>1, <2>5, WithoutKeeps DEF IInv
  <2>6. ASSUME NEW e \in TornEntries(k, v), l1' = With(i, e, Victims(i, v.length)) PROVE L1OK'
    BY <1>1, <2>1, <2>2, <2>3, <2>4, <2>6, TornKeeps DEF IInv
  <2>7. ASSUME ShmPut(k, v) PROVE L1OK'
    BY <1>1, <2>1, <2>2, <2>3, <2>4, <2>7, ShmPutKeeps DEF IInv
  <2>8. L1OK'
    BY <1>5, <2>5, <2>6, <2>7 DEF CrashInPut, k, v
  <2>9. QED
    BY <1>4, <2>1, <2>8
<1>6. CASE CrashInClear(w)
  <2>1. L1OK'
    BY <1>1, <1>6, WithoutKeeps DEF CrashInClear, CrashWithMutex, Die, IInv
  <2>2. QED
    BY <1>4, <1>6, <2>1 DEF CrashInClear
<1>7. CASE CrashHolding(w)
  <2>1. L1OK'
    BY <1>1, <1>7, SameKeeps DEF CrashHolding, CrashWithMutex, Die, IInv
  <2>2. QED
    BY <1>4, <1>7, <2>1 DEF CrashHolding
<1>8. QED
  BY <1>2, <1>3, <1>5, <1>6, <1>7 DEF Dies

LEMMA OpenL2Keeps ==
    ASSUME IInv, NEW w \in Workers, OpenL2(w)
    PROVE  IInv'
<1> USE DEF boundVars
<1>1. OpOK(op[w]) /\ op[w] \in Op /\ conf[w] \in Conf /\ {now, crashes, calls} \subseteq Nat
      /\ op[w].step = "openL2" /\ mutex # w
  BY Start DEF OpenL2, At, ShmSteps
<1>2. PICK o : OpOK(o) /\ op' = [op EXCEPT ![w] = o] /\ o.step \in {"clear1", "idle"}
  <2>1. CASE op[w].todo # <<>>
    <3> DEFINE o == [op[w] EXCEPT !.step = "clear1", !.lmdb = FALSE]
    <3>1. o \in Op /\ o.step = "clear1" /\ o.todo = op[w].todo /\ o.value = op[w].value
      BY <1>1 DEF Op, Steps, AccessSteps, ShmSteps
    <3>2. op' = [op EXCEPT ![w] = o]
      BY <2>1 DEF OpenL2
    <3> HIDE DEF o
    <3>3. OpOK(o)
      BY <1>1, <2>1, <3>1 DEF OpOK
    <3>4. QED
      BY <3>1, <3>2, <3>3
  <2>2. CASE op[w].todo = <<>>
    BY <2>2, IdleOK DEF OpenL2, Done
  <2>3. QED
    BY <2>1, <2>2
<1>3. UNCHANGED <<l1, mutex, l2, segment, degraded, device, acked, now, calls>>
      /\ crashes' \in {crashes, crashes + 1}
  BY DEF OpenL2, Fails
<1>4. L1OK' /\ RecordsOK' /\ {now', crashes', calls'} \subseteq Nat
      /\ degraded' \subseteq Workers /\ segment' \in {"absent", "empty", "sized", "initialised", "ready"}
  BY <1>1, <1>3, SameKeeps DEF IInv, RecordsOK, RestOK
<1> DEFINE open == [conf[w] EXCEPT !.env = TRUE]
<1>5. open \in Conf /\ open.shm = conf[w].shm /\ open.enabled = conf[w].enabled
  BY <1>1 DEF Conf
<1> HIDE DEF open
<1>6. PICK c \in {open, conf[w]} : conf' = [conf EXCEPT ![w] = c]
  <2>1. CASE conf' = [conf EXCEPT ![w] = open]
    BY <2>1
  <2>2. CASE conf' = conf
    <3>1. conf' = [conf EXCEPT ![w] = conf[w]]
      BY <2>2 DEF IInv, RestOK
    <3>2. QED
      BY <3>1
  <2>3. QED
    BY <2>1, <2>2 DEF OpenL2, open
<1>7. c \in Conf /\ c.shm = conf[w].shm /\ c.enabled = conf[w].enabled
      /\ conf'[w] = c /\ \A x \in Workers \ {w} : conf'[x] = conf[x]
  BY <1>1, <1>5, <1>6 DEF IInv, RestOK
<1>8. op'[w] = o /\ \A x \in Workers \ {w} : op'[x] = op[x]
  BY <1>2, OpStep DEF IInv
<1>9. SetupOK'
  BY <1>1, <1>2, <1>3, <1>7, <1>8 DEF IInv, SetupOK, Starters, Creating, At
<1>10. QED
  BY <1>1, <1>2, <1>3, <1>4, <1>6, <1>7, <1>9, OpenKeeps

LEMMA LastOfBoolean ==
    ASSUME NEW s, NEW yes, NEW no, NEW old \in BOOLEAN
    PROVE  LastOf(s, yes, no, old) \in BOOLEAN
BY DEF LastOf

LEMMA SetOptionsKeeps ==
    ASSUME IInv, NEW w \in Workers, NEW s, SetOptions(w, s)
    PROVE  IInv'
<1> DEFINE enabled == LastOf(s, "on", "off", conf[w].enabled)
           lmdbOn == LastOf(s, "lmdb", "none", conf[w].lmdb)
           set == [conf[w] EXCEPT !.enabled = enabled, !.lmdb = lmdbOn]
           on == ~conf[w].enabled /\ set.enabled
           shm == Has(s, "shm") \/ on
           env == Has(s, "path") \/ (on /\ set.lmdb)
           lmdb == env /\ set.enabled /\ set.lmdb
           c == [set EXCEPT !.shm = @ /\ ~shm, !.env = @ /\ ~env]
           step == IF shm /\ set.enabled THEN "open" ELSE IF lmdb THEN "openL2" ELSE "clear1"
           o == [Idle EXCEPT !.todo = <<Parts>>, !.lmdb = lmdb, !.step = step]
<1>1. conf[w] \in Conf /\ {now, crashes, calls} \subseteq Nat /\ op[w].step = "idle" /\ mutex # w
  BY Start DEF SetOptions, At, ShmSteps
<1>2. conf' = [conf EXCEPT ![w] = c] /\ op' = [op EXCEPT ![w] = o] /\ calls' = calls + 1
      /\ UNCHANGED <<l1, mutex, l2, segment, degraded, device, acked, now, crashes>>
  BY DEF SetOptions
<1>3. set \in Conf /\ set.enabled = enabled /\ set.shm = conf[w].shm /\ set.env = conf[w].env
  <2>1. enabled \in BOOLEAN /\ lmdbOn \in BOOLEAN
    BY <1>1, LastOfBoolean DEF Conf
  <2> HIDE DEF enabled, lmdbOn
  <2>2. QED
    BY <1>1, <2>1 DEF Conf
<1>4. {shm, env, lmdb} \subseteq BOOLEAN
  BY <1>1, <1>3 DEF Has, Conf
<1> HIDE DEF enabled, lmdbOn, set
<1>5. set.enabled /\ ~shm => conf[w].enabled
  BY <1>3
<1> HIDE DEF shm, env, lmdb
<1>6. c \in Conf /\ c.enabled = set.enabled /\ (c.shm <=> conf[w].shm /\ ~shm)
  BY <1>1, <1>3, <1>4 DEF Conf
<1>7. o \in Op /\ o.step = step /\ o.value = NoValue /\ o.todo = <<Parts>>
  <2>1. <<Parts>> \in Seq(SUBSET Parts) /\ step \in Steps
    BY DEF Steps, AccessSteps, ShmSteps, SetupSteps
  <2> HIDE DEF step
  <2>2. QED
    BY <1>4, <2>1, IdleOK DEF Op
<1>8. step \in {"open", "openL2", "clear1"} /\ (step # "open" /\ set.enabled => ~shm)
  OBVIOUS
<1> HIDE DEF c, o, step
<1>9. OpOK(o)
  <2>1. <<Parts>> # <<>>
    OBVIOUS
  <2>2. QED
    BY <1>7, <1>8, <2>1, BeginOK
<1>10. op'[w] = o /\ \A x \in Workers \ {w} : op'[x] = op[x]
  BY <1>2, <1>9, OpStep DEF IInv
<1>11. conf'[w] = c /\ \A x \in Workers \ {w} : conf'[x] = conf[x]
  BY <1>2 DEF IInv, RestOK
<1>12. L1OK' /\ RecordsOK' /\ {now', crashes', calls'} \subseteq Nat
      /\ degraded' \subseteq Workers /\ segment' \in {"absent", "empty", "sized", "initialised", "ready"}
  BY <1>1, <1>2, SameKeeps DEF IInv, RecordsOK, RestOK
<1>13. SetupOK'
  <2>1. c.enabled /\ step # "open" => c.shm \/ w \in degraded
    BY <1>1, <1>5, <1>6, <1>8 DEF IInv, SetupOK, Starters, Creating
  <2>2. c.shm => segment = "ready"
    BY <1>6 DEF IInv, SetupOK
  <2>3. QED
    BY <1>2, <1>7, <1>8, <1>10, <1>11, <2>1, <2>2 DEF IInv, SetupOK, Starters, Creating, At
<1>14. QED
  BY <1>1, <1>2, <1>6, <1>9, <1>12, <1>13, OpenKeeps

LEMMA SetOptionsFailsKeeps ==
    ASSUME IInv, NEW w \in Workers, NEW s, SetOptionsFails(w, s)
    PROVE  IInv'
<1> DEFINE a == Applied(s)
           enabled == LastOf(a, "on", "off", conf[w].enabled)
           lmdbOn == LastOf(a, "lmdb", "none", conf[w].lmdb)
           c == [conf[w] EXCEPT !.enabled = enabled, !.lmdb = lmdbOn]
<1>1. OpOK(op[w]) /\ conf[w] \in Conf /\ {now, crashes, calls} \subseteq Nat /\ op[w].step = "idle" /\ mutex # w
  BY Start DEF SetOptionsFails, At, ShmSteps
<1>2. conf' = [conf EXCEPT ![w] = c] /\ calls' = calls + 1
      /\ degraded' = (IF enabled /\ ~conf[w].enabled THEN degraded \cup {w} ELSE degraded)
      /\ UNCHANGED <<l1, mutex, l2, segment, op, device, acked, now, crashes>>
  BY DEF SetOptionsFails
<1>3. enabled \in BOOLEAN /\ lmdbOn \in BOOLEAN
  BY <1>1, LastOfBoolean DEF Conf
<1> HIDE DEF enabled, lmdbOn
<1>4. c \in Conf /\ c.enabled = enabled /\ c.shm = conf[w].shm
  BY <1>1, <1>3 DEF Conf
<1> HIDE DEF c
<1>5. conf'[w] = c /\ \A x \in Workers \ {w} : conf'[x] = conf[x]
  BY <1>2 DEF IInv, RestOK
<1>6. L1OK' /\ RecordsOK' /\ {now', crashes', calls'} \subseteq Nat
      /\ degraded' \subseteq Workers /\ segment' \in {"absent", "empty", "sized", "initialised", "ready"}
  BY <1>1, <1>2, SameKeeps DEF IInv, RecordsOK, RestOK
<1>7. SetupOK'
  BY <1>1, <1>2, <1>4, <1>5 DEF IInv, SetupOK, Starters, Creating, At
<1>8. op' = [op EXCEPT ![w] = op[w]]
  BY <1>2 DEF IInv, OpsOK
<1>9. QED
  BY <1>1, <1>2, <1>4, <1>6, <1>7, <1>8, OpenKeeps

(* The environment.                                                         *)
LEMMA EnvironmentKeeps ==
    ASSUME IInv, Tick \/ (\E k \in Keys : DeviceChange(k)) \/ UNCHANGED vars
    PROVE  IInv'
<1> USE DEF envVars, setupVars, boundVars, vars
<1>1. UNCHANGED <<l1, mutex, l2, op, acked, segment, conf, degraded, crashes, calls>>
      /\ now' \in {now, now + 1}
      /\ (UNCHANGED device \/ \E k \in Keys : device' = [device EXCEPT ![k] = device[k] + 1])
  BY DEF Tick, DeviceChange
<1>2. L1OK'
  BY <1>1, NoL1Step
<1>3. RestOK'
  BY <1>1 DEF IInv, RestOK
<1>4. OpsOK' /\ RecordsOK' /\ MutexOK' /\ SetupOK'
  BY <1>1 DEF IInv, OpsOK, RecordsOK, MutexOK, SetupOK, At
<1>5. QED
  BY <1>2, <1>3, <1>4 DEF IInv

-----------------------------------------------------------------------------
(* The theorems.                                                            *)

(* The start: either the segment is there and every worker has its levels,  *)
(* or nothing is.                                                           *)
LEMMA InitIInv == Init => IInv
<1> SUFFICES ASSUME Init PROVE IInv
  OBVIOUS
<1>1. DOMAIN l1 = {} /\ l1 = [i \in DOMAIN l1 |-> l1[i]] /\ crashes \in Nat
  BY DEF Init
<1>2. TableOK /\ KeysDiffer
  BY <1>1 DEF TableOK, KeysDiffer
<1>3. ASSUME NEW p \in Parts PROVE Cardinality(Entries(p)) <= Limit(p)
  <2>1. Entries(p) = {}
    BY <1>1 DEF Entries
  <2>2. Cardinality(Entries(p)) = 0
    BY <2>1, FS_EmptySet
  <2>3. QED
    BY <1>1, <2>2, LimitNat
<1>4. Bytes(DOMAIN l1) <= L1MaxBytes
  <2>1. UNION {{i} \X (1..l1[i].value.length) : i \in DOMAIN l1} = {}
    BY <1>1
  <2>2. Bytes(DOMAIN l1) = 0
    BY <2>1, FS_EmptySet DEF Bytes
  <2>3. QED
    BY <2>2, OptionsAssumption
<1>5. L1OK
  BY <1>2, <1>3, <1>4 DEF L1OK
<1>6. OpsOK /\ \A w \in Workers : op[w].step = IF Created THEN "idle" ELSE "open"
  BY IdleOK DEF Init, OpsOK
<1>7. RecordsOK
  BY DEF Init, RecordsOK
<1>8. \A w \in Workers : conf[w] \in Conf /\ conf[w].shm = Created /\ conf[w].enabled
  BY OptionsAssumption DEF Init, Ini, Conf
<1>9. SetupOK
  BY <1>6, <1>8, OptionsAssumption DEF Init, SetupOK, Starters, Creating, At
<1>10. MutexOK
  BY WorkersAssumption DEF Init, MutexOK, Free
<1>11. RestOK
  BY <1>8 DEF Init, RestOK
<1>12. QED
  BY <1>5, <1>6, <1>7, <1>9, <1>10, <1>11 DEF IInv

LEMMA NextIInv == IInv /\ [Next]_vars => IInv'
<1> SUFFICES ASSUME IInv, [Next]_vars PROVE IInv'
  OBVIOUS
<1>1. CASE UNCHANGED vars
  BY <1>1, EnvironmentKeeps
<1>2. ASSUME NEW w \in Workers, Begin(w) PROVE IInv'
  <2>1. ASSUME NEW k \in Keys, Read(w, k) \/ Refresh(w, k) \/ WriteAcked(w, k) PROVE IInv'
    BY <2>1, BeginKeeps
  <2>2. ASSUME NEW p \in Parts, ClearCache(w, {p}) PROVE IInv'
    BY <2>2, BeginKeeps
  <2>3. CASE ClearCache(w, Parts)
    BY <2>3, BeginKeeps
  <2>4. ASSUME NEW s, SetOptions(w, s) PROVE IInv'
    BY <2>4, SetOptionsKeeps
  <2>5. ASSUME NEW s, SetOptionsFails(w, s) PROVE IInv'
    BY <2>5, SetOptionsFailsKeeps
  <2>6. QED
    BY <1>2, <2>1, <2>2, <2>3, <2>4, <2>5 DEF Begin
<1>3. ASSUME NEW w \in Workers, Continue(w) PROVE IInv'
  <2>1. CASE Lock(w)
    BY <2>1, LockKeeps
  <2>2. CASE SkipL1(w)
    BY <2>2, SkipL1Keeps
  <2>3. CASE GetL1(w)
    BY <2>3, GetL1Keeps
  <2>4. CASE GetL2(w)
    BY <2>4, GetL2Keeps
  <2>5. CASE Promote(w)
    BY <2>5, PromoteKeeps
  <2>6. CASE FetchFails(w) \/ \E length \in Lengths : Fetch(w, length)
    BY <2>6, FetchKeeps
  <2>7. CASE PutL1(w)
    BY <2>7, PutL1Keeps
  <2>8. CASE PutL2(w) \/ PutWithoutL2(w)
    BY <2>8, PutL2Keeps
  <2>9. CASE Prune(w)
    BY <2>9, PruneKeeps
  <2>10. CASE ClearL1(w)
    BY <2>10, ClearL1Keeps
  <2>11. CASE ClearL2(w)
    BY <2>11, ClearL2Keeps
  <2>12. CASE OpenSegment(w) \/ SizeSegment(w) \/ InitSegment(w) \/ PublishSegment(w) \/ Attach(w)
    BY <2>12, CreationKeeps
  <2>13. CASE AttachKills(w)
    BY <2>13, DiesKeeps
  <2>14. CASE OpenL2(w)
    BY <2>14, OpenL2Keeps
  <2>15. QED
    BY <1>3, <2>1, <2>2, <2>3, <2>4, <2>5, <2>6, <2>7, <2>8, <2>9, <2>10, <2>11, <2>12, <2>13, <2>14
    DEF Continue
<1>4. ASSUME NEW w \in Workers, Dies(w) PROVE IInv'
  BY <1>4, DiesKeeps
<1>5. CASE Tick \/ \E k \in Keys : DeviceChange(k)
  BY <1>5, EnvironmentKeeps
<1>6. QED
  BY <1>1, <1>2, <1>3, <1>4, <1>5 DEF Next

LEMMA Inductive == Spec => []IInv
BY InitIInv, NextIInv, PTL DEF Spec

(* Whatever the workers do, and wherever they die, the shared memory, LMDB   *)
(* and what each worker does keep their types, and the owner of the mutex is *)
(* in a section.                                                            *)
THEOREM TypeCorrect == Spec => []TypeOK
<1>1. IInv => TypeOK
  <2> SUFFICES ASSUME IInv PROVE TypeOK
    OBVIOUS
  <2>1. DOMAIN l1 \subseteq 1..Slots /\ \A i \in DOMAIN l1 : l1[i] \in Slot
    BY DEF IInv, L1OK, TableOK, SlotOK
  <2>2. op \in [Workers -> Op]
    BY DEF IInv, OpsOK, OpOK
  <2>3. DOMAIN l2 \subseteq Keys /\ \A k \in DOMAIN l2 : l2[k] \in Value
    BY DEF IInv, RecordsOK
  <2>4. mutex \in Workers \cup {Free, Dead} /\ (mutex \in Workers => op[mutex].step \in ShmSteps)
    BY DEF IInv, MutexOK
  <2>5. QED
    BY <2>1, <2>2, <2>3, <2>4 DEF IInv, RestOK, TypeOK
<1>2. QED
  BY <1>1, Inductive, PTL

(* A put never gives a key a second slot: no stale twin survives it.        *)
THEOREM KeysAreUnique == Spec => []OneSlotPerKey
<1>1. IInv => OneSlotPerKey
  <2> SUFFICES ASSUME IInv, NEW k \in FullKeys PROVE Cardinality(Holding(k)) <= 1
    BY DEF OneSlotPerKey
  <2>1. k # NoKey
    BY PartsAssumption DEF FullKeys
  <2>2. \A i, j \in Holding(k) : i = j
    BY <2>1 DEF Holding, IInv, L1OK, KeysDiffer
  <2>3. CASE Holding(k) = {}
    BY <2>3, FS_EmptySet
  <2>4. CASE Holding(k) # {}
    <3>1. PICK i \in Holding(k) : Holding(k) = {i}
      BY <2>2, <2>4
    <3>2. Cardinality({i}) = 1
      BY FS_Singleton
    <3>3. Cardinality(Holding(k)) = 1
      BY <3>1, <3>2, Zenon
    <3>4. QED
      BY <3>3
  <2>5. QED
    BY <2>3, <2>4
<1>2. QED
  BY <1>1, Inductive, PTL

(* The limits of L1: the entries of a partition (but for those that deaths   *)
(* have added to the first one) and the bytes of all values.                *)
THEOREM LimitsHold == Spec => []L1Bounded
<1>1. IInv => L1Bounded
  BY DEF IInv, L1OK, L1Bounded, Limit
<1>2. QED
  BY <1>1, Inductive, PTL

(* What a dead writer left half written is never served.                    *)
THEOREM TornIsDead == Spec => []TornNeverServed
<1>1. IInv => TornNeverServed
  BY DEF IInv, L1OK, TableOK, SlotOK, RestOK, Live, TornNeverServed
<1>2. QED
  BY <1>1, Inductive, PTL

(* No entry of L1 is served later than two ttls after the device sent it, no *)
(* record of L2 later than one.                                             *)
THEOREM AgeIsBounded == Spec => []AgeBounded
<1>1. IInv => AgeBounded
  <2> SUFFICES ASSUME IInv PROVE AgeBounded
    OBVIOUS
  <2>1. now \in Nat
    BY DEF IInv, RestOK
  <2>2. ASSUME NEW i \in DOMAIN l1, Live(l1[i].value) PROVE now - l1[i].value.stored < 2 * Ttl[l1[i].part]
    <3>1. SlotOK(l1[i])
      BY DEF IInv, L1OK, TableOK
    <3>2. Ttl[l1[i].part] \in Nat /\ l1[i].value.stored \in Nat /\ l1[i].value.expires \in Nat
      BY <3>1, OptionsAssumption DEF SlotOK, Slot, Value
    <3>3. l1[i].value.expires > now /\ l1[i].value.expires <= l1[i].value.stored + 2 * Ttl[l1[i].part]
      BY <2>2, <3>1 DEF SlotOK, Live
    <3>4. QED
      BY <2>1, <3>2, <3>3
  <2>3. ASSUME NEW k \in DOMAIN l2, Live(l2[k]) PROVE now - l2[k].stored < Ttl[PartOf[k]]
    <3>1. k \in Keys /\ l2[k] \in Value /\ l2[k].expires <= l2[k].stored + Ttl[PartOf[k]]
      BY DEF IInv, RecordsOK
    <3>2. Ttl[PartOf[k]] \in Nat /\ l2[k].stored \in Nat /\ l2[k].expires \in Nat
      BY <3>1, PartsAssumption, OptionsAssumption DEF Value
    <3>3. QED
      BY <2>1, <2>3, <3>1, <3>2 DEF Live
  <2>4. QED
    BY <2>2, <2>3 DEF AgeBounded
<1>2. QED
  BY <1>1, Inductive, PTL

(* Who uses L1 finds it created: only one worker does, and only once.       *)
THEOREM SegmentIsReady == Spec => []SegmentReady
<1>1. IInv => SegmentReady
  BY DEF IInv, SetupOK, SegmentReady
<1>2. QED
  BY <1>1, Inductive, PTL

(* A worker at rest with the cache on has L1, unless it is degraded.        *)
THEOREM EnabledUsesL1 == Spec => []EnabledHasL1
<1>1. IInv => EnabledHasL1
  BY DEF IInv, SetupOK, EnabledHasL1, Starters, Creating, At
<1>2. QED
  BY <1>1, Inductive, PTL

-----------------------------------------------------------------------------
(* The refinement: what a step leaves in L1, in L2 and in the hands of the   *)
(* workers was known before, unless the device has just given it.           *)

LEMMA SlotsGo ==
    ASSUME NEW S, l1' = Without(S), UNCHANGED now
    PROVE  FactsL1' \subseteq FactsL1
<1>1. DOMAIN l1' \subseteq DOMAIN l1 /\ \A i \in DOMAIN l1' : l1'[i] = l1[i]
  BY DEF Without
<1>2. QED
  BY <1>1 DEF FactsL1, Live

LEMMA SlotsSame ==
    ASSUME UNCHANGED <<l1, now>>
    PROVE  FactsL1' \subseteq FactsL1
BY DEF FactsL1, Live

LEMMA SlotTouched ==
    ASSUME TableOK, NEW i \in DOMAIN l1, NEW tick, l1' = [l1 EXCEPT ![i].touched = tick], UNCHANGED now
    PROVE  FactsL1' \subseteq FactsL1
<1>1. DOMAIN l1' = DOMAIN l1
  OBVIOUS
<1>2. ASSUME NEW j \in DOMAIN l1 PROVE l1'[j].key = l1[j].key /\ l1'[j].value = l1[j].value
  <2>1. l1[j] \in Slot
    BY DEF TableOK, SlotOK
  <2>2. l1'[j] = IF j = i THEN [l1[j] EXCEPT !.touched = tick] ELSE l1[j]
    OBVIOUS
  <2>3. QED
    BY <2>1, <2>2 DEF Slot
<1>3. QED
  BY <1>1, <1>2 DEF FactsL1, Live

(* A slot is filled; only a complete one can be found.                      *)
LEMMA SlotFilled ==
    ASSUME NEW i, NEW e, NEW S, l1' = With(i, e, S), UNCHANGED now,
           e.key # NoKey /\ Live(e.value) => Fact(e.key[1], e.value) \in Known
    PROVE  FactsL1' \subseteq Known
<1>1. l1'[i] = e /\ \A j \in DOMAIN l1' : j # i => j \in DOMAIN l1 /\ l1'[j] = l1[j]
  BY DEF With
<1>2. SUFFICES ASSUME NEW j \in DOMAIN l1', l1'[j].key # NoKey, Live(l1'[j].value)
               PROVE  Fact(l1'[j].key[1], l1'[j].value) \in Known
  BY DEF FactsL1, Live, Fact
<1>3. CASE j = i
  BY <1>1, <1>2, <1>3
<1>4. CASE j # i
  <2>1. j \in DOMAIN l1 /\ l1'[j] = l1[j]
    BY <1>1, <1>4
  <2>2. Fact(l1[j].key[1], l1[j].value) \in FactsL1
    BY <1>2, <2>1 DEF FactsL1
  <2>3. QED
    BY <2>1, <2>2 DEF Known
<1>5. QED
  BY <1>3, <1>4

(* What shm_put stores, or a dead worker has written of it, is the value     *)
(* that its worker holds.                                                   *)
LEMMA PutShows ==
    ASSUME NEW k, NEW v, Live(v) => Fact(k[1], v) \in Known, ShmPut(k, v), UNCHANGED now
    PROVE  FactsL1' \subseteq Known
<1>1. CASE v.length > L1MaxBytes
  BY <1>1, SlotsSame DEF ShmPut, Known
<1>2. CASE ~(v.length > L1MaxBytes)
  <2> DEFINE e == [key |-> k, part |-> PartOf[k[1]], touched |-> NextTick(Target(k)), value |-> v]
  <2>1. l1' = With(Target(k), e, Victims(Target(k), v.length))
    BY <1>2 DEF ShmPut
  <2>2. e.key = k /\ e.value = v
    OBVIOUS
  <2> HIDE DEF e
  <2>3. QED
    BY <2>1, <2>2, SlotFilled
<1>3. QED
  BY <1>1, <1>2

LEMMA TornShows ==
    ASSUME now \in Nat, NEW k, NEW v \in Value, Live(v) => Fact(k[1], v) \in Known,
           NEW e \in TornEntries(k, v), NEW i, NEW S, l1' = With(i, e, S), UNCHANGED now
    PROVE  FactsL1' \subseteq Known
<1>1. e.value.expires = 0 \/ (e.key = k /\ e.value = v)
  <2> DEFINE E(part, key, value) == [key |-> key, part |-> part, touched |-> 0, value |-> value]
             torn == [NoValue EXCEPT !.version = Torn]
             half == [torn EXCEPT !.length = v.length]
             late == [v EXCEPT !.expires = 0]
  <2>1. e \in {E(FirstPart, NoKey, torn), E(PartOf[k[1]], NoKey, torn), E(PartOf[k[1]], k, torn),
               E(PartOf[k[1]], k, half), E(PartOf[k[1]], k, late), E(PartOf[k[1]], k, v)}
    BY DEF TornEntries
  <2>2. torn.expires = 0 /\ half.expires = 0 /\ late.expires = 0
    BY DEF NoValue, Value
  <2> HIDE DEF torn, half, late
  <2>3. e.value \in {torn, half, late} \/ (e.key = k /\ e.value = v)
    BY <2>1
  <2>4. QED
    BY <2>2, <2>3
<1>2. Live(e.value) => e.key = k /\ e.value = v
  BY <1>1 DEF Live
<1>3. QED
  BY <1>2, SlotFilled

LEMMA RecordsGo ==
    ASSUME UNCHANGED l2 \/ \E S \in SUBSET DOMAIN l2 : l2' = [k \in S |-> l2[k]], UNCHANGED now
    PROVE  FactsL2' \subseteq FactsL2
BY DEF FactsL2, Live

LEMMA HandShows ==
    ASSUME IInv, NEW w \in Workers, NEW o, op' = [op EXCEPT ![w] = o], UNCHANGED now,
           o.step \in StoreSteps /\ Live(o.value) => Fact(o.key, o.value) \in Known
    PROVE  FactsInHand' \subseteq Known
<1>1. op'[w] = o /\ \A x \in Workers \ {w} : op'[x] = op[x]
  BY DEF IInv, OpsOK
<1>2. SUFFICES ASSUME NEW x \in Workers, op'[x].step \in StoreSteps, Live(op'[x].value)
               PROVE  Fact(op'[x].key, op'[x].value) \in Known
  BY DEF FactsInHand, Live, Fact, Key
<1>3. CASE x = w
  BY <1>1, <1>2, <1>3
<1>4. CASE x # w
  <2>1. op'[x] = op[x]
    BY <1>1, <1>4
  <2>2. Fact(Key(x), op[x].value) \in FactsInHand
    BY <1>2, <2>1 DEF FactsInHand
  <2>3. QED
    BY <2>1, <2>2 DEF Known, Key
<1>5. QED
  BY <1>3, <1>4

(* A worker that has no value in hand, or goes on with the same one.        *)
LEMMA HandGoesOn ==
    ASSUME IInv, NEW w \in Workers, NEW s, Goto(w, s), UNCHANGED now,
           s \notin StoreSteps \/ op[w].step \in StoreSteps
    PROVE  FactsInHand' \subseteq Known
<1> DEFINE o == [op[w] EXCEPT !.step = s]
<1>1. op' = [op EXCEPT ![w] = o]
  BY DEF Goto
<1>2. op[w] \in Op
  BY Start
<1>3. o.step = s /\ o.key = op[w].key /\ o.value = op[w].value
  BY <1>2 DEF Op
<1> HIDE DEF o
<1>4. op[w].step \in StoreSteps /\ Live(op[w].value) => Fact(op[w].key, op[w].value) \in Known
  BY DEF Known, FactsInHand, Key
<1>5. QED
  BY <1>1, <1>3, <1>4, HandShows

LEMMA HandEmpty ==
    ASSUME IInv, NEW w \in Workers, NEW o, o.step \notin StoreSteps, op' = [op EXCEPT ![w] = o], UNCHANGED now
    PROVE  FactsInHand' \subseteq Known
BY HandShows

LEMMA HandDone ==
    ASSUME IInv, NEW w \in Workers, Done(w), UNCHANGED now
    PROVE  FactsInHand' \subseteq Known
BY IdleOK, HandEmpty DEF Done, StoreSteps

LEMMA HandsSame ==
    ASSUME UNCHANGED <<op, now>>
    PROVE  FactsInHand' \subseteq Known
BY DEF FactsInHand, Known, Live, Key

LEMMA Together ==
    ASSUME FactsL1' \subseteq Known, FactsL2' \subseteq Known, FactsInHand' \subseteq Known
    PROVE  Known' \subseteq Known
BY DEF Known

(* The steps, one by one: most forget or keep what was known.               *)
Forgets == Known' \subseteq Known /\ UNCHANGED <<now, device>>

LEMMA CallsShow ==
    ASSUME IInv, NEW w \in Workers, NEW k \in Keys, Read(w, k) \/ Refresh(w, k) \/ WriteAcked(w, k)
    PROVE  Known' \subseteq Known /\ UNCHANGED now
           /\ (UNCHANGED device \/ device' = [device EXCEPT ![k] = @ + 1])
<1>1. UNCHANGED <<l1, l2, now>> /\ (UNCHANGED device \/ device' = [device EXCEPT ![k] = @ + 1])
  BY DEF Read, Refresh, WriteAcked, envVars
<1>2. FactsInHand' \subseteq Known
  <2>1. CASE Read(w, k)
    <3> DEFINE o == [Idle EXCEPT !.step = "get1", !.key = k]
    <3>1. o.step = "get1" /\ op' = [op EXCEPT ![w] = o]
      BY <2>1 DEF Read, Idle
    <3> HIDE DEF o
    <3>2. QED
      BY <1>1, <3>1, HandEmpty DEF StoreSteps
  <2>2. CASE Refresh(w, k)
    <3> DEFINE o == [Idle EXCEPT !.step = "clear1", !.key = k, !.todo = <<{PartOf[k]}>>]
    <3>1. o.step = "clear1" /\ op' = [op EXCEPT ![w] = o]
      BY <2>2 DEF Refresh, Idle
    <3> HIDE DEF o
    <3>2. QED
      BY <1>1, <3>1, HandEmpty DEF StoreSteps
  <2>3. CASE WriteAcked(w, k)
    <3> DEFINE o == [Idle EXCEPT !.step = "clear1", !.key = k, !.todo = ReadPartitions, !.ack = device[k] + 1]
    <3>1. o.step = "clear1" /\ op' = [op EXCEPT ![w] = o]
      BY <2>3 DEF WriteAcked, Idle
    <3> HIDE DEF o
    <3>2. QED
      BY <1>1, <3>1, HandEmpty DEF StoreSteps
  <2>4. QED
    BY <2>1, <2>2, <2>3
<1>3. FactsL1' \subseteq Known /\ FactsL2' \subseteq Known
  BY <1>1, SlotsSame, RecordsGo DEF Known
<1>4. QED
  BY <1>1, <1>2, <1>3, Together

LEMMA ClearForgets ==
    ASSUME IInv, NEW w \in Workers, NEW parts, ClearCache(w, parts)
    PROVE  Forgets
<1> DEFINE o == [Idle EXCEPT !.step = "clear1", !.todo = <<parts>>]
<1>1. UNCHANGED <<l1, l2, now, device>>
  BY DEF ClearCache, envVars
<1>2. o.step = "clear1" /\ op' = [op EXCEPT ![w] = o]
  BY DEF ClearCache, Idle
<1> HIDE DEF o
<1>3. FactsInHand' \subseteq Known
  BY <1>1, <1>2, HandEmpty DEF StoreSteps
<1>4. FactsL1' \subseteq Known /\ FactsL2' \subseteq Known
  BY <1>1, SlotsSame, RecordsGo DEF Known
<1>5. QED
  BY <1>1, <1>3, <1>4, Together DEF Forgets

LEMMA OptionsForget ==
    ASSUME IInv, NEW w \in Workers, NEW s, SetOptions(w, s) \/ SetOptionsFails(w, s)
    PROVE  Forgets
<1>1. UNCHANGED <<l1, l2, now, device>>
  BY DEF SetOptions, SetOptionsFails
<1>2. FactsL1' \subseteq Known /\ FactsL2' \subseteq Known
  BY <1>1, SlotsSame, RecordsGo DEF Known
<1>3. FactsInHand' \subseteq Known
  <2>1. CASE SetOptionsFails(w, s)
    BY <1>1, <2>1, HandsSame DEF SetOptionsFails
  <2>2. CASE SetOptions(w, s)
    <3> DEFINE set == [conf[w] EXCEPT !.enabled = LastOf(s, "on", "off", @), !.lmdb = LastOf(s, "lmdb", "none", @)]
               shm == Has(s, "shm") \/ (~conf[w].enabled /\ set.enabled)
               env == Has(s, "path") \/ (~conf[w].enabled /\ set.enabled /\ set.lmdb)
               lmdb == env /\ set.enabled /\ set.lmdb
               step == IF shm /\ set.enabled THEN "open" ELSE IF lmdb THEN "openL2" ELSE "clear1"
               o == [Idle EXCEPT !.todo = <<Parts>>, !.lmdb = lmdb, !.step = step]
    <3>1. op' = [op EXCEPT ![w] = o]
      BY <2>2 DEF SetOptions
    <3>2. step \notin StoreSteps
      BY DEF StoreSteps
    <3> HIDE DEF lmdb, step
    <3>3. o.step = step
      BY DEF Idle
    <3> HIDE DEF o
    <3>4. QED
      BY <1>1, <3>1, <3>2, <3>3, HandEmpty
  <2>3. QED
    BY <2>1, <2>2
<1>4. QED
  BY <1>1, <1>2, <1>3, Together DEF Forgets

(* The sections under the mutex.                                            *)
LEMMA SectionForgets ==
    ASSUME IInv, NEW w \in Workers, FactsL1' \subseteq Known, UNCHANGED <<l2, now, device>>,
           Done(w) \/ \E s : Goto(w, s) /\ (s \notin StoreSteps \/ op[w].step \in StoreSteps)
    PROVE  Forgets
<1>1. FactsL2' \subseteq Known
  BY RecordsGo DEF Known
<1>2. FactsInHand' \subseteq Known
  BY HandDone, HandGoesOn
<1>3. QED
  BY <1>1, <1>2, Together DEF Forgets

LEMMA LockForgets ==
    ASSUME IInv, NEW w \in Workers, Lock(w)
    PROVE  Forgets
<1>1. UNCHANGED <<l1, l2, op, now, device>>
  BY DEF Lock, envVars
<1>2. FactsL1' \subseteq Known /\ FactsL2' \subseteq Known /\ FactsInHand' \subseteq Known
  BY <1>1, SlotsSame, RecordsGo, HandsSame DEF Known
<1>3. QED
  BY <1>1, <1>2, Together DEF Forgets

LEMMA SkipL1Forgets ==
    ASSUME IInv, NEW w \in Workers, SkipL1(w)
    PROVE  Forgets
<1>1. UNCHANGED <<l1, l2, now, device>>
  BY DEF SkipL1, envVars
<1>2. FactsL1' \subseteq Known
  BY <1>1, SlotsSame DEF Known
<1>3. Done(w) \/ \E s : Goto(w, s) /\ (s \notin StoreSteps \/ op[w].step \in StoreSteps)
  <2>1. Done(w) \/ Goto(w, "get2") \/ Goto(w, "clear2") \/ (Goto(w, "put2") /\ op[w].step = "put1")
    BY DEF SkipL1, At
  <2>2. QED
    BY <2>1 DEF StoreSteps
<1>4. QED
  BY <1>1, <1>2, <1>3, SectionForgets

LEMMA GetL1Forgets ==
    ASSUME IInv, NEW w \in Workers, GetL1(w)
    PROVE  Forgets
<1>1. UNCHANGED <<l2, now, device>>
  BY DEF GetL1, envVars
<1>2. FactsL1' \subseteq Known
  <2>1. CASE \E S : l1' = Without(S)
    BY <1>1, <2>1, SlotsGo DEF Known
  <2>2. CASE \E i \in DOMAIN l1 : l1' = [l1 EXCEPT ![i].touched = NextTick(i)]
    BY <1>1, <2>2, SlotTouched DEF Known, IInv, L1OK
  <2>3. QED
    BY <2>1, <2>2 DEF GetL1, Holding
<1>3. Done(w) \/ \E s : Goto(w, s) /\ s \notin StoreSteps
  <2>1. Done(w) \/ Goto(w, "get2")
    BY DEF GetL1
  <2>2. QED
    BY <2>1 DEF StoreSteps
<1>4. QED
  BY <1>1, <1>2, <1>3, SectionForgets

(* The value in hand goes into L1.                                          *)
LEMMA StoresForget ==
    ASSUME IInv, NEW w \in Workers, Promote(w) \/ PutL1(w)
    PROVE  Forgets
<1>1. UNCHANGED <<l2, now, device>> /\ op[w].step \in StoreSteps /\ ShmPut(FullKey(w), op[w].value)
  BY DEF Promote, PutL1, envVars, Owns, At, StoreSteps
<1>2. Live(op[w].value) => Fact(FullKey(w)[1], op[w].value) \in Known
  BY <1>1 DEF Known, FactsInHand, FullKey
<1>3. FactsL1' \subseteq Known
  BY <1>1, <1>2, PutShows
<1>4. Done(w) \/ Goto(w, "put2")
  BY DEF Promote, PutL1
<1>5. QED
  BY <1>1, <1>3, <1>4, SectionForgets

LEMMA ClearL1Forgets ==
    ASSUME IInv, NEW w \in Workers, ClearL1(w)
    PROVE  Forgets
<1>1. UNCHANGED <<l2, now, device>> /\ Goto(w, "clear2") /\ \E S : l1' = Without(S)
  BY DEF ClearL1, envVars
<1>2. FactsL1' \subseteq Known
  BY <1>1, SlotsGo DEF Known
<1>3. "clear2" \notin StoreSteps
  BY DEF StoreSteps
<1>4. QED
  BY <1>1, <1>2, <1>3, SectionForgets

(* A hit in L2 comes into the hand: only its expiry changes.                *)
LEMMA GetL2Forgets ==
    ASSUME IInv, NEW w \in Workers, GetL2(w)
    PROVE  Forgets
<1> DEFINE k == op[w].key
<1>1. UNCHANGED <<l1, l2, now, device>>
  BY DEF GetL2, envVars
<1>2. FactsL1' \subseteq Known /\ FactsL2' \subseteq Known
  BY <1>1, SlotsSame, RecordsGo DEF Known
<1>3. FactsInHand' \subseteq Known
  <2>1. CASE Goto(w, "fetch")
    BY <1>1, <2>1, HandGoesOn DEF StoreSteps
  <2>2. CASE ~Goto(w, "fetch")
    <3> DEFINE v == [l2[k] EXCEPT !.expires = now + Ttl[PartOf[k]]]
               o == [op[w] EXCEPT !.step = "promote", !.value = v]
    <3>1. op' = [op EXCEPT ![w] = o] /\ k \in DOMAIN l2 /\ Live(l2[k])
      BY <2>2 DEF GetL2, Key
    <3>2. op[w] \in Op /\ l2[k] \in Value
      BY <3>1, Start DEF IInv, RecordsOK
    <3>3. v.version = l2[k].version /\ v.stored = l2[k].stored
      BY <3>2 DEF Value
    <3> HIDE DEF v
    <3>4. o.key = k /\ o.value = v
      BY <3>2 DEF Op
    <3>5. Fact(o.key, o.value) = Fact(k, l2[k])
      BY <3>3, <3>4 DEF Fact
    <3>6. Fact(k, l2[k]) \in Known
      BY <3>1 DEF Known, FactsL2
    <3> HIDE DEF o
    <3>7. QED
      BY <1>1, <3>1, <3>5, <3>6, HandShows
  <2>3. QED
    BY <2>1, <2>2
<1>4. QED
  BY <1>1, <1>2, <1>3, Together DEF Forgets

(* The device is the only source.                                           *)
LEMMA FetchLearns ==
    ASSUME IInv, NEW w \in Workers, NEW length, Fetch(w, length)
    PROVE  \E k \in Keys : Memory!Learn(k)
<1> DEFINE k == op[w].key
           new == [key |-> k, version |-> device[k], at |-> now]
           v == [version |-> device[k], length |-> length, expires |-> now + Ttl[PartOf[k]], stored |-> now]
           o == [op[w] EXCEPT !.step = "put1", !.value = v]
<1>1. UNCHANGED <<l1, l2, now, device>> /\ op' = [op EXCEPT ![w] = o] /\ op[w].step = "fetch"
  BY DEF Fetch, envVars, Key, At
<1>2. k \in Keys /\ op[w] \in Op
  BY <1>1, Start DEF OpOK
<1>3. o.key = k /\ o.value = v
  BY <1>2 DEF Op
<1>4. Fact(k, v) = new
  BY DEF Fact
<1>5. op'[w] = o /\ \A x \in Workers \ {w} : op'[x] = op[x]
  BY <1>1 DEF IInv, OpsOK
<1> HIDE DEF o, v, new
<1>6. FactsInHand' \subseteq Known \cup {new}
  <2>1. SUFFICES ASSUME NEW x \in Workers, op'[x].step \in StoreSteps, Live(op'[x].value)
                 PROVE  Fact(op'[x].key, op'[x].value) \in Known \cup {new}
    BY <1>1 DEF FactsInHand, Live, Fact, Key
  <2>2. CASE x = w
    BY <1>3, <1>4, <1>5, <2>2
  <2>3. CASE x # w
    <3>1. op'[x] = op[x]
      BY <1>5, <2>3
    <3>2. Fact(Key(x), op[x].value) \in FactsInHand
      BY <2>1, <3>1 DEF FactsInHand
    <3>3. QED
      BY <3>1, <3>2 DEF Known, Key
  <2>4. QED
    BY <2>2, <2>3
<1>7. FactsL1' \subseteq Known /\ FactsL2' \subseteq Known
  BY <1>1, SlotsSame, RecordsGo DEF Known
<1>8. Known' \subseteq Known \cup {new}
  BY <1>6, <1>7 DEF Known
<1>9. Memory!Learn(k)
  BY <1>1, <1>8 DEF Memory!Learn, new
<1>10. QED
  BY <1>2, <1>9

(* L2 and what a worker does with it.                                       *)
LEMMA L2Forgets ==
    ASSUME IInv, NEW w \in Workers, FactsL2' \subseteq Known, UNCHANGED <<l1, now, device>>,
           Done(w) \/ (\E s : Goto(w, s) /\ s \notin StoreSteps)
    PROVE  Forgets
<1>1. FactsL1' \subseteq Known
  BY SlotsSame DEF Known
<1>2. FactsInHand' \subseteq Known
  BY HandDone, HandGoesOn
<1>3. QED
  BY <1>1, <1>2, Together DEF Forgets

LEMMA PutL2Forgets ==
    ASSUME IInv, NEW w \in Workers, PutL2(w)
    PROVE  Forgets
<1> DEFINE k == op[w].key
           o == [op[w] EXCEPT !.step = "prune", !.value = NoValue]
<1>1. UNCHANGED <<l1, now, device>> /\ op' = [op EXCEPT ![w] = o] /\ op[w].step = "put2"
  BY DEF PutL2, envVars, At
<1>2. o.step = "prune"
  BY Start DEF Op
<1> HIDE DEF o
<1>3. FactsInHand' \subseteq Known
  BY <1>1, <1>2, HandEmpty DEF StoreSteps
<1>4. FactsL1' \subseteq Known
  BY <1>1, SlotsSame DEF Known
<1>5. FactsL2' \subseteq Known
  <2>1. CASE UNCHANGED l2
    BY <1>1, <2>1, RecordsGo DEF Known
  <2>2. CASE l2' = [x \in DOMAIN l2 \cup {k} |-> IF x = k THEN op[w].value ELSE l2[x]]
    <3>1. Live(op[w].value) => Fact(k, op[w].value) \in Known
      BY <1>1 DEF Known, FactsInHand, Key, StoreSteps
    <3>2. SUFFICES ASSUME NEW x \in DOMAIN l2', Live(l2'[x]) PROVE Fact(x, l2'[x]) \in Known
      BY <1>1 DEF FactsL2, Live, Fact
    <3>3. CASE x = k
      <4>1. l2'[x] = op[w].value
        BY <2>2, <3>2, <3>3
      <4>2. QED
        BY <3>1, <3>2, <3>3, <4>1
    <3>4. CASE x # k
      <4>1. x \in DOMAIN l2 /\ l2'[x] = l2[x]
        BY <2>2, <3>2, <3>4
      <4>2. QED
        BY <3>2, <4>1 DEF Known, FactsL2
    <3>5. QED
      BY <3>3, <3>4
  <2>3. QED
    BY <2>1, <2>2 DEF PutL2, Key
<1>6. QED
  BY <1>1, <1>3, <1>4, <1>5, Together DEF Forgets

LEMMA PruneForgets ==
    ASSUME IInv, NEW w \in Workers, Prune(w) \/ PutWithoutL2(w) \/ FetchFails(w)
    PROVE  Forgets
<1>1. UNCHANGED <<l1, now, device>> /\ Done(w)
  BY DEF Prune, PutWithoutL2, FetchFails, envVars
<1>2. FactsL2' \subseteq Known
  <2>1. UNCHANGED l2 \/ \E S \in SUBSET DOMAIN l2 : l2' = [k \in S |-> l2[k]]
    <3>1. CASE Prune(w)
      <4> DEFINE live == DOMAIN l2 \ {k \in Records(PartOf[Key(w)]) : ~Live(l2[k])}
      <4>1. UNCHANGED l2 \/ \E a, b : l2' = [k \in (live \ {a}) \ {b} |-> l2[k]]
        BY <3>1 DEF Prune
      <4>2. ASSUME NEW a, NEW b PROVE (live \ {a}) \ {b} \in SUBSET DOMAIN l2
        OBVIOUS
      <4> HIDE DEF live
      <4>3. QED
        BY <4>1, <4>2
    <3>2. CASE UNCHANGED l2
      BY <3>2
    <3>3. QED
      BY <3>1, <3>2 DEF PutWithoutL2, FetchFails
  <2>2. QED
    BY <1>1, <2>1, RecordsGo DEF Known
<1>3. QED
  BY <1>1, <1>2, L2Forgets

LEMMA ClearL2Forgets ==
    ASSUME IInv, NEW w \in Workers, ClearL2(w)
    PROVE  Forgets
<1>1. UNCHANGED <<l1, now, device>> /\ AfterClear(w)
  BY DEF ClearL2
<1>2. FactsL2' \subseteq Known
  <2>1. UNCHANGED l2 \/ \E S \in SUBSET DOMAIN l2 : l2' = [k \in S |-> l2[k]]
    <3> DEFINE S == {x \in DOMAIN l2 : PartOf[x] \notin Head(op[w].todo)}
    <3>1. UNCHANGED l2 \/ l2' = [k \in S |-> l2[k]]
      BY DEF ClearL2
    <3>2. S \in SUBSET DOMAIN l2
      OBVIOUS
    <3> HIDE DEF S
    <3>3. QED
      BY <3>1, <3>2
  <2>2. QED
    BY <1>1, <2>1, RecordsGo DEF Known
<1>3. FactsL1' \subseteq Known
  BY <1>1, SlotsSame DEF Known
<1>4. FactsInHand' \subseteq Known
  <2> DEFINE o1 == [op[w] EXCEPT !.step = "clear1", !.todo = Tail(op[w].todo)]
             o2 == [op[w] EXCEPT !.step = "fetch", !.todo = <<>>]
  <2>1. Done(w) \/ op' = [op EXCEPT ![w] = o1] \/ op' = [op EXCEPT ![w] = o2]
    BY <1>1 DEF AfterClear
  <2>2. o1.step = "clear1" /\ o2.step = "fetch"
    BY Start DEF Op
  <2> HIDE DEF o1, o2
  <2>3. QED
    BY <1>1, <2>1, <2>2, HandDone, HandEmpty DEF StoreSteps
<1>5. QED
  BY <1>1, <1>2, <1>3, <1>4, Together DEF Forgets

(* The start of a worker, and its end.                                      *)
LEMMA CreationForgets ==
    ASSUME IInv, NEW w \in Workers,
           OpenSegment(w) \/ SizeSegment(w) \/ InitSegment(w) \/ PublishSegment(w) \/ Attach(w)
    PROVE  Forgets
<1>1. UNCHANGED <<l2, now, device>>
  BY DEF OpenSegment, SizeSegment, InitSegment, PublishSegment, Attach
<1>2. FactsL1' \subseteq Known
  <2>1. CASE UNCHANGED l1
    BY <1>1, <2>1, SlotsSame DEF Known
  <2>2. CASE l1' = <<>>
    <3>1. DOMAIN l1' = {}
      BY <2>2
    <3>2. QED
      BY <3>1 DEF FactsL1
  <2>3. QED
    BY <2>1, <2>2 DEF OpenSegment, SizeSegment, InitSegment, PublishSegment, Attach
<1>3. Done(w) \/ \E s : Goto(w, s) /\ s \notin StoreSteps
  <2>1. AfterOpen(w) \/ \E s \in {"size", "attach", "init", "publish"} : Goto(w, s)
    BY DEF OpenSegment, SizeSegment, InitSegment, PublishSegment, Attach, WithL1, WithoutL1
  <2>2. AfterOpen(w) => Done(w) \/ \E s \in {"openL2", "clear1"} : Goto(w, s)
    BY DEF AfterOpen
  <2>3. \A s \in {"size", "attach", "init", "publish", "openL2", "clear1"} : s \notin StoreSteps
    BY DEF StoreSteps
  <2>4. QED
    BY <2>1, <2>2, <2>3
<1>4. QED
  BY <1>1, <1>2, <1>3, SectionForgets

LEMMA OpenL2Forgets ==
    ASSUME IInv, NEW w \in Workers, OpenL2(w)
    PROVE  Forgets
<1> DEFINE o == [op[w] EXCEPT !.step = "clear1", !.lmdb = FALSE]
<1>1. UNCHANGED <<l1, l2, now, device>>
  BY DEF OpenL2
<1>2. Done(w) \/ op' = [op EXCEPT ![w] = o]
  BY DEF OpenL2
<1>3. o.step = "clear1"
  BY Start DEF Op
<1> HIDE DEF o
<1>4. FactsInHand' \subseteq Known
  BY <1>1, <1>2, <1>3, HandDone, HandEmpty DEF StoreSteps
<1>5. FactsL1' \subseteq Known /\ FactsL2' \subseteq Known
  BY <1>1, SlotsSame, RecordsGo DEF Known
<1>6. QED
  BY <1>1, <1>4, <1>5, Together DEF Forgets

(* Wherever a worker dies, what it leaves is what it or the slots held.     *)
LEMMA DeathForgets ==
    ASSUME IInv, NEW w \in Workers, Dies(w) \/ AttachKills(w)
    PROVE  Forgets
<1>1. UNCHANGED <<l2, now, device>> /\ op' = [op EXCEPT ![w] = Starting]
  BY DEF Dies, Crash, CrashInPut, CrashInClear, CrashHolding, CrashWithMutex, Die, AttachKills
<1>2. FactsInHand' \subseteq Known
  BY <1>1, IdleOK, HandEmpty DEF StoreSteps
<1>3. FactsL2' \subseteq Known
  BY <1>1, RecordsGo DEF Known
<1>4. FactsL1' \subseteq Known
  <2>1. CASE UNCHANGED l1
    BY <1>1, <2>1, SlotsSame DEF Known
  <2>2. CASE \E S : l1' = Without(S)
    BY <1>1, <2>2, SlotsGo DEF Known
  <2>3. CASE CrashInPut(w)
    <3> DEFINE k == FullKey(w)
               v == op[w].value
               i == Target(k)
    <3>1. op[w].step \in StoreSteps /\ v \in Value /\ now \in Nat
      BY <2>3, Start DEF CrashInPut, StoreSteps, Op
    <3>2. Live(v) => Fact(k[1], v) \in Known
      BY <3>1 DEF Known, FactsInHand, FullKey
    <3>3. \/ \E S : l1' = Without(S)
          \/ \E e \in TornEntries(k, v) : l1' = With(i, e, Victims(i, v.length))
          \/ ShmPut(k, v)
      BY <2>3 DEF CrashInPut
    <3> HIDE DEF k, v, i
    <3>4. ASSUME NEW e \in TornEntries(k, v), l1' = With(i, e, Victims(i, v.length))
          PROVE  FactsL1' \subseteq Known
      BY <1>1, <3>1, <3>2, <3>4, TornShows
    <3>5. CASE ShmPut(k, v)
      BY <1>1, <3>2, <3>5, PutShows
    <3>6. QED
      BY <2>2, <3>3, <3>4, <3>5
  <2>4. QED
    BY <2>1, <2>2, <2>3 DEF Dies, Crash, CrashInClear, CrashHolding, AttachKills
<1>5. QED
  BY <1>1, <1>2, <1>3, <1>4, Together DEF Forgets

(* Time passes: what is still known has not reached its age.                *)
LEMMA TickAges ==
    ASSUME IInv, Tick
    PROVE  Memory!Tick
<1>1. UNCHANGED <<l1, l2, op, device>> /\ now' = now + 1 /\ now \in Nat
  BY DEF Tick, envVars, IInv, RestOK
<1>2. ASSUME NEW v \in Value, Live(v)' PROVE Live(v)
  <2>1. v.expires \in Nat
    BY DEF Value
  <2>2. QED
    BY <1>1, <1>2, <2>1 DEF Live
<1>3. ASSUME NEW k \in Keys, NEW v \in Value, v.expires > now', v.expires <= v.stored + 2 * Ttl[PartOf[k]]
      PROVE  now' - Fact(k, v).at < [x \in Keys |-> 2 * Ttl[PartOf[x]]][Fact(k, v).key]
  <2>1. Fact(k, v).at = v.stored /\ Fact(k, v).key = k
    BY DEF Fact
  <2>2. v.expires \in Nat /\ v.stored \in Nat /\ Ttl[PartOf[k]] \in Nat
    BY PartsAssumption, OptionsAssumption DEF Value
  <2>3. now' - v.stored < 2 * Ttl[PartOf[k]]
    BY <1>1, <1>3, <2>2
  <2>4. QED
    BY <2>1, <2>3
<1> DEFINE Young == {f \in Known : now' - f.at < [k \in Keys |-> 2 * Ttl[PartOf[k]]][f.key]}
<1>4. FactsL1' \subseteq Young
  <2>1. SUFFICES ASSUME NEW i \in DOMAIN l1, l1[i].key # NoKey, l1[i].value.expires > now'
                 PROVE  Fact(l1[i].key[1], l1[i].value) \in Young
    BY <1>1 DEF FactsL1, Live, Fact
  <2>2. SlotOK(l1[i])
    BY DEF IInv, L1OK, TableOK
  <2>3. l1[i].key[1] \in Keys /\ l1[i].value \in Value
    BY <2>1, <2>2 DEF SlotOK, Slot, FullKeys
  <2>4. l1[i].value.expires <= l1[i].value.stored + 2 * Ttl[PartOf[l1[i].key[1]]]
    BY <2>1, <2>2 DEF SlotOK
  <2>5. Live(l1[i].value)
    BY <1>2, <2>1, <2>3, <1>1 DEF Live
  <2>6. Fact(l1[i].key[1], l1[i].value) \in Known
    BY <2>1, <2>5 DEF Known, FactsL1
  <2>7. QED
    BY <1>3, <2>1, <2>3, <2>4, <2>6
<1>5. FactsL2' \subseteq Young
  <2>1. SUFFICES ASSUME NEW k \in DOMAIN l2, l2[k].expires > now'
                 PROVE  Fact(k, l2[k]) \in Young
    BY <1>1 DEF FactsL2, Live, Fact
  <2>2. k \in Keys /\ l2[k] \in Value /\ l2[k].expires <= l2[k].stored + Ttl[PartOf[k]]
    BY DEF IInv, RecordsOK
  <2>3. l2[k].expires <= l2[k].stored + 2 * Ttl[PartOf[k]]
    <3>1. l2[k].expires \in Nat /\ l2[k].stored \in Nat /\ Ttl[PartOf[k]] \in Nat
      BY <2>2, PartsAssumption, OptionsAssumption DEF Value
    <3>2. QED
      BY <2>2, <3>1
  <2>4. Live(l2[k])
    BY <1>2, <2>1, <2>2, <1>1 DEF Live
  <2>5. Fact(k, l2[k]) \in Known
    BY <2>4 DEF Known, FactsL2
  <2>6. QED
    BY <1>3, <2>1, <2>2, <2>3, <2>5
<1>6. FactsInHand' \subseteq Young
  <2>1. SUFFICES ASSUME NEW w \in Workers, op[w].step \in StoreSteps, op[w].value.expires > now'
                 PROVE  Fact(op[w].key, op[w].value) \in Young
    BY <1>1 DEF FactsInHand, Live, Fact, Key
  <2>2. OpOK(op[w]) /\ op[w].value \in Value
    BY Start DEF Op
  <2>3. op[w].key \in Keys
    BY <2>1, <2>2 DEF OpOK, StoreSteps
  <2>4. op[w].value.expires <= op[w].value.stored + 2 * Ttl[PartOf[op[w].key]]
    <3>1. op[w].value.expires \in Nat /\ op[w].value.stored \in Nat /\ Ttl[PartOf[op[w].key]] \in Nat
      BY <2>2, <2>3, PartsAssumption, OptionsAssumption DEF Value
    <3>2. \/ op[w].value.expires <= op[w].value.stored + 2 * Ttl[PartOf[op[w].key]]
          \/ op[w].value.expires <= op[w].value.stored + Ttl[PartOf[op[w].key]]
      BY <2>1, <2>2 DEF OpOK, StoreSteps
    <3>3. QED
      BY <3>1, <3>2
  <2>5. Live(op[w].value)
    BY <1>2, <2>1, <2>2, <1>1 DEF Live
  <2>6. Fact(op[w].key, op[w].value) \in Known
    BY <2>1, <2>5 DEF Known, FactsInHand, Key
  <2>7. QED
    BY <1>3, <2>1, <2>2, <2>3, <2>4, <2>6
<1>7. Known' \subseteq Young
  BY <1>4, <1>5, <1>6 DEF Known
<1>8. QED
  BY <1>1, <1>7 DEF Memory!Tick

LEMMA DeviceChanges ==
    ASSUME IInv, NEW k \in Keys, DeviceChange(k)
    PROVE  Memory!Change(k)
<1>1. UNCHANGED <<l1, l2, op, now>> /\ device' = [device EXCEPT ![k] = @ + 1]
  BY DEF DeviceChange
<1>2. FactsL1' \subseteq Known /\ FactsL2' \subseteq Known /\ FactsInHand' \subseteq Known
  BY <1>1, SlotsSame, RecordsGo, HandsSame DEF Known
<1>3. QED
  BY <1>1, <1>2, Together DEF Memory!Change

LEMMA MemoryStep ==
    ASSUME IInv, [Next]_vars
    PROVE  [Memory!Next]_<<now, device, Known>>
<1>1. ASSUME Forgets PROVE Memory!Next
  BY <1>1 DEF Forgets, Memory!Next, Memory!Forget
<1>2. CASE UNCHANGED vars
  <2>1. UNCHANGED <<l1, l2, op, now, device>>
    BY <1>2 DEF vars, envVars
  <2>2. UNCHANGED Known
    BY <2>1 DEF Known, FactsL1, FactsL2, FactsInHand, Live, Key
  <2>3. QED
    BY <2>1, <2>2
<1>3. ASSUME NEW w \in Workers, Begin(w) PROVE Memory!Next
  <2>1. ASSUME NEW k \in Keys, Read(w, k) \/ Refresh(w, k) \/ WriteAcked(w, k) PROVE Memory!Next
    <3>1. Forgets \/ Memory!Change(k)
      BY <2>1, CallsShow DEF Forgets, Memory!Change
    <3>2. QED
      BY <1>1, <3>1 DEF Memory!Next
  <2>2. ASSUME NEW parts, ClearCache(w, parts) PROVE Memory!Next
    BY <1>1, <2>2, ClearForgets
  <2>3. ASSUME NEW s, SetOptions(w, s) \/ SetOptionsFails(w, s) PROVE Memory!Next
    BY <1>1, <2>3, OptionsForget
  <2>4. QED
    BY <1>3, <2>1, <2>2, <2>3 DEF Begin
<1>4. ASSUME NEW w \in Workers, Continue(w) PROVE Memory!Next
  <2>1. CASE Lock(w) \/ SkipL1(w) \/ GetL1(w) \/ GetL2(w)
    BY <1>1, <2>1, LockForgets, SkipL1Forgets, GetL1Forgets, GetL2Forgets
  <2>2. CASE Promote(w) \/ PutL1(w) \/ PutL2(w)
    BY <1>1, <2>2, StoresForget, PutL2Forgets
  <2>3. CASE FetchFails(w) \/ PutWithoutL2(w) \/ Prune(w)
    BY <1>1, <2>3, PruneForgets
  <2>4. ASSUME NEW length, Fetch(w, length) PROVE Memory!Next
    BY <2>4, FetchLearns DEF Memory!Next
  <2>5. CASE ClearL1(w) \/ ClearL2(w)
    BY <1>1, <2>5, ClearL1Forgets, ClearL2Forgets
  <2>6. CASE OpenSegment(w) \/ SizeSegment(w) \/ InitSegment(w) \/ PublishSegment(w) \/ Attach(w)
    BY <1>1, <2>6, CreationForgets
  <2>7. CASE AttachKills(w) \/ OpenL2(w)
    BY <1>1, <2>7, DeathForgets, OpenL2Forgets
  <2>8. QED
    BY <1>4, <2>1, <2>2, <2>3, <2>4, <2>5, <2>6, <2>7 DEF Continue
<1>5. ASSUME NEW w \in Workers, Dies(w) PROVE Memory!Next
  BY <1>1, <1>5, DeathForgets
<1>6. CASE Tick
  BY <1>6, TickAges DEF Memory!Next
<1>7. ASSUME NEW k \in Keys, DeviceChange(k) PROVE Memory!Next
  BY <1>7, DeviceChanges DEF Memory!Next
<1>8. QED
  BY <1>2, <1>3, <1>4, <1>5, <1>6, <1>7 DEF Next

(* The levels, the slots and the workers implement a cache that may forget   *)
(* anything: what it knows of a key the device has given for this key, and   *)
(* nothing that has expired comes back.                                     *)
THEOREM Refinement == Spec => MemorySpec
<1>1. Init => Memory!Init
  <2> SUFFICES ASSUME Init PROVE Memory!Init
    OBVIOUS
  <2>1. DOMAIN l1 = {} /\ DOMAIN l2 = {} /\ now = 0 /\ device = [k \in Keys |-> 0]
    BY DEF Init
  <2>2. \A w \in Workers : op[w].step \in {"idle", "open"}
    BY IdleOK DEF Init
  <2>3. FactsL1 = {} /\ FactsL2 = {} /\ FactsInHand = {}
    BY <2>1, <2>2 DEF FactsL1, FactsL2, FactsInHand, StoreSteps
  <2>4. QED
    BY <2>1, <2>3 DEF Memory!Init, Known
<1>2. IInv /\ [Next]_vars => [Memory!Next]_Memory!vars
  BY MemoryStep DEF Memory!vars
<1>3. QED
  BY <1>1, <1>2, Inductive, PTL DEF Spec, MemorySpec, Memory!Spec
=============================================================================
