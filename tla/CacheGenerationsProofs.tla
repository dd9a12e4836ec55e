------------------------ MODULE CacheGenerationsProofs ------------------------
(* Theorems about CacheGenerations for every value of its constants.        *)
EXTENDS CacheGenerations, FiniteSetTheorems, WellFoundedInduction, TLAPS

-----------------------------------------------------------------------------
\* Numbers and finite sets.

(* A non-empty set of naturals has a least element.                         *)
LEMMA LeastExists ==
    ASSUME NEW S \in SUBSET Nat, S # {}
    PROVE  \E x \in S : \A y \in S : x <= y
<1> DEFINE R == OpToRel(<, Nat)
<1>1. \E x \in S : \A y \in S : ~ (<<y, x>> \in R)
  BY WFMin, NatLessThanWellFounded, Zenon
<1>2. \A x, y \in Nat : <<y, x>> \in R <=> y < x
  BY DEF OpToRel
<1> HIDE DEF R
<1>3. PICK x \in S : \A y \in S : ~ (<<y, x>> \in R)
  BY <1>1
<1>4. \A y \in S : ~ (y < x)
  BY <1>2, <1>3, Zenon
<1>5. x \in Nat /\ \A y \in S : y \in Nat
  OBVIOUS
<1>6. QED
  BY <1>4, <1>5

(* A finite set has a greatest: the smallest set without one, less an        *)
(* element, would be a smaller one.                                         *)
LEMMA MaxIsGreatest ==
    ASSUME NEW S \in SUBSET Nat, IsFiniteSet(S), S # {}
    PROVE  Max(S) \in S /\ \A y \in S : Max(S) >= y
<1> DEFINE HasMax(T) == \E x \in T : \A y \in T : x >= y
           sizes == {n \in Nat : \E T \in SUBSET S : T # {} /\ ~HasMax(T) /\ Cardinality(T) = n}
<1>1. ASSUME NEW n \in sizes PROVE \E m \in sizes : m < n
  <2>1. PICK T \in SUBSET S : T # {} /\ ~HasMax(T) /\ Cardinality(T) = n
    BY <1>1
  <2>2. PICK x \in T : TRUE
    BY <2>1
  <2>3. T \ {x} # {}
    <3>1. ASSUME T \ {x} = {} PROVE FALSE
      <4>1. T = {x} /\ x \in Nat
        BY <2>2, <3>1
      <4>2. HasMax(T)
        BY <4>1
      <4>3. QED
        BY <2>1, <4>2
    <3>2. QED
      BY <3>1
  <2>4. ~HasMax(T \ {x})
    <3>1. ASSUME NEW m \in T \ {x}, \A y \in T \ {x} : m >= y PROVE FALSE
      <4>1. m \in Nat /\ x \in Nat /\ \A y \in T : y \in Nat
        BY <2>2
      <4>2. CASE m >= x
        <5>1. \A y \in T : m >= y
          BY <3>1, <4>2
        <5>2. QED
          BY <2>1, <5>1
      <4>3. CASE ~(m >= x)
        <5>1. \A y \in T : x >= y
          BY <3>1, <4>1, <4>3
        <5>2. QED
          BY <2>1, <2>2, <5>1
      <4>4. QED
        BY <4>2, <4>3
    <3>2. QED
      BY <3>1
  <2>5. IsFiniteSet(T)
    BY FS_Subset
  <2>6. IsFiniteSet(T \ {x}) /\ Cardinality(T \ {x}) = Cardinality(T) - 1
    BY <2>2, <2>5, FS_RemoveElement
  <2>7. Cardinality(T \ {x}) \in Nat /\ n \in Nat
    BY <2>6, FS_CardinalityType
  <2>8. Cardinality(T \ {x}) \in sizes
    BY <2>3, <2>4, <2>7
  <2>9. Cardinality(T \ {x}) < n
    BY <2>1, <2>6, <2>7
  <2> HIDE DEF sizes
  <2>10. QED
    BY <2>8, <2>9
<1>2. sizes = {}
  <2>1. sizes \in SUBSET Nat
    OBVIOUS
  <2> HIDE DEF sizes
  <2>2. ASSUME sizes # {} PROVE FALSE
    <3>1. PICK n \in sizes : \A m \in sizes : n <= m
      BY <2>1, <2>2, LeastExists
    <3>2. PICK m \in sizes : m < n
      BY <1>1
    <3>3. m \in Nat /\ n \in Nat /\ n <= m
      BY <2>1, <3>1
    <3>4. QED
      BY <3>2, <3>3
  <2>3. QED
    BY <2>2
<1>3. Cardinality(S) \in Nat
  BY FS_CardinalityType
<1>4. HasMax(S)
  BY <1>2, <1>3
<1>5. QED
  BY <1>4 DEF Max

-----------------------------------------------------------------------------
(* The inductive invariant.                                                 *)

\* An entry that a read may get after version v was acknowledged.
Covers(e, v) == e = None \/ e.late \/ e.version >= v

Reading == {"check", "drop", "get1", "get2", "promote", "fetch", "put1", "set", "bumpSet"}

\* What a worker is doing: it has the key and the entry that its step needs,
\* and a write it reports has been executed.
OpOK(w) ==
    /\ op[w].step \in Reading => op[w].key \in Keys
    /\ op[w].step \in {"promote", "put1", "set"} => op[w].entry \in Entry
    /\ op[w].ack > 0 => /\ op[w].step \in {"clear1", "clear2", "bumpClear"}
                        /\ op[w].key \in Keys /\ op[w].ack <= device[op[w].key]

\* A write that has returned: executed, in the past, and with a generation of
\* its own unless the backend failed.
AckOK(a) ==
    /\ a.version <= device[a.key] /\ a.time <= now /\ a.gen <= generation
    /\ a.gen >= 1 \/ lost

\* A write on host h, or one for whose generation L1 of h has been emptied since,
\* has left nothing older there; no write has left anything older in the backend.
LevelsOK == \A a \in acks :
    /\ \A h \in Hosts : a.host = h \/ emptied[h] >= a.gen => lost \/ Covers(l1[h][a.key], a.version)
    /\ lost \/ Covers(backend[a.key], a.version)

\* The same for a write about to return.
ClearingOK(w) == op[w].ack > 0 =>
    /\ op[w].step \in {"clear2", "bumpClear"} => Covers(l1[Host(w)][op[w].key], op[w].ack)
    /\ op[w].step = "bumpClear" => lost \/ Covers(backend[op[w].key], op[w].ack)

\* L1 has been emptied for each generation that a worker knows.
KnownOK(w) == w \notin missed /\ op[w].step # "drop" =>
    \A a \in acks : a.gen <= known[w] => lost \/ a.host = Host(w) \/ emptied[Host(w)] >= a.gen

\* A worker knows the generation of each write before its latest check.
CheckedOK(w) == w \notin unchecked /\ op[w].step # "check" =>
    \A a \in acks : a.time < checked[w] => lost \/ a.gen <= known[w]

\* The versions a read must not be behind are those of writes that have returned;
\* after its check, if any, the worker knows the generation.
ReadOK(w) == op[w].step \in {"check", "drop", "get1", "get2"} =>
    /\ op[w].own > 0 => \E a \in acks :
          a.key = op[w].key /\ a.version = op[w].own /\ a.host = Host(w)
    /\ op[w].due > 0 => \E a \in acks :
          /\ a.key = op[w].key /\ a.version = op[w].due
          /\ op[w].step # "check" /\ w \notin unchecked => lost \/ a.gen <= known[w]

IInv ==
    /\ TypeOK /\ IsFiniteSet(acks)
    /\ \A a \in acks : AckOK(a)
    /\ LevelsOK
    /\ \A w \in Workers :
        OpOK(w) /\ ClearingOK(w) /\ KnownOK(w) /\ CheckedOK(w) /\ ReadOK(w)

-----------------------------------------------------------------------------
(* Facts about the operators.                                               *)

LEMMA NoneIsNoEntry == None \notin Entry /\ None.version = -1
BY DEF None, Entry

LEMMA UnseenNot ==
    ASSUME TypeOK, NEW w \in Workers, ~Unseen(w)
    PROVE  generation <= known[w] \/ generation <= emptied[Host(w)]
<1> DEFINE S == {known[w], emptied[Host(w)]}
<1>1. Host(w) \in Hosts /\ generation \in Nat
  BY HostsAssumption DEF Host, TypeOK
<1>2. known[w] \in Nat /\ emptied[Host(w)] \in Nat
  BY <1>1 DEF TypeOK
<1>3. IsFiniteSet(S)
  <2>1. IsFiniteSet({known[w]})
    BY FS_Singleton
  <2>2. S = {known[w]} \cup {emptied[Host(w)]}
    OBVIOUS
  <2> HIDE DEF S
  <2>3. IsFiniteSet({known[w]} \cup {emptied[Host(w)]})
    BY <2>1, FS_AddElement
  <2>4. QED
    BY <2>2, <2>3
<1>4. Max(S) \in S
  BY <1>2, <1>3, MaxIsGreatest
<1>5. ~(generation > Max(S))
  BY DEF Unseen
<1>6. QED
  BY <1>1, <1>2, <1>4, <1>5

(* The greatest version of a set of writes is that of one of them, or 0.    *)
LEMMA LatestExists ==
    ASSUME TypeOK, IsFiniteSet(acks), NEW A \in SUBSET acks
    PROVE  LET v == Max({0} \cup {a.version : a \in A})
           IN  v \in Nat /\ (v > 0 => \E a \in A : a.version = v)
<1> DEFINE f == [a \in A |-> a.version]
           S == {a.version : a \in A}
           V == {0} \cup S
<1>1. IsFiniteSet(A)
  BY FS_Subset
<1>2. f \in Surjection(A, S)
  BY DEF Surjection
<1>3. IsFiniteSet(S)
  BY <1>1, <1>2, FS_Surjection
<1>4. V = S \cup {0}
  OBVIOUS
<1>5. IsFiniteSet(V)
  BY <1>3, <1>4, FS_AddElement
<1>6. V \subseteq Nat /\ V # {}
  BY DEF TypeOK
<1>7. Max(V) \in V
  <2> HIDE DEF V
  <2> QED BY <1>5, <1>6, MaxIsGreatest
<1>8. Max(V) \in Nat
  BY <1>6, <1>7
<1>9. Max(V) > 0 => \E a \in A : a.version = Max(V)
  <2>1. ASSUME NEW m, m \in V, m > 0
        PROVE  \E a \in A : a.version = m
    BY <2>1
  <2> HIDE DEF V
  <2> QED BY <1>7, <2>1
<1>10. QED
  <2>1. V = {0} \cup {a.version : a \in A}
    OBVIOUS
  <2> HIDE DEF V
  <2> QED BY <2>1, <1>8, <1>9

LEMMA DueOK ==
    ASSUME TypeOK, IsFiniteSet(acks), NEW k \in Keys
    PROVE  Due(k) \in Nat /\ (Due(k) > 0 =>
             \E a \in acks : a.key = k /\ a.version = Due(k) /\ a.time + Interval <= now)
<1> DEFINE A == {b \in acks : b.key = k /\ b.time + Interval <= now}
<1>1. Due(k) = Max({0} \cup {a.version : a \in A})
  BY DEF Due, LatestAck
<1>2. A \in SUBSET acks
  OBVIOUS
<1>3. Due(k) \in Nat /\ (Due(k) > 0 => \E a \in A : a.version = Due(k))
  <2> HIDE DEF A
  <2> QED BY <1>1, <1>2, LatestExists
<1>4. QED
  BY <1>3

LEMMA OwnOK ==
    ASSUME TypeOK, IsFiniteSet(acks), NEW w \in Workers, NEW k \in Keys
    PROVE  Own(w, k) \in Nat /\ (Own(w, k) > 0 =>
             \E a \in acks : a.key = k /\ a.version = Own(w, k) /\ a.host = Host(w))
<1> DEFINE A == {b \in acks : b.key = k /\ b.host = Host(w)}
<1>1. Own(w, k) = Max({0} \cup {a.version : a \in A})
  BY DEF Own, LatestAck
<1>2. A \in SUBSET acks
  OBVIOUS
<1>3. Own(w, k) \in Nat /\ (Own(w, k) > 0 => \E a \in A : a.version = Own(w, k))
  <2> HIDE DEF A
  <2> QED BY <1>1, <1>2, LatestExists
<1>4. QED
  BY <1>3

(* What is stored now is late, or no older than any write that was executed. *)
LEMMA StoredOK ==
    ASSUME TypeOK, NEW k \in Keys, NEW e \in Entry
    PROVE  /\ Stored(k, e) \in Entry
           /\ \A v \in Nat : v <= device[k] => Covers(Stored(k, e), v)
<1>1. e.version \in Nat /\ e.late \in BOOLEAN /\ device[k] \in Nat
  BY DEF Entry, TypeOK
<1>2. (e.late \/ e.version < device[k]) \in BOOLEAN
  BY <1>1
<1>3. Stored(k, e) \in Entry /\ Stored(k, e).version = e.version
      /\ (Stored(k, e).late <=> e.late \/ e.version < device[k])
  BY <1>1, <1>2 DEF Stored, Entry
<1>4. QED
  BY <1>1, <1>3 DEF Covers

-----------------------------------------------------------------------------
(* Steps that concern one worker only.                                      *)

LEMMA LocalKeeps ==
    ASSUME IInv, NEW w \in Workers, NEW o \in Op, op' = [op EXCEPT ![w] = o],
           NEW g \in 0..generation, known' = [known EXCEPT ![w] = g],
           NEW c \in -Interval..now, checked' = [checked EXCEPT ![w] = c],
           missed' \in {missed, missed \cup {w}, missed \ {w}},
           unchecked' \in {unchecked, unchecked \cup {w}, unchecked \ {w}},
           UNCHANGED <<levelVars, device, acks, emptied, lost, now>>,
           ops' \in Nat, faults' \in Nat,
           OpOK(w)', ClearingOK(w)', KnownOK(w)', CheckedOK(w)', ReadOK(w)'
    PROVE  IInv'
<1> USE DEF levelVars
<1>1. TypeOK /\ op \in [Workers -> Op] /\ known \in [Workers -> 0..generation]
      /\ checked \in [Workers -> -Interval..now] /\ missed \subseteq Workers /\ unchecked \subseteq Workers
  BY DEF IInv, TypeOK
<1>2. TypeOK'
  BY <1>1 DEF TypeOK
<1>3. \A x \in Workers \ {w} : op'[x] = op[x] /\ known'[x] = known[x] /\ checked'[x] = checked[x]
                               /\ (x \in missed' <=> x \in missed) /\ (x \in unchecked' <=> x \in unchecked)
  BY <1>1
<1>4. IsFiniteSet(acks)' /\ (\A a \in acks : AckOK(a))' /\ LevelsOK'
  BY DEF IInv, AckOK, LevelsOK, Covers
<1>5. ASSUME NEW x \in Workers \ {w}
      PROVE  OpOK(x)' /\ ClearingOK(x)' /\ KnownOK(x)' /\ CheckedOK(x)' /\ ReadOK(x)'
  <2>1. OpOK(x) /\ ClearingOK(x) /\ KnownOK(x) /\ CheckedOK(x) /\ ReadOK(x)
    BY DEF IInv
  <2>2. op'[x] = op[x] /\ known'[x] = known[x] /\ checked'[x] = checked[x]
        /\ (x \in missed' <=> x \in missed) /\ (x \in unchecked' <=> x \in unchecked)
    BY <1>3
  <2>3. OpOK(x)' /\ ClearingOK(x)'
    BY <2>1, <2>2 DEF OpOK, ClearingOK, Covers, Host
  <2>4. KnownOK(x)' /\ CheckedOK(x)'
    BY <2>1, <2>2 DEF KnownOK, CheckedOK, Host
  <2>5. ReadOK(x)'
    BY <2>1, <2>2 DEF ReadOK, Host
  <2>6. QED
    BY <2>3, <2>4, <2>5
<1>6. QED
  BY <1>2, <1>4, <1>5 DEF IInv

(* Steps that change nothing but what the worker is doing, and begin no read. *)
LEMMA OpOnly ==
    ASSUME IInv, NEW w \in Workers, NEW o \in Op, op' = [op EXCEPT ![w] = o],
           UNCHANGED <<levelVars, checkVars, device, acks, ghostVars, now>>,
           ops' \in Nat, faults' \in Nat,
           ~At(w, "drop"), ~At(w, "check"), o.ack = 0,
           o.step \notin {"check", "drop", "get1"},
           o.step = "get2" => At(w, "get1") /\ o = [op[w] EXCEPT !.step = "get2"],
           o.step \in Reading => o.key \in Keys,
           o.step \in {"promote", "put1", "set"} => o.entry \in Entry
    PROVE  IInv'
<1> USE DEF levelVars, checkVars, ghostVars
<1>1. TypeOK /\ op \in [Workers -> Op] /\ known \in [Workers -> 0..generation]
      /\ checked \in [Workers -> -Interval..now]
      /\ OpOK(w) /\ KnownOK(w) /\ CheckedOK(w) /\ ReadOK(w)
  BY DEF IInv, TypeOK
<1>2. op'[w] = o /\ known[w] \in 0..generation /\ checked[w] \in -Interval..now
  BY <1>1
<1>3. known' = [known EXCEPT ![w] = known[w]] /\ checked' = [checked EXCEPT ![w] = checked[w]]
  BY <1>1
<1>4. OpOK(w)' /\ ClearingOK(w)'
  BY <1>2 DEF OpOK, ClearingOK
<1>5. KnownOK(w)' /\ CheckedOK(w)'
  BY <1>1, <1>2 DEF KnownOK, CheckedOK, Host, At
<1>6. ReadOK(w)'
  <2>1. CASE o.step = "get2"
    <3>1. o.key = op[w].key /\ o.own = op[w].own /\ o.due = op[w].due
      BY <2>1, <1>1 DEF Op
    <3>2. QED
      BY <2>1, <3>1, <1>1, <1>2 DEF ReadOK, Host, At
  <2>2. CASE o.step # "get2"
    BY <2>2, <1>2 DEF ReadOK
  <2>3. QED
    BY <2>1, <2>2
<1>7. QED
  BY <1>2, <1>3, <1>4, <1>5, <1>6, LocalKeeps

LEMMA BoundsStayNat ==
    ASSUME TypeOK
    PROVE  /\ Begin => ops' \in Nat /\ faults' \in Nat
           /\ Throws => ops' \in Nat /\ faults' \in Nat
           /\ UNCHANGED boundVars => ops' \in Nat /\ faults' \in Nat
BY DEF TypeOK, Begin, Throws, boundVars

LEMMA IdleIsOp == Idle \in Op /\ Idle = [step |-> "idle", key |-> NoKey, entry |-> None, due |-> 0, own |-> 0, ack |-> 0]
BY DEF Idle, New, Op, Steps

LEMMA GetL1Keeps ==
    ASSUME IInv, NEW w \in Workers, GetL1(w)
    PROVE  IInv'
<1>1. TypeOK /\ op[w] \in Op /\ ops' \in Nat /\ faults' \in Nat /\ OpOK(w)
  BY BoundsStayNat DEF IInv, TypeOK, GetL1
<1>2. CASE Done(w)
  BY <1>1, <1>2, IdleIsOp, OpOnly DEF GetL1, Done, At, Reading
<1>3. CASE Goto(w, "get2")
  <2> DEFINE o == [op[w] EXCEPT !.step = "get2"]
  <2>1. o \in Op /\ o.step = "get2" /\ o.key = op[w].key /\ op' = [op EXCEPT ![w] = o]
    BY <1>1, <1>3 DEF Op, Steps, Goto
  <2>2. op[w].ack = 0
    BY <1>1 DEF OpOK, Op, At, GetL1
  <2>3. QED
    BY <1>1, <2>1, <2>2, OpOnly DEF GetL1, OpOK, At, Reading, Op
<1>4. QED
  BY <1>2, <1>3 DEF GetL1

LEMMA GetBackendKeeps ==
    ASSUME IInv, NEW w \in Workers, GetBackend(w)
    PROVE  IInv'
<1>1. TypeOK /\ op[w] \in Op /\ ops' \in Nat /\ faults' \in Nat /\ OpOK(w)
      /\ op[w].key \in Keys /\ op[w].ack = 0
  <2>1. TypeOK /\ op[w] \in Op /\ OpOK(w) /\ op[w].step = "get2"
    BY DEF IInv, TypeOK, GetBackend, At
  <2>2. ops' \in Nat /\ faults' \in Nat
    BY <2>1, BoundsStayNat DEF GetBackend
  <2>3. op[w].key \in Keys
    BY <2>1 DEF OpOK, Reading
  <2>4. op[w].ack \in Nat /\ ~(op[w].ack > 0)
    BY <2>1 DEF OpOK, Op
  <2>5. op[w].ack = 0
    BY <2>4
  <2>6. QED
    BY <2>1, <2>2, <2>3, <2>5
<1>2. CASE Goto(w, "fetch")
  <2> DEFINE o == [op[w] EXCEPT !.step = "fetch"]
  <2>1. o \in Op /\ o.step = "fetch" /\ o.key = op[w].key /\ o.ack = 0 /\ op' = [op EXCEPT ![w] = o]
    BY <1>1, <1>2 DEF Op, Steps, Goto
  <2>2. QED
    BY <1>1, <2>1, OpOnly DEF GetBackend, At
<1>3. CASE backend[op[w].key] # None /\ op' = [op EXCEPT ![w].step = "promote", ![w].entry = backend[op[w].key]]
  <2> DEFINE e == backend[op[w].key]
             o == [op[w] EXCEPT !.step = "promote", !.entry = e]
  <2>1. e \in Entry
    BY <1>1, <1>3 DEF TypeOK
  <2>2. o \in Op /\ o.step = "promote" /\ o.key = op[w].key /\ o.ack = 0 /\ o.entry = e
        /\ op' = [op EXCEPT ![w] = o]
    BY <1>1, <1>3, <2>1 DEF Op, Steps
  <2>3. QED
    BY <1>1, <2>1, <2>2, OpOnly DEF GetBackend, At
<1>4. QED
  BY <1>2, <1>3 DEF GetBackend, Key

LEMMA FetchKeeps ==
    ASSUME IInv, NEW w \in Workers, Fetch(w) \/ FetchFails(w)
    PROVE  IInv'
<1>1. TypeOK /\ op[w] \in Op /\ ops' \in Nat /\ faults' \in Nat /\ OpOK(w) /\ At(w, "fetch")
      /\ op[w].key \in Keys /\ op[w].ack = 0
  BY BoundsStayNat DEF IInv, TypeOK, Fetch, FetchFails, OpOK, Op, At, Reading
<1>2. CASE FetchFails(w)
  <2>1. /\ op' = [op EXCEPT ![w] = Idle] /\ Idle \in Op /\ Idle.ack = 0 /\ Idle.step = "idle"
        /\ UNCHANGED <<levelVars, checkVars, device, acks, ghostVars, now>>
    BY <1>2, IdleIsOp DEF FetchFails, Done
  <2>2. ~At(w, "drop") /\ ~At(w, "check") /\ "idle" \notin Reading
    BY <1>1 DEF At, Reading
  <2>3. QED
    BY <1>1, <2>1, <2>2, OpOnly
<1>3. CASE Fetch(w)
  <2> DEFINE e == [version |-> device[op[w].key], late |-> FALSE]
             o == [op[w] EXCEPT !.step = "put1", !.entry = e]
  <2>1. e \in Entry
    BY <1>1 DEF TypeOK, Entry
  <2>2. o \in Op /\ o.step = "put1" /\ o.key = op[w].key /\ o.ack = 0 /\ o.entry = e
        /\ op' = [op EXCEPT ![w] = o]
    BY <1>1, <1>3, <2>1 DEF Op, Steps, Fetch, Key
  <2> HIDE DEF o, e
  <2>3. UNCHANGED <<levelVars, checkVars, device, acks, ghostVars, now>> /\ ~At(w, "drop") /\ ~At(w, "check")
    BY <1>1, <1>3 DEF Fetch, At
  <2>4. QED
    BY <1>1, <2>1, <2>2, <2>3, OpOnly
<1>4. QED
  BY <1>2, <1>3

LEMMA ClearStarts ==
    ASSUME IInv, NEW w \in Workers, NEW k \in Keys \cup {NoKey}, Attach(w) \/ ClearOrRefresh(w, k)
    PROVE  IInv'
<1>1. TypeOK /\ op[w] \in Op /\ ops' \in Nat /\ faults' \in Nat
  BY BoundsStayNat DEF IInv, TypeOK, Attach, ClearOrRefresh
<1>2. ASSUME NEW j \in Keys \cup {NoKey}, Clear(w, j)
      PROVE  \E o \in Op : op' = [op EXCEPT ![w] = o] /\ o.ack = 0 /\ o.step = "clear1"
  <2> DEFINE o == [Idle EXCEPT !.step = "clear1", !.key = j]
  <2>1. o \in Op /\ o.ack = 0 /\ o.step = "clear1"
    BY IdleIsOp DEF Op, Steps
  <2>2. QED
    BY <1>2, <2>1 DEF Clear
<1>3. PICK o \in Op : op' = [op EXCEPT ![w] = o] /\ o.ack = 0 /\ o.step = "clear1"
  BY <1>2 DEF Attach, ClearOrRefresh
<1>4. QED
  BY <1>1, <1>3, OpOnly DEF Attach, ClearOrRefresh, At, Reading

(* The check and the read it is part of.                                    *)
(* What a worker is doing once it has begun a read.                           *)
Begun(r, s, k, due, own) == [r EXCEPT !.step = s, !.key = k, !.due = due, !.own = own]

LEMMA ReadBegins ==
    ASSUME NEW r \in Op, NEW s \in Steps, NEW k \in Keys, NEW due \in Nat, NEW own \in Nat
    PROVE  /\ Begun(r, s, k, due, own) \in Op /\ Begun(r, s, k, due, own).ack = r.ack
           /\ Begun(r, s, k, due, own).step = s /\ Begun(r, s, k, due, own).key = k
           /\ Begun(r, s, k, due, own).due = due /\ Begun(r, s, k, due, own).own = own
BY DEF Begun, Op

LEMMA ReadKeeps ==
    ASSUME IInv, NEW w \in Workers, NEW k \in Keys, Read(w, k)
    PROVE  IInv'
<1>1. TypeOK /\ IsFiniteSet(acks) /\ op[w] \in Op /\ ops' \in Nat /\ faults' \in Nat
      /\ known[w] \in 0..generation /\ known \in [Workers -> 0..generation]
      /\ checked[w] \in -Interval..now /\ checked \in [Workers -> -Interval..now]
      /\ now \in Nat /\ KnownOK(w) /\ CheckedOK(w) /\ op[w].step = "idle"
  BY BoundsStayNat DEF IInv, TypeOK, Read, At
<1> DEFINE s == IF CheckIsDue(w) THEN "check" ELSE "get1"
           o == Begun(Idle, s, k, Due(k), Own(w, k))
           c == IF CheckIsDue(w) THEN now ELSE checked[w]
<1>2. o \in Op /\ op' = [op EXCEPT ![w] = o] /\ op'[w] = o /\ o.step = s /\ o.key = k
      /\ o.due = Due(k) /\ o.own = Own(w, k) /\ o.ack = 0
  <2>1. Due(k) \in Nat /\ Own(w, k) \in Nat /\ op \in [Workers -> Op]
    BY <1>1, DueOK, OwnOK DEF TypeOK
  <2>2. op' = [op EXCEPT ![w] = o]
    BY DEF Read, Begun
  <2>3. s \in Steps
    BY DEF Steps
  <2>4. Idle \in Op /\ Idle.ack = 0
    BY IdleIsOp
  <2> HIDE DEF s
  <2>5. o \in Op /\ o.step = s /\ o.key = k /\ o.due = Due(k) /\ o.own = Own(w, k) /\ o.ack = 0
    BY <2>1, <2>3, <2>4, ReadBegins
  <2> HIDE DEF o
  <2>6. QED
    BY <2>1, <2>2, <2>5
<1>3. c \in -Interval..now /\ checked' = [checked EXCEPT ![w] = c] /\ checked'[w] = c
  <2>1. now \in -Interval..now
    BY <1>1, IntervalAssumption
  <2>2. checked' = [checked EXCEPT ![w] = c]
    <3>1. CASE CheckIsDue(w)
      BY <3>1 DEF Read
    <3>2. CASE ~CheckIsDue(w)
      BY <1>1, <3>2 DEF Read
    <3>3. QED
      BY <3>1, <3>2
  <2>3. QED
    BY <1>1, <2>1, <2>2
<1>4. known' = [known EXCEPT ![w] = known[w]] /\ UNCHANGED <<levelVars, known, device, acks, ghostVars, now>>
  BY <1>1 DEF Read
<1> HIDE DEF o
<1>5. OpOK(w)' /\ ClearingOK(w)'
  BY <1>2 DEF OpOK, ClearingOK
<1>6. KnownOK(w)'
  BY <1>1, <1>2, <1>4 DEF KnownOK, Host, ghostVars
<1>7. CheckedOK(w)'
  BY <1>1, <1>2, <1>3, <1>4 DEF CheckedOK, Host, ghostVars
<1>8. ReadOK(w)'
  <2>1. Own(w, k) > 0 => \E a \in acks : a.key = k /\ a.version = Own(w, k) /\ a.host = Host(w)
    BY <1>1, OwnOK
  <2>2. Due(k) > 0 => \E a \in acks : a.key = k /\ a.version = Due(k) /\ a.time + Interval <= now
    BY <1>1, DueOK
  <2>3. ASSUME s # "check", w \notin unchecked, NEW a \in acks, a.time + Interval <= now
        PROVE  lost \/ a.gen <= known[w]
    <3>1. now - checked[w] < Interval
      BY <2>3, <1>1, IntervalAssumption DEF CheckIsDue
    <3>2. a.time \in Nat
      BY <1>1 DEF TypeOK
    <3>3. a.time < checked[w]
      BY <2>3, <3>1, <3>2, <1>1, IntervalAssumption
    <3>4. QED
      BY <2>3, <3>3, <1>1 DEF CheckedOK
  <2>4. UNCHANGED <<acks, known, lost, unchecked>>
    BY <1>4 DEF ghostVars
  <2> HIDE DEF s
  <2>5. QED
    BY <1>2, <2>1, <2>2, <2>3, <2>4 DEF ReadOK, Host
<1>9. QED
  BY <1>1, <1>2, <1>3, <1>4, <1>5, <1>6, <1>7, <1>8, LocalKeeps DEF ghostVars

LEMMA CheckKeeps ==
    ASSUME IInv, NEW w \in Workers, CheckGeneration(w)
    PROVE  IInv'
<1>1. TypeOK /\ op[w] \in Op /\ ops' \in Nat /\ faults' \in Nat /\ generation \in Nat
      /\ known[w] \in 0..generation /\ checked[w] \in -Interval..now
      /\ checked \in [Workers -> -Interval..now] /\ known \in [Workers -> 0..generation]
      /\ missed \subseteq Workers /\ unchecked \subseteq Workers
      /\ OpOK(w) /\ KnownOK(w) /\ ReadOK(w) /\ op[w].step = "check"
  BY BoundsStayNat DEF IInv, TypeOK, CheckGeneration, At, boundVars
<1> DEFINE s == IF known[w] \notin {0, generation} THEN "drop" ELSE "get1"
           o == [op[w] EXCEPT !.step = s]
<1>2. o \in Op /\ op' = [op EXCEPT ![w] = o] /\ op'[w] = o /\ o.step = s /\ o.key = op[w].key
      /\ o.due = op[w].due /\ o.own = op[w].own /\ o.ack = 0
  <2>1. op[w].ack = 0 /\ op[w].key \in Keys
    BY <1>1 DEF OpOK, Op, Reading
  <2>2. op' = [op EXCEPT ![w] = o] /\ op'[w] = o
    BY <1>1 DEF CheckGeneration, Goto, TypeOK
  <2>3. QED
    BY <1>1, <2>1, <2>2 DEF Op, Steps
<1>3. /\ checked' = [checked EXCEPT ![w] = checked[w]]
      /\ known' = [known EXCEPT ![w] = generation] /\ known'[w] = generation
      /\ generation \in 0..generation
      /\ UNCHANGED <<levelVars, checked, device, acks, emptied, lost, now>>
  BY <1>1 DEF CheckGeneration
<1>4. missed' \in {missed, missed \cup {w}} /\ unchecked' = unchecked \ {w}
  BY DEF CheckGeneration
<1> HIDE DEF o
<1>5. OpOK(w)' /\ ClearingOK(w)'
  <2>1. op[w].key \in Keys
    BY <1>1 DEF OpOK, Reading
  <2>2. QED
    BY <1>2, <2>1 DEF OpOK, ClearingOK
<1>6. ASSUME NEW a \in acks PROVE a.gen \in Nat /\ a.gen <= generation
  BY <1>1 DEF IInv, AckOK, TypeOK
<1>7. KnownOK(w)'
  <2> SUFFICES ASSUME w \notin missed', s # "drop", NEW a \in acks
               PROVE  lost \/ a.host = Host(w) \/ emptied[Host(w)] >= a.gen
    BY <1>2, <1>3 DEF KnownOK, Host
  <2>1. known[w] \in {0, generation}
    OBVIOUS
  <2>2. w \notin missed
    BY DEF CheckGeneration
  <2>3. CASE known[w] = generation
    BY <2>2, <2>3, <1>1, <1>6 DEF KnownOK
  <2>4. CASE known[w] = 0 /\ generation # 0
    <3>1. ~Unseen(w)
      BY <2>4 DEF CheckGeneration
    <3>2. generation <= emptied[Host(w)]
      BY <3>1, <2>4, <1>1, UnseenNot
    <3>3. emptied[Host(w)] \in Nat
      BY HostsAssumption, <1>1 DEF TypeOK, Host
    <3>4. QED
      BY <3>2, <3>3, <1>1, <1>6
  <2>5. QED
    BY <2>1, <2>3, <2>4
<1>8. CheckedOK(w)'
  BY <1>3, <1>6 DEF CheckedOK
<1>9. ReadOK(w)'
  <2>1. op[w].due > 0 => \E a \in acks : a.key = op[w].key /\ a.version = op[w].due
    BY <1>1 DEF ReadOK
  <2>2. op[w].own > 0 => \E a \in acks : a.key = op[w].key /\ a.version = op[w].own /\ a.host = Host(w)
    BY <1>1 DEF ReadOK
  <2> HIDE DEF s
  <2>3. QED
    BY <1>2, <1>3, <1>6, <2>1, <2>2 DEF ReadOK, Host
<1>10. QED
  BY <1>1, <1>2, <1>3, <1>4, <1>5, <1>7, <1>8, <1>9, LocalKeeps

LEMMA CheckFailsKeeps ==
    ASSUME IInv, NEW w \in Workers, CheckFails(w)
    PROVE  IInv'
<1>1. TypeOK /\ op[w] \in Op /\ ops' \in Nat /\ faults' \in Nat /\ generation \in Nat
      /\ known[w] \in 0..generation /\ checked[w] \in -Interval..now
      /\ checked \in [Workers -> -Interval..now] /\ known \in [Workers -> 0..generation]
      /\ unchecked \subseteq Workers
      /\ OpOK(w) /\ KnownOK(w) /\ ReadOK(w) /\ op[w].step = "check"
  BY BoundsStayNat DEF IInv, TypeOK, CheckFails, At
<1> DEFINE o == [op[w] EXCEPT !.step = "get1"]
<1>2. o \in Op /\ op' = [op EXCEPT ![w] = o] /\ op'[w] = o /\ o.step = "get1" /\ o.key = op[w].key
      /\ o.due = op[w].due /\ o.own = op[w].own /\ o.ack = 0 /\ o.key \in Keys
  <2>1. op[w].ack = 0 /\ op[w].key \in Keys
    BY <1>1 DEF OpOK, Op, Reading
  <2>2. op' = [op EXCEPT ![w] = o] /\ op'[w] = o
    BY <1>1 DEF CheckFails, Goto, TypeOK
  <2>3. QED
    BY <1>1, <2>1, <2>2 DEF Op, Steps
<1>3. /\ checked' = [checked EXCEPT ![w] = checked[w]] /\ known' = [known EXCEPT ![w] = known[w]]
      /\ unchecked' = unchecked \cup {w} /\ w \in unchecked'
      /\ UNCHANGED <<levelVars, checkVars, device, acks, emptied, missed, lost, now>>
  BY <1>1 DEF CheckFails, checkVars
<1> HIDE DEF o
<1>4. OpOK(w)' /\ ClearingOK(w)' /\ CheckedOK(w)'
  BY <1>2, <1>3 DEF OpOK, ClearingOK, CheckedOK
<1>5. KnownOK(w)'
  BY <1>1, <1>2, <1>3 DEF KnownOK, Host, checkVars
<1>6. ReadOK(w)'
  BY <1>1, <1>2, <1>3 DEF ReadOK, Host
<1>7. QED
  BY <1>1, <1>2, <1>3, <1>4, <1>5, <1>6, LocalKeeps

LEMMA RestartKeeps ==
    ASSUME IInv, NEW w \in Workers, Restart(w)
    PROVE  IInv'
<1>1. TypeOK /\ ops' \in Nat /\ faults' \in Nat /\ generation \in Nat /\ now \in Nat
      /\ op \in [Workers -> Op] /\ checked \in [Workers -> -Interval..now]
      /\ known \in [Workers -> 0..generation] /\ Interval \in Nat
  BY IntervalAssumption DEF IInv, TypeOK, Restart
<1>2. New \in Op /\ New.step = "new" /\ New.ack = 0
  BY DEF New, Op, Steps
<1>3. -Interval \in -Interval..now /\ 0 \in 0..generation
  BY <1>1
<1>4. op' = [op EXCEPT ![w] = New] /\ op'[w] = New /\ known' = [known EXCEPT ![w] = 0] /\ known'[w] = 0
      /\ checked' = [checked EXCEPT ![w] = -Interval] /\ checked'[w] = -Interval
      /\ missed' = missed \ {w} /\ unchecked' = unchecked \ {w}
      /\ UNCHANGED <<levelVars, device, acks, emptied, lost, now>>
  BY <1>1 DEF Restart
<1> HIDE DEF New
<1>5. OpOK(w)' /\ ClearingOK(w)' /\ ReadOK(w)'
  BY <1>2, <1>4 DEF OpOK, ClearingOK, ReadOK, Reading
<1>6. ASSUME NEW a \in acks
      PROVE  (a.gen <= 0 => lost) /\ ~(a.time < -Interval)
  BY <1>1 DEF IInv, AckOK, TypeOK
<1>7. KnownOK(w)' /\ CheckedOK(w)'
  BY <1>4, <1>6 DEF KnownOK, CheckedOK
<1>8. QED
  BY <1>1, <1>2, <1>3, <1>4, <1>5, <1>7, LocalKeeps

-----------------------------------------------------------------------------
(* Steps that change L1 of the worker's host.                               *)

LEMMA EmptyKeeps ==
    ASSUME IInv, NEW w \in Workers, NEW step \in {"get1", "clear2"},
           op[w].step = (IF step = "get1" THEN "drop" ELSE "clear1"),
           EmptyL1(Host(w)), Goto(w, step),
           UNCHANGED <<backend, generation, checkVars, device, acks, unchecked, lost, now, boundVars>>
    PROVE  IInv'
<1> DEFINE g == Host(w)
<1>1. TypeOK /\ op \in [Workers -> Op] /\ op[w] \in Op /\ l1 \in [Hosts -> [Keys -> Entry \cup {None}]]
      /\ emptied \in [Hosts -> 0..generation] /\ generation \in Nat /\ g \in Hosts /\ generation \in 0..generation
  BY HostsAssumption DEF IInv, TypeOK, Host
<1>2. l1' = [l1 EXCEPT ![g] = Nothing] /\ emptied' = [emptied EXCEPT ![g] = generation] /\ missed' = missed \ Mates(g)
  BY DEF EmptyL1
<1>3. op' = [op EXCEPT ![w].step = step] /\ op'[w] = [op[w] EXCEPT !.step = step] /\ op'[w] \in Op
      /\ op'[w].step = step /\ op'[w].key = op[w].key /\ op'[w].entry = op[w].entry /\ op'[w].ack = op[w].ack
      /\ op'[w].own = op[w].own /\ op'[w].due = op[w].due
  BY <1>1 DEF Goto, Op, Steps
<1>4. UNCHANGED <<backend, generation, known, checked, device, acks, unchecked, lost, now, ops, faults>>
  BY DEF checkVars, boundVars
<1>5. \A x \in Workers \ {w} : op'[x] = op[x]
  BY <1>1, <1>3
<1>6. Nothing \in [Keys -> Entry \cup {None}]
  BY DEF Nothing
<1>7. TypeOK'
  <2>1. op' \in [Workers -> Op]
    BY <1>1, <1>3
  <2>2. l1' \in [Hosts -> [Keys -> Entry \cup {None}]] /\ emptied' \in [Hosts -> 0..generation]
    BY <1>1, <1>2, <1>6
  <2>3. QED
    BY <1>1, <1>2, <1>4, <2>1, <2>2 DEF TypeOK
<1>8. \A h \in Hosts : \A k \in Keys : l1'[h][k] = (IF h = g THEN None ELSE l1[h][k])
  BY <1>1, <1>2 DEF Nothing
<1>9. \A h \in Hosts : emptied'[h] = (IF h = g THEN generation ELSE emptied[h])
  BY <1>1, <1>2
<1>10. \A x \in Workers : Host(x) \in Hosts /\ (Host(x) # g => (x \in missed' <=> x \in missed))
  BY <1>2, HostsAssumption DEF Host, Mates
<1> HIDE DEF g
<1>11. IsFiniteSet(acks)' /\ (\A a \in acks : AckOK(a))'
  BY <1>4 DEF IInv, AckOK
<1>12. \A a \in acks : a.key \in Keys /\ a.gen \in Nat /\ a.gen <= generation
  BY <1>1 DEF IInv, TypeOK, AckOK
<1>13. LevelsOK'
  <2> SUFFICES ASSUME NEW a \in acks
               PROVE  /\ \A h \in Hosts : a.host = h \/ emptied'[h] >= a.gen =>
                            lost \/ Covers(l1'[h][a.key], a.version)
                      /\ lost \/ Covers(backend[a.key], a.version)
    BY <1>4 DEF LevelsOK, Covers
  <2>1. LevelsOK
    BY DEF IInv
  <2>2. QED
    BY <2>1, <1>8, <1>9, <1>12 DEF LevelsOK, Covers
<1>14. ASSUME NEW x \in Workers
       PROVE  OpOK(x)' /\ ClearingOK(x)' /\ KnownOK(x)' /\ CheckedOK(x)' /\ ReadOK(x)'
  <2>1. OpOK(x) /\ ClearingOK(x) /\ KnownOK(x) /\ CheckedOK(x) /\ ReadOK(x) /\ op[x] \in Op
    BY <1>1 DEF IInv
  <2>2. op'[x].key = op[x].key /\ op'[x].ack = op[x].ack /\ op'[x].own = op[x].own /\ op'[x].due = op[x].due
        /\ op'[x].entry = op[x].entry /\ op'[x].step = (IF x = w THEN step ELSE op[x].step)
    BY <1>3, <1>5
  <2>3. OpOK(x)'
    BY <2>1, <2>2, <1>4 DEF OpOK, Reading
  <2>4. ClearingOK(x)'
    <3>1. op[x].ack > 0 => op[x].key \in Keys
      BY <2>1 DEF OpOK
    <3>2. CASE Host(x) = g
      BY <3>1, <3>2, <2>1, <2>2, <1>4, <1>8, <1>10 DEF ClearingOK, Covers, Host
    <3>3. CASE Host(x) # g
      <4>1. x # w
        BY <3>3 DEF g
      <4>2. Host(x) \in Hosts /\ Host(x)' = Host(x) /\ op'[x].step = op[x].step
        BY <4>1, <2>2, <1>10 DEF Host
      <4>3. op[x].key \in Keys => l1'[Host(x)][op[x].key] = l1[Host(x)][op[x].key]
        BY <4>2, <3>3, <1>8
      <4>4. QED
        BY <4>2, <4>3, <3>1, <2>1, <2>2, <1>4 DEF ClearingOK
    <3>4. QED
      BY <3>2, <3>3
  <2>5. KnownOK(x)'
    <3>1. CASE Host(x) = g
      <4>1. emptied'[Host(x)] = generation
        BY <3>1, <1>9, <1>10
      <4>2. QED
        BY <4>1, <1>4, <1>12 DEF KnownOK, Host
    <3>2. CASE Host(x) # g
      <4>1. x # w
        BY <3>2 DEF g
      <4>2. emptied'[Host(x)] = emptied[Host(x)] /\ (x \in missed' <=> x \in missed)
        BY <3>2, <1>9, <1>10
      <4>3. QED
        BY <4>1, <4>2, <2>1, <2>2, <1>4 DEF KnownOK, Host
    <3>3. QED
      BY <3>1, <3>2
  <2>6. CheckedOK(x)'
    BY <2>1, <2>2, <1>4 DEF CheckedOK
  <2>7. ReadOK(x)'
    BY <2>1, <2>2, <1>4 DEF ReadOK, Host
  <2>8. QED
    BY <2>3, <2>4, <2>5, <2>6, <2>7
<1>15. QED
  BY <1>7, <1>11, <1>13, <1>14 DEF IInv

LEMMA StoreKeeps ==
    ASSUME IInv, NEW w \in Workers, At(w, "promote") \/ At(w, "put1"), StoreL1(w),
           NEW o \in Op, op' = [op EXCEPT ![w] = o], o.ack = 0, o.step \in {"idle", "set"},
           o.step = "set" => o.key = op[w].key /\ o.entry = op[w].entry,
           UNCHANGED <<backend, generation, checkVars, device, acks, ghostVars, now, boundVars>>
    PROVE  IInv'
<1> DEFINE g == Host(w)
           k == op[w].key
           e == Stored(k, op[w].entry)
<1>1. TypeOK /\ op \in [Workers -> Op] /\ l1 \in [Hosts -> [Keys -> Entry \cup {None}]] /\ g \in Hosts
      /\ OpOK(w)
  BY HostsAssumption DEF IInv, TypeOK, Host
<1>2. op[w].entry \in Entry /\ k \in Keys
  BY <1>1 DEF OpOK, At, Reading
<1>3. e \in Entry /\ \A v \in Nat : v <= device[k] => Covers(e, v)
  BY <1>1, <1>2, StoredOK
<1>4. l1' = [l1 EXCEPT ![g][k] = e]
  BY DEF StoreL1, Key
<1> HIDE DEF e
<1>5. UNCHANGED <<backend, generation, known, checked, device, acks, emptied, missed, unchecked, lost, now, ops, faults>>
  BY DEF checkVars, boundVars, ghostVars
<1>6. op'[w] = o /\ \A x \in Workers \ {w} : op'[x] = op[x]
  BY <1>1
<1>7. l1' \in [Hosts -> [Keys -> Entry \cup {None}]]
  BY <1>1, <1>2, <1>3, <1>4
<1>8. TypeOK'
  <2>1. op' \in [Workers -> Op]
    BY <1>1
  <2>2. QED
    BY <1>1, <1>5, <1>7, <2>1 DEF TypeOK
<1>9. ASSUME NEW h \in Hosts, NEW j \in Keys
      PROVE  l1'[h][j] = (IF h = g /\ j = k THEN e ELSE l1[h][j])
  BY <1>1, <1>2, <1>4
<1> HIDE DEF g, k
<1>10. IsFiniteSet(acks)' /\ (\A a \in acks : AckOK(a))'
  BY <1>5 DEF IInv, AckOK
<1>11. LevelsOK'
  <2> SUFFICES ASSUME NEW a \in acks
               PROVE  /\ \A h \in Hosts : a.host = h \/ emptied[h] >= a.gen =>
                            lost \/ Covers(l1'[h][a.key], a.version)
                      /\ lost \/ Covers(backend[a.key], a.version)
    BY <1>5 DEF LevelsOK, Covers
  <2>1. a.key \in Keys /\ a.version \in Nat /\ a.version <= device[a.key]
    BY <1>1 DEF IInv, TypeOK, AckOK
  <2>2. LevelsOK
    BY DEF IInv
  <2>3. \A h \in Hosts : Covers(l1[h][a.key], a.version) => Covers(l1'[h][a.key], a.version)
    BY <2>1, <1>3, <1>9
  <2>4. QED
    BY <2>2, <2>3 DEF LevelsOK
<1>12. ASSUME NEW x \in Workers
       PROVE  OpOK(x)' /\ ClearingOK(x)' /\ KnownOK(x)' /\ CheckedOK(x)' /\ ReadOK(x)'
  <2>1. OpOK(x) /\ ClearingOK(x) /\ KnownOK(x) /\ CheckedOK(x) /\ ReadOK(x) /\ op[x] \in Op
    BY <1>1 DEF IInv
  <2>2. CASE x = w
    <3>1. OpOK(x)' /\ ClearingOK(x)' /\ ReadOK(x)'
      BY <2>2, <1>2, <1>6 DEF OpOK, ClearingOK, ReadOK, Reading, k
    <3>2. KnownOK(x)' /\ CheckedOK(x)'
      BY <2>1, <2>2, <1>5, <1>6 DEF KnownOK, CheckedOK, Host, At
    <3>3. QED
      BY <3>1, <3>2
  <2>3. CASE x # w
    <3>1. op'[x] = op[x]
      BY <2>3, <1>6
    <3>2. OpOK(x)' /\ ReadOK(x)' /\ KnownOK(x)' /\ CheckedOK(x)'
      BY <2>1, <3>1, <1>5 DEF OpOK, KnownOK, CheckedOK, ReadOK, Host
    <3>3. ClearingOK(x)'
      <4>1. op[x].ack > 0 => op[x].key \in Keys /\ op[x].ack \in Nat /\ op[x].ack <= device[op[x].key]
        BY <2>1 DEF OpOK, Op
      <4>2. Host(x) \in Hosts
        BY HostsAssumption DEF Host
      <4>3. op[x].ack > 0 /\ Covers(l1[Host(x)][op[x].key], op[x].ack)
              => Covers(l1'[Host(x)][op[x].key], op[x].ack)
        BY <4>1, <4>2, <1>3, <1>9
      <4>4. ClearingOK(x)' <=> (op[x].ack > 0 =>
              /\ op[x].step \in {"clear2", "bumpClear"} => Covers(l1'[Host(x)][op[x].key], op[x].ack)
              /\ op[x].step = "bumpClear" => lost \/ Covers(backend[op[x].key], op[x].ack))
        BY <3>1, <1>5 DEF ClearingOK, Covers, Host
      <4>5. QED
        BY <2>1, <4>3, <4>4 DEF ClearingOK
    <3>4. QED
      BY <3>2, <3>3
  <2>4. QED
    BY <2>2, <2>3
<1>13. QED
  BY <1>8, <1>10, <1>11, <1>12 DEF IInv

-----------------------------------------------------------------------------
(* Steps that change the backend.                                           *)

(* A backend in which each entry is the old one, none, or one that no write *)
(* executed so far makes old.                                               *)
LEMMA BackendKeeps ==
    ASSUME IInv, NEW w \in Workers, NEW step \in {"bumpSet", "bumpClear"}, Goto(w, step),
           At(w, IF step = "bumpSet" THEN "set" ELSE "clear2"),
           backend' \in [Keys -> Entry \cup {None}],
           \A k \in Keys : \A v \in Nat :
               v <= device[k] /\ Covers(backend[k], v) => Covers(backend'[k], v),
           lost' \in BOOLEAN, lost => lost',
           step = "bumpClear" /\ op[w].ack > 0 => lost' \/ backend' = Nothing,
           ops' \in Nat, faults' \in Nat,
           UNCHANGED <<l1, generation, checkVars, device, acks, emptied, missed, unchecked, now>>
    PROVE  IInv'
<1>1. TypeOK /\ op \in [Workers -> Op] /\ op[w] \in Op
  BY DEF IInv, TypeOK
<1>2. op' = [op EXCEPT ![w].step = step] /\ op'[w] = [op[w] EXCEPT !.step = step] /\ op'[w] \in Op
      /\ op'[w].step = step /\ op'[w].key = op[w].key /\ op'[w].entry = op[w].entry /\ op'[w].ack = op[w].ack
      /\ op'[w].own = op[w].own /\ op'[w].due = op[w].due
  BY <1>1 DEF Goto, Op, Steps
<1>3. \A x \in Workers \ {w} : op'[x] = op[x]
  BY <1>1, <1>2
<1>4. UNCHANGED <<l1, generation, known, checked, device, acks, emptied, missed, unchecked, now>>
  BY DEF checkVars
<1>5. TypeOK'
  <2>1. op' \in [Workers -> Op]
    BY <1>1, <1>2
  <2>2. QED
    BY <1>1, <1>4, <2>1 DEF TypeOK
<1>6. \A a \in acks : a.key \in Keys /\ a.version \in Nat /\ a.version <= device[a.key]
  BY <1>1 DEF IInv, TypeOK, AckOK
<1>7. IsFiniteSet(acks)' /\ (\A a \in acks : AckOK(a))'
  BY <1>4 DEF IInv, AckOK
<1>8. LevelsOK'
  <2> SUFFICES ASSUME NEW a \in acks
               PROVE  /\ \A h \in Hosts : a.host = h \/ emptied[h] >= a.gen =>
                            lost' \/ Covers(l1[h][a.key], a.version)
                      /\ lost' \/ Covers(backend'[a.key], a.version)
    BY <1>4 DEF LevelsOK, Covers
  <2>1. LevelsOK
    BY DEF IInv
  <2>2. QED
    BY <2>1, <1>6 DEF LevelsOK
<1>9. ASSUME NEW x \in Workers
      PROVE  OpOK(x)' /\ ClearingOK(x)' /\ KnownOK(x)' /\ CheckedOK(x)' /\ ReadOK(x)'
  <2>1. OpOK(x) /\ ClearingOK(x) /\ KnownOK(x) /\ CheckedOK(x) /\ ReadOK(x) /\ op[x] \in Op
    BY <1>1 DEF IInv
  <2>2. op'[x].key = op[x].key /\ op'[x].ack = op[x].ack /\ op'[x].own = op[x].own /\ op'[x].due = op[x].due
        /\ op'[x].entry = op[x].entry /\ op'[x].step = (IF x = w THEN step ELSE op[x].step)
    BY <1>2, <1>3
  <2>3. OpOK(x)'
    BY <2>1, <2>2, <1>4 DEF OpOK, Reading, At
  <2>4. ClearingOK(x)'
    <3>1. op[x].ack > 0 => op[x].key \in Keys /\ op[x].ack \in Nat /\ op[x].ack <= device[op[x].key]
      BY <2>1 DEF OpOK, Op
    <3>2. op[x].ack > 0 /\ Covers(backend[op[x].key], op[x].ack) => Covers(backend'[op[x].key], op[x].ack)
      BY <3>1
    <3>3. ClearingOK(x)' <=> (op[x].ack > 0 =>
              /\ op'[x].step \in {"clear2", "bumpClear"} => Covers(l1[Host(x)][op[x].key], op[x].ack)
              /\ op'[x].step = "bumpClear" => lost' \/ Covers(backend'[op[x].key], op[x].ack))
      BY <2>2, <1>4 DEF ClearingOK, Covers, Host
    <3>4. CASE x # w
      BY <3>4, <2>1, <2>2, <3>2, <3>3 DEF ClearingOK
    <3>5. CASE x = w /\ step = "bumpSet"
      BY <3>5, <2>2, <3>3
    <3>6. CASE x = w /\ step = "bumpClear"
      <4>1. op[x].ack > 0 /\ backend' = Nothing => Covers(backend'[op[x].key], op[x].ack)
        BY <3>1 DEF Covers, Nothing
      <4>2. op[x].ack > 0 => Covers(l1[Host(x)][op[x].key], op[x].ack)
        BY <3>6, <2>1 DEF ClearingOK, At
      <4>3. QED
        BY <3>6, <3>3, <4>1, <4>2
    <3>7. QED
      BY <3>4, <3>5, <3>6
  <2>5. KnownOK(x)'
    BY <2>1, <2>2, <1>4 DEF KnownOK, Host, At
  <2>6. CheckedOK(x)'
    BY <2>1, <2>2, <1>4 DEF CheckedOK, At
  <2>7. ReadOK(x)'
    BY <2>1, <2>2, <1>4 DEF ReadOK, Host
  <2>8. QED
    BY <2>3, <2>4, <2>5, <2>6, <2>7
<1>10. QED
  BY <1>5, <1>7, <1>8, <1>9 DEF IInv

LEMMA SetBackendKeeps ==
    ASSUME IInv, NEW w \in Workers, SetBackend(w)
    PROVE  IInv'
<1>1. TypeOK /\ OpOK(w) /\ backend \in [Keys -> Entry \cup {None}] /\ lost \in BOOLEAN
  BY DEF IInv, TypeOK
<1>2. ops' \in Nat /\ faults' \in Nat
  BY <1>1, BoundsStayNat DEF SetBackend
<1>3. op[w].key \in Keys /\ op[w].entry \in Entry
  BY <1>1 DEF OpOK, SetBackend, At, Reading
<1> DEFINE k == op[w].key
           e == Stored(k, op[w].entry)
<1>4. e \in Entry /\ \A v \in Nat : v <= device[k] => Covers(e, v)
  BY <1>1, <1>3, StoredOK
<1>5. backend' = [backend EXCEPT ![k] = e] \/ backend' = backend
  BY DEF SetBackend, Key
<1> HIDE DEF e, k
<1>6. backend' \in [Keys -> Entry \cup {None}]
  BY <1>1, <1>4, <1>5
<1>7. \A j \in Keys : \A v \in Nat : v <= device[j] /\ Covers(backend[j], v) => Covers(backend'[j], v)
  BY <1>1, <1>4, <1>5
<1>8. QED
  BY <1>1, <1>2, <1>6, <1>7, BackendKeeps DEF SetBackend, ghostVars

LEMMA ClearBackendKeeps ==
    ASSUME IInv, NEW w \in Workers, ClearBackend(w)
    PROVE  IInv'
<1>1. TypeOK /\ backend \in [Keys -> Entry \cup {None}] /\ lost \in BOOLEAN
  BY DEF IInv, TypeOK
<1>2. ops' \in Nat /\ faults' \in Nat
  BY <1>1, BoundsStayNat DEF ClearBackend, boundVars
<1>3. backend' = Nothing \/ backend' = backend
  BY DEF ClearBackend
<1>4. backend' \in [Keys -> Entry \cup {None}]
  BY <1>1, <1>3 DEF Nothing
<1>5. \A j \in Keys : \A v \in Nat : v <= device[j] /\ Covers(backend[j], v) => Covers(backend'[j], v)
  BY <1>3 DEF Nothing, Covers
<1>6. lost' \in BOOLEAN /\ (lost => lost') /\ (op[w].ack > 0 => lost' \/ backend' = Nothing)
  BY <1>1 DEF ClearBackend
<1>7. QED
  BY <1>2, <1>4, <1>5, <1>6, BackendKeeps DEF ClearBackend

-----------------------------------------------------------------------------
(* The other steps.                                                         *)

LEMMA WriteKeeps ==
    ASSUME IInv, NEW w \in Workers, NEW k \in Keys, WriteAcked(w, k)
    PROVE  IInv'
<1> DEFINE o == [Idle EXCEPT !.step = "clear1", !.key = k, !.ack = device[k] + 1]
<1>1. TypeOK /\ op \in [Workers -> Op] /\ device \in [Keys -> Nat]
  BY DEF IInv, TypeOK
<1>2. o \in Op /\ o.step = "clear1" /\ o.key = k /\ o.ack = device[k] + 1
  <2>1. device[k] + 1 \in Nat
    BY <1>1
  <2>2. QED
    BY <2>1, IdleIsOp DEF Op, Steps
<1>3. op' = [op EXCEPT ![w] = o] /\ op'[w] = o /\ \A x \in Workers \ {w} : op'[x] = op[x]
  BY <1>1 DEF WriteAcked
<1> HIDE DEF o
<1>4. device' = [device EXCEPT ![k] = @ + 1] /\ device' \in [Keys -> Nat] /\ device'[k] = device[k] + 1
      /\ \A j \in Keys : device[j] <= device'[j]
  BY <1>1 DEF WriteAcked
<1>5. UNCHANGED <<l1, backend, generation, known, checked, acks, emptied, missed, unchecked, lost, now, ops, faults>>
  BY DEF WriteAcked, levelVars, checkVars, ghostVars, boundVars
<1>6. TypeOK'
  <2>1. op' \in [Workers -> Op]
    BY <1>1, <1>2, <1>3
  <2>2. QED
    BY <1>1, <1>4, <1>5, <2>1 DEF TypeOK
<1>7. IsFiniteSet(acks)' /\ (\A a \in acks : AckOK(a))' /\ LevelsOK'
  <2>1. IsFiniteSet(acks)' /\ LevelsOK'
    BY <1>5 DEF IInv, LevelsOK, Covers
  <2>2. ASSUME NEW a \in acks PROVE AckOK(a)'
    <3>1. AckOK(a) /\ a.key \in Keys /\ a.version \in Nat
      BY <1>1 DEF IInv, TypeOK
    <3>2. a.version <= device'[a.key]
      BY <3>1, <1>1, <1>4 DEF AckOK
    <3>3. QED
      BY <3>1, <3>2, <1>5 DEF AckOK
  <2>3. QED
    BY <2>1, <2>2, <1>5
<1>8. ASSUME NEW x \in Workers
      PROVE  OpOK(x)' /\ ClearingOK(x)' /\ KnownOK(x)' /\ CheckedOK(x)' /\ ReadOK(x)'
  <2>1. OpOK(x) /\ ClearingOK(x) /\ KnownOK(x) /\ CheckedOK(x) /\ ReadOK(x) /\ op[x] \in Op
    BY <1>1 DEF IInv
  <2>2. KnownOK(x)' /\ CheckedOK(x)'
    BY <2>1, <1>2, <1>3, <1>5 DEF KnownOK, CheckedOK, Host, WriteAcked, At
  <2>3. CASE x = w
    <3>1. OpOK(x)' /\ ClearingOK(x)' /\ ReadOK(x)'
      BY <2>3, <1>1, <1>2, <1>3, <1>4 DEF OpOK, ClearingOK, ReadOK, Reading
    <3>2. QED
      BY <2>2, <3>1
  <2>4. CASE x # w
    <3>1. op'[x] = op[x]
      BY <2>4, <1>3
    <3>2. op[x].ack > 0 => op[x].key \in Keys /\ op[x].ack <= device'[op[x].key]
      BY <2>1, <1>1, <1>4 DEF OpOK, Op
    <3>3. OpOK(x)'
      BY <2>1, <3>1, <3>2 DEF OpOK
    <3>4. ClearingOK(x)' /\ ReadOK(x)'
      BY <2>1, <3>1, <1>5 DEF ClearingOK, Covers, ReadOK, Host
    <3>5. QED
      BY <2>2, <3>3, <3>4
  <2>5. QED
    BY <2>3, <2>4
<1>9. QED
  BY <1>6, <1>7, <1>8 DEF IInv

LEMMA TickKeeps ==
    ASSUME IInv, Tick
    PROVE  IInv'
<1>1. UNCHANGED <<l1, backend, generation, known, checked, op, device, acks, emptied, missed, unchecked, lost, ops, faults>>
      /\ now' = now + 1
  BY DEF Tick, levelVars, checkVars, ghostVars, boundVars
<1>2. TypeOK'
  <2>1. now \in Nat /\ checked \in [Workers -> -Interval..now]
    BY DEF IInv, TypeOK
  <2>2. checked' \in [Workers -> -Interval..now']
    <3>1. \A i \in -Interval..now : i \in -Interval..(now + 1)
      BY <2>1, IntervalAssumption
    <3>2. QED
      BY <2>1, <3>1, <1>1
  <2>3. QED
    BY <1>1, <2>1, <2>2 DEF IInv, TypeOK
<1>3. IsFiniteSet(acks)' /\ LevelsOK'
  BY <1>1 DEF IInv, LevelsOK, Covers
<1>4. ASSUME NEW a \in acks PROVE AckOK(a)'
  <2>1. AckOK(a) /\ a.time \in Nat /\ now \in Nat
    BY DEF IInv, TypeOK
  <2>2. QED
    BY <2>1, <1>1 DEF AckOK
<1>5. ASSUME NEW x \in Workers
      PROVE  OpOK(x)' /\ ClearingOK(x)' /\ KnownOK(x)' /\ CheckedOK(x)' /\ ReadOK(x)'
  <2>1. OpOK(x) /\ ClearingOK(x) /\ KnownOK(x) /\ CheckedOK(x) /\ ReadOK(x)
    BY DEF IInv
  <2>2. QED
    BY <2>1, <1>1 DEF OpOK, ClearingOK, Covers, KnownOK, CheckedOK, ReadOK, Host
<1>6. QED
  BY <1>1, <1>2, <1>3, <1>4, <1>5 DEF IInv

(* A bump, with the write that returns after it, if any.                    *)
LEMMA BumpKeeps ==
    ASSUME IInv, NEW w \in Workers, At(w, "bumpSet") \/ At(w, "bumpClear"),
           NEW o \in Op, op' = [op EXCEPT ![w] = o], o.ack = 0, o.step \in {"idle", "fetch"},
           o.step = "fetch" => o.key \in Keys,
           Bump(w) \/ BumpThrows,
           lost' \in BOOLEAN, lost => lost',
           \/ acks' = acks
           \/ /\ At(w, "bumpClear") /\ op[w].ack > 0
              /\ acks' = acks \cup {[key |-> op[w].key, version |-> op[w].ack, time |-> now,
                                     host |-> Host(w), gen |-> generation']}
              /\ lost' \/ generation' = generation + 1,
           UNCHANGED <<l1, backend, checked, device, emptied, unchecked, now>>
    PROVE  IInv'
<1> DEFINE r == [key |-> op[w].key, version |-> op[w].ack, time |-> now, host |-> Host(w), gen |-> generation']
<1>1. TypeOK /\ op \in [Workers -> Op] /\ op[w] \in Op /\ generation \in Nat /\ now \in Nat
      /\ known \in [Workers -> 0..generation] /\ checked \in [Workers -> -Interval..now]
      /\ emptied \in [Hosts -> 0..generation] /\ missed \subseteq Workers
      /\ OpOK(w) /\ ClearingOK(w) /\ KnownOK(w) /\ Host(w) \in Hosts
  BY HostsAssumption DEF IInv, TypeOK, Host
<1>2. generation' \in {generation, generation + 1} /\ generation' \in Nat /\ generation <= generation'
  BY <1>1 DEF Bump, BumpThrows
<1>3. ops' \in Nat /\ faults' \in Nat
  BY <1>1, BoundsStayNat DEF Bump, BumpThrows
<1>4. \/ known' = known /\ missed' = missed
      \/ /\ generation' = generation + 1 /\ known' = [known EXCEPT ![w] = generation + 1]
         /\ missed' = IF Unseen(w) THEN missed \cup {w} ELSE missed
  BY DEF Bump, BumpThrows
<1>5. op'[w] = o /\ \A x \in Workers \ {w} : op'[x] = op[x]
  BY <1>1
<1>6. \A x \in Workers \ {w} : known'[x] = known[x] /\ (x \in missed' <=> x \in missed)
  BY <1>1, <1>4
<1>7. ASSUME acks' # acks
      PROVE  /\ acks' = acks \cup {r} /\ (lost' \/ generation' = generation + 1) /\ At(w, "bumpClear")
             /\ r \in [key : Keys, version : Nat, time : Nat, host : Hosts, gen : Nat]
             /\ op[w].ack > 0 /\ op[w].ack <= device[op[w].key] /\ op[w].key \in Keys
  <2>1. op[w].key \in Keys /\ op[w].ack <= device[op[w].key] /\ op[w].ack \in Nat
    BY <1>7, <1>1 DEF OpOK, Op
  <2>2. QED
    BY <1>7, <1>1, <1>2, <2>1
<1>8. r.key = op[w].key /\ r.version = op[w].ack /\ r.time = now /\ r.host = Host(w) /\ r.gen = generation'
  OBVIOUS
<1> HIDE DEF r
<1>9. acks' = acks \/ acks' = acks \cup {r}
  BY <1>7
<1>10. TypeOK'
  <2>1. op' \in [Workers -> Op]
    BY <1>1
  <2>2. known' \in [Workers -> 0..generation']
    <3>1. \A i \in 0..generation : i \in 0..generation'
      BY <1>1, <1>2
    <3>2. known \in [Workers -> 0..generation']
      BY <1>1, <3>1
    <3>3. generation' = generation + 1 => generation + 1 \in 0..generation'
      BY <1>1
    <3>4. QED
      BY <3>2, <3>3, <1>4
  <2>3. emptied' \in [Hosts -> 0..generation']
    <3>1. \A i \in 0..generation : i \in 0..generation'
      BY <1>1, <1>2
    <3>2. QED
      BY <1>1, <3>1
  <2>4. missed' \subseteq Workers
    BY <1>1, <1>4
  <2>5. acks' \subseteq [key : Keys, version : Nat, time : Nat, host : Hosts, gen : Nat]
    BY <1>1, <1>7, <1>9 DEF TypeOK
  <2>6. QED
    BY <1>1, <1>2, <1>3, <2>1, <2>2, <2>3, <2>4, <2>5 DEF TypeOK
<1>11. IsFiniteSet(acks)'
  BY <1>9, FS_AddElement DEF IInv
<1>12. ASSUME NEW a \in acks
       PROVE  /\ AckOK(a) /\ a.key \in Keys /\ a.gen \in Nat /\ a.gen <= generation
              /\ a.time \in Nat
  BY <1>1 DEF IInv, TypeOK, AckOK
<1>13. (\A a \in acks : AckOK(a))'
  <2> DEFINE Q(a) == /\ a.version <= device[a.key] /\ a.time <= now /\ a.gen <= generation'
                     /\ a.gen >= 1 \/ lost'
  <2>1. (\A a \in acks : AckOK(a))' <=> \A a \in acks' : Q(a)
    BY DEF AckOK
  <2>2. ASSUME NEW a \in acks PROVE Q(a)
    BY <1>1, <1>2, <1>12 DEF AckOK
  <2>3. acks' # acks => Q(r)
    BY <1>1, <1>2, <1>7, <1>8
  <2> HIDE DEF Q
  <2>4. QED
    BY <2>1, <2>2, <2>3, <1>9
<1>14. LevelsOK'
  <2> DEFINE L(a) == /\ \A h \in Hosts : a.host = h \/ emptied[h] >= a.gen =>
                            lost' \/ Covers(l1[h][a.key], a.version)
                     /\ lost' \/ Covers(backend[a.key], a.version)
  <2>1. LevelsOK' <=> \A a \in acks' : L(a)
    BY DEF LevelsOK, Covers
  <2>2. ASSUME NEW a \in acks PROVE L(a)
    BY DEF IInv, LevelsOK
  <2>3. acks' # acks => L(r)
    <3> SUFFICES ASSUME acks' # acks PROVE L(r)
      OBVIOUS
    <3>1. Covers(l1[Host(w)][r.key], r.version) /\ (lost \/ Covers(backend[r.key], r.version))
      BY <1>1, <1>7, <1>8 DEF ClearingOK, At
    <3>2. \A h \in Hosts : emptied[h] >= r.gen => lost'
      BY <1>1, <1>7, <1>8
    <3>3. QED
      BY <3>1, <3>2, <1>8
  <2> HIDE DEF L
  <2>4. QED
    BY <2>1, <2>2, <2>3, <1>9
<1>15. ASSUME NEW x \in Workers
       PROVE  OpOK(x)' /\ ClearingOK(x)' /\ KnownOK(x)' /\ CheckedOK(x)' /\ ReadOK(x)'
  <2>1. OpOK(x) /\ ClearingOK(x) /\ KnownOK(x) /\ CheckedOK(x) /\ ReadOK(x)
        /\ known[x] \in 0..generation /\ checked[x] \in -Interval..now /\ known'[x] >= known[x]
    <3>1. known[x] \in 0..generation /\ known[w] \in 0..generation
      BY <1>1
    <3>2. known'[x] = known[x] \/ known'[x] = generation + 1
      BY <1>1, <1>4
    <3>3. known'[x] >= known[x]
      BY <3>1, <3>2, <1>1
    <3>4. QED
      BY <1>1, <3>1, <3>3 DEF IInv
  <2>2. CheckedOK(x)'
    <3> SUFFICES ASSUME x \notin unchecked, op'[x].step # "check", NEW a \in acks', a.time < checked[x]
                 PROVE  lost' \/ a.gen <= known'[x]
      BY DEF CheckedOK
    <3>1. op[x].step # "check"
      BY <1>5 DEF At
    <3>2. CASE a \in acks
      <4>1. lost \/ a.gen <= known[x]
        BY <2>1, <3>1, <3>2 DEF CheckedOK
      <4>2. known'[x] \in Nat
        BY <1>10 DEF TypeOK
      <4>3. QED
        BY <4>1, <4>2, <2>1, <3>2, <1>1, <1>12
    <3>3. CASE a = r
      BY <3>3, <2>1, <1>1, <1>8, IntervalAssumption
    <3>4. QED
      BY <3>2, <3>3, <1>9
  <2>3. CASE x = w
    <3>1. OpOK(w)' /\ ClearingOK(w)' /\ ReadOK(w)'
      BY <1>5 DEF OpOK, ClearingOK, ReadOK, Reading
    <3>2. KnownOK(w)'
      <4> SUFFICES ASSUME w \notin missed', NEW a \in acks', a.gen <= known'[w]
                   PROVE  lost' \/ a.host = Host(w) \/ emptied[Host(w)] >= a.gen
        BY DEF KnownOK, Host
      <4>1. CASE a = r
        BY <4>1, <1>8
      <4>2. CASE a \in acks /\ a.gen <= known[w]
        <5>1. w \notin missed /\ op[w].step # "drop"
          BY <1>4 DEF At
        <5>2. QED
          BY <4>2, <5>1, <1>1 DEF KnownOK
      <4>3. CASE a \in acks /\ ~(a.gen <= known[w])
        <5>1. known' # known
          BY <4>3
        <5>2. ~Unseen(w)
          BY <5>1, <1>4
        <5>3. generation <= known[w] \/ generation <= emptied[Host(w)]
          BY <5>2, <1>1, UnseenNot
        <5>4. a.gen \in Nat /\ a.gen <= generation /\ known[w] \in Nat /\ emptied[Host(w)] \in Nat
          BY <4>3, <1>1, <1>12
        <5>5. QED
          BY <5>3, <5>4, <4>3, <1>1
      <4>4. QED
        BY <4>1, <4>2, <4>3, <1>9
    <3>3. QED
      BY <2>2, <2>3, <3>1, <3>2
  <2>4. CASE x # w
    <3>1. op'[x] = op[x] /\ known'[x] = known[x] /\ (x \in missed' <=> x \in missed)
      BY <2>4, <1>5, <1>6
    <3>2. OpOK(x)' /\ ClearingOK(x)'
      BY <2>1, <3>1 DEF OpOK, ClearingOK, Covers, Host
    <3>3. KnownOK(x)'
      <4> SUFFICES ASSUME x \notin missed, op[x].step # "drop", NEW a \in acks', a.gen <= known[x]
                   PROVE  lost' \/ a.host = Host(x) \/ emptied[Host(x)] >= a.gen
        BY <3>1 DEF KnownOK, Host
      <4>1. CASE a \in acks
        BY <4>1, <2>1 DEF KnownOK
      <4>2. CASE a = r /\ acks' # acks
        BY <4>2, <2>1, <1>1, <1>7, <1>8
      <4>3. QED
        BY <4>1, <4>2, <1>9
    <3>4. ReadOK(x)'
      <4>1. acks \subseteq acks'
        BY <1>9
      <4>2. ASSUME op[x].step \in {"check", "drop", "get1", "get2"}, op[x].own > 0
            PROVE  \E a \in acks' : a.key = op[x].key /\ a.version = op[x].own /\ a.host = Host(x)
        BY <2>1, <4>1, <4>2 DEF ReadOK
      <4>3. ASSUME op[x].step \in {"check", "drop", "get1", "get2"}, op[x].due > 0
            PROVE  \E a \in acks' :
                     /\ a.key = op[x].key /\ a.version = op[x].due
                     /\ op[x].step # "check" /\ x \notin unchecked => lost' \/ a.gen <= known[x]
        BY <2>1, <4>1, <4>3 DEF ReadOK
      <4>4. QED
        BY <3>1, <4>2, <4>3 DEF ReadOK, Host
    <3>5. QED
      BY <2>2, <3>2, <3>3, <3>4
  <2>5. QED
    BY <2>3, <2>4
<1>16. QED
  BY <1>10, <1>11, <1>13, <1>14, <1>15 DEF IInv

LEMMA BumpAfterSetKeeps ==
    ASSUME IInv, NEW w \in Workers, BumpAfterSet(w)
    PROVE  IInv'
<1>1. lost \in BOOLEAN /\ lost' = lost /\ acks' = acks
  BY DEF IInv, TypeOK, BumpAfterSet
<1>2. op' = [op EXCEPT ![w] = Idle] /\ At(w, "bumpSet")
  BY DEF BumpAfterSet, Done
<1>3. Bump(w) \/ BumpThrows
  BY DEF BumpAfterSet
<1>4. UNCHANGED <<l1, backend, checked, device, emptied, unchecked, now>>
  BY DEF BumpAfterSet
<1>5. QED
  BY <1>1, <1>2, <1>3, <1>4, IdleIsOp, BumpKeeps

LEMMA BumpAfterClearKeeps ==
    ASSUME IInv, NEW w \in Workers, BumpAfterClear(w)
    PROVE  IInv'
<1>1. lost \in BOOLEAN /\ op[w] \in Op
  BY DEF IInv, TypeOK
<1>2. At(w, "bumpClear") /\ (Bump(w) \/ BumpThrows)
      /\ UNCHANGED <<l1, backend, checked, device, emptied, unchecked, now>>
  BY DEF BumpAfterClear
<1>3. lost' \in BOOLEAN /\ (lost => lost')
  BY <1>1 DEF BumpAfterClear
<1>4. op[w].ack > 0 => lost' \/ generation' = generation + 1
  <2>1. CASE Bump(w)
    BY <2>1 DEF Bump
  <2>2. CASE ~Bump(w)
    BY <2>2 DEF BumpAfterClear, BumpThrows
  <2>3. QED
    BY <2>1, <2>2
<1>5. CASE op[w].ack > 0
  <2>1. op' = [op EXCEPT ![w] = Idle]
        /\ acks' = acks \cup {[key |-> op[w].key, version |-> op[w].ack, time |-> now,
                               host |-> Host(w), gen |-> generation']}
    BY <1>5 DEF BumpAfterClear, AfterClear, Done, Key
  <2>2. QED
    BY <1>2, <1>3, <1>4, <1>5, <2>1, IdleIsOp, BumpKeeps
<1>6. CASE ~(op[w].ack > 0) /\ op' = [op EXCEPT ![w] = Idle]
  <2>1. acks' = acks
    BY <1>6 DEF BumpAfterClear, AfterClear
  <2>2. QED
    BY <1>2, <1>3, <1>6, <2>1, IdleIsOp, BumpKeeps
<1>7. CASE op[w].ack = 0 /\ op[w].key # NoKey /\ Goto(w, "fetch") /\ acks' = acks
  <2> DEFINE o == [op[w] EXCEPT !.step = "fetch"]
  <2>1. op' = [op EXCEPT ![w] = o] /\ o \in Op /\ o.step = "fetch" /\ o.ack = 0 /\ o.key \in Keys
    BY <1>1, <1>7 DEF Goto, Op, Steps
  <2>2. QED
    BY <1>2, <1>3, <1>7, <2>1, BumpKeeps
<1>8. QED
  BY <1>5, <1>6, <1>7 DEF BumpAfterClear, AfterClear, Done, Key

-----------------------------------------------------------------------------
(* Every step keeps the invariant.                                          *)

LEMMA InitHolds == Init => IInv
<1> SUFFICES ASSUME Init PROVE IInv
  OBVIOUS
<1>1. Cardinality(Workers) \in Nat
  BY HostsAssumption, FS_CardinalityType
<1>2. generation \in Nat /\ known = [w \in Workers |-> generation] /\ emptied = [h \in Hosts |-> generation]
      /\ checked = [w \in Workers |-> -Interval] /\ now = 0 /\ acks = {} /\ op = [w \in Workers |-> Idle]
  BY <1>1 DEF Init
<1>3. TypeOK
  <2>1. Nothing \in [Keys -> Entry \cup {None}]
    BY DEF Nothing
  <2>2. known \in [Workers -> 0..generation] /\ emptied \in [Hosts -> 0..generation]
        /\ checked \in [Workers -> -Interval..now]
    BY <1>2, IntervalAssumption
  <2>3. op \in [Workers -> Op]
    BY <1>2, IdleIsOp
  <2>4. l1 \in [Hosts -> [Keys -> Entry \cup {None}]] /\ backend \in [Keys -> Entry \cup {None}]
    BY <2>1 DEF Init
  <2>5. device = [k \in Keys |-> 0] /\ ops = 0 /\ faults = 0
        /\ missed = {} /\ unchecked = {} /\ lost = FALSE
    BY DEF Init
  <2>6. device \in [Keys -> Nat] /\ {generation, now, ops, faults} \subseteq Nat
    BY <1>2, <2>5
  <2>7. missed \subseteq Workers /\ unchecked \subseteq Workers /\ lost \in BOOLEAN
    BY <2>5
  <2>8. acks \subseteq [key : Keys, version : Nat, time : Nat, host : Hosts, gen : Nat]
    BY <1>2
  <2>9. QED
    BY <2>2, <2>3, <2>4, <2>6, <2>7, <2>8 DEF TypeOK
<1>4. IsFiniteSet(acks)
  BY <1>2, FS_EmptySet
<1>5. ASSUME NEW w \in Workers
      PROVE  OpOK(w) /\ ClearingOK(w) /\ KnownOK(w) /\ CheckedOK(w) /\ ReadOK(w)
  <2>1. op[w] = Idle /\ op[w].step = "idle" /\ op[w].ack = 0
    BY <1>2, IdleIsOp
  <2>2. QED
    BY <1>2, <2>1 DEF OpOK, ClearingOK, KnownOK, CheckedOK, ReadOK, Reading
<1>6. QED
  BY <1>2, <1>3, <1>4, <1>5 DEF IInv, LevelsOK

LEMMA DropKeeps ==
    ASSUME IInv, NEW w \in Workers, Drop(w) \/ ClearL1(w)
    PROVE  IInv'
<1>1. CASE Drop(w)
  BY <1>1, EmptyKeeps DEF Drop, At
<1>2. CASE ClearL1(w)
  BY <1>2, EmptyKeeps DEF ClearL1, At
<1>3. QED
  BY <1>1, <1>2

LEMMA PromoteKeeps ==
    ASSUME IInv, NEW w \in Workers, Promote(w) \/ PutL1(w)
    PROVE  IInv'
<1>1. op[w] \in Op /\ OpOK(w)
  BY DEF IInv, TypeOK
<1>2. CASE Promote(w)
  BY <1>2, IdleIsOp, StoreKeeps DEF Promote, Done
<1>3. CASE PutL1(w)
  <2> DEFINE o == [op[w] EXCEPT !.step = "set"]
  <2>1. op[w].ack = 0
    BY <1>1, <1>3 DEF OpOK, PutL1, At, Op
  <2>2. op' = [op EXCEPT ![w] = o] /\ o \in Op /\ o.step = "set" /\ o.ack = 0
        /\ o.key = op[w].key /\ o.entry = op[w].entry
    BY <1>1, <1>3, <2>1 DEF PutL1, Goto, Op, Steps
  <2>3. QED
    BY <1>3, <2>2, StoreKeeps DEF PutL1
<1>4. QED
  BY <1>2, <1>3

LEMMA NextKeeps == IInv /\ [Next]_vars => IInv'
<1> SUFFICES ASSUME IInv, [Next]_vars PROVE IInv'
  OBVIOUS
<1>1. CASE Tick
  BY <1>1, TickKeeps
<1>2. ASSUME NEW w \in Workers, Starts(w) PROVE IInv'
  BY <1>2, ClearStarts, ReadKeeps, WriteKeeps DEF Starts
<1>3. ASSUME NEW w \in Workers, Continues(w) PROVE IInv'
  BY <1>3, CheckKeeps, CheckFailsKeeps, DropKeeps, GetL1Keeps, GetBackendKeeps, PromoteKeeps, FetchKeeps,
     SetBackendKeeps, BumpAfterSetKeeps, ClearBackendKeeps, BumpAfterClearKeeps DEF Continues
<1>4. ASSUME NEW w \in Workers, Restart(w) PROVE IInv'
  BY <1>4, RestartKeeps
<1>5. CASE UNCHANGED vars
  BY <1>5 DEF vars, levelVars, checkVars, ghostVars, boundVars, IInv, TypeOK, AckOK, LevelsOK, OpOK,
     ClearingOK, KnownOK, CheckedOK, ReadOK, Covers, Host
<1>6. QED
  BY <1>1, <1>2, <1>3, <1>4, <1>5 DEF Next

LEMMA Invariant == Spec => []IInv
BY InitHolds, NextKeeps, PTL DEF Spec

-----------------------------------------------------------------------------
(* The theorems.                                                            *)

\* Every variable keeps its type; no worker knows, and no L1 has been emptied
\* for, a generation that the backend has not had (bacnet_cache.c, callback backend).
THEOREM TypeCorrect == Spec => []TypeOK
<1>1. IInv => TypeOK
  BY DEF IInv
<1>2. QED
  BY <1>1, Invariant, PTL

\* On the writer's own host a write holds at once (php_bacnet_cache_clear
\* empties L1 and the backend before the write returns).
THEOREM HostIsFresh == Spec => []HostSeesWrite
<1>1. IInv => HostSeesWrite
  <2> SUFFICES ASSUME IInv, NEW w \in Workers, Found(w) # None, Found(w).version < op[w].own
               PROVE  Found(w).late \/ lost
    BY DEF HostSeesWrite
  <2>1. At(w, "get1") \/ At(w, "get2")
    BY DEF Found
  <2>2. TypeOK /\ ReadOK(w) /\ OpOK(w) /\ LevelsOK /\ op[w] \in Op /\ Host(w) \in Hosts
    BY HostsAssumption DEF IInv, TypeOK, Host
  <2>3. op[w].key \in Keys /\ op[w].own \in Nat
    BY <2>1, <2>2 DEF OpOK, Reading, At, Op
  <2>4. Found(w) \in Entry
    BY <2>1, <2>2, <2>3 DEF Found, At, Key, TypeOK
  <2>5. op[w].own > 0
    BY <2>3, <2>4 DEF Entry
  <2>6. PICK a \in acks : a.key = op[w].key /\ a.version = op[w].own /\ a.host = Host(w)
    BY <2>1, <2>2, <2>5 DEF ReadOK, At
  <2>7. lost \/ Covers(l1[Host(w)][op[w].key], op[w].own)
    BY <2>2, <2>6 DEF LevelsOK
  <2>8. lost \/ Covers(backend[op[w].key], op[w].own)
    BY <2>2, <2>6 DEF LevelsOK
  <2>9. lost \/ Covers(Found(w), op[w].own)
    BY <2>1, <2>7, <2>8 DEF Found, At, Key
  <2>10. QED
    BY <2>3, <2>4, <2>9 DEF Covers, Entry
<1>2. QED
  BY <1>1, Invariant, PTL

\* Every worker sees a write within one coherence interval of its return, up to
\* the cases FreshWithinInterval names (php_bacnet_callback_check_generation).
THEOREM WorkersAreFresh == Spec => []FreshWithinInterval
<1>1. IInv => FreshWithinInterval
  <2> SUFFICES ASSUME IInv, NEW w \in Workers, Found(w) # None, Found(w).version < op[w].due,
                      w \notin unchecked, w \notin missed
               PROVE  Found(w).late \/ lost
    BY DEF FreshWithinInterval
  <2>1. At(w, "get1") \/ At(w, "get2")
    BY DEF Found
  <2>2. TypeOK /\ ReadOK(w) /\ OpOK(w) /\ KnownOK(w) /\ LevelsOK /\ op[w] \in Op /\ Host(w) \in Hosts
    BY HostsAssumption DEF IInv, TypeOK, Host
  <2>3. op[w].key \in Keys /\ op[w].due \in Nat
    BY <2>1, <2>2 DEF OpOK, Reading, At, Op
  <2>4. Found(w) \in Entry
    BY <2>1, <2>2, <2>3 DEF Found, At, Key, TypeOK
  <2>5. op[w].due > 0
    BY <2>3, <2>4 DEF Entry
  <2>6. PICK a \in acks : a.key = op[w].key /\ a.version = op[w].due /\ (lost \/ a.gen <= known[w])
    BY <2>1, <2>2, <2>5 DEF ReadOK, At
  <2>7. lost \/ a.host = Host(w) \/ emptied[Host(w)] >= a.gen
    BY <2>1, <2>2, <2>6 DEF KnownOK, At
  <2>8. lost \/ Covers(l1[Host(w)][op[w].key], op[w].due)
    BY <2>2, <2>6, <2>7 DEF LevelsOK
  <2>9. lost \/ Covers(backend[op[w].key], op[w].due)
    BY <2>2, <2>6 DEF LevelsOK
  <2>10. lost \/ Covers(Found(w), op[w].due)
    BY <2>1, <2>8, <2>9 DEF Found, At, Key
  <2>11. QED
    BY <2>3, <2>4, <2>10 DEF Covers, Entry
<1>2. QED
  BY <1>1, Invariant, PTL
=============================================================================
