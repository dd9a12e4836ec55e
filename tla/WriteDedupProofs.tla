-------------------------- MODULE WriteDedupProofs --------------------------
(***************************************************************************)
(* The table of executed writes does its work for every table size, window, *)
(* traffic and depth of nested polls.                                      *)
(*                                                                         *)
(* The argument: the last Slots runs have their entries in the table, the  *)
(* k-th last one k slots behind the cursor (Recorded), with the time of    *)
(* their end (LiveIsDuplicate).  So when a callback begins, each run of    *)
(* its write is outside the window or older than the last Slots runs, and  *)
(* the callback carries this fact with it until it returns (FreshFrames),  *)
(* whatever nested callbacks have added in between.                        *)
(***************************************************************************)
EXTENDS WriteDedup, SequenceTheorems, TLAPS

Table == [used : BOOLEAN, hash : {<<>>} \cup (Ips \X (0..IdSpace-1) \X Payloads), expires : Nat]

\* Every transaction of the run history and of the stack was sent.
Sent ==
    /\ \A i \in DOMAIN runs : runs[i].txn \in Txns
    /\ \A i \in DOMAIN running : running[i].txn \in Txns

TInv == TypeOK /\ Sent

LEMMA PopType ==
    ASSUME NEW S, NEW s \in Seq(S), s # <<>>
    PROVE  /\ SubSeq(s, 1, Len(s) - 1) \in Seq(S)
           /\ Len(SubSeq(s, 1, Len(s) - 1)) = Len(s) - 1
           /\ \A i \in DOMAIN SubSeq(s, 1, Len(s) - 1) :
                i \in DOMAIN s /\ SubSeq(s, 1, Len(s) - 1)[i] = s[i]
           /\ s[Len(s)] \in S /\ Len(s) \in DOMAIN s
<1>1. Len(s) \in Nat \ {0} /\ \A i \in 1..Len(s)-1 : s[i] \in S
  OBVIOUS
<1>2. /\ SubSeq(s, 1, Len(s) - 1) \in Seq(S)
      /\ Len(SubSeq(s, 1, Len(s) - 1)) = Len(s) - 1
      /\ \A i \in 1..Len(s)-1 : SubSeq(s, 1, Len(s) - 1)[i] = s[i]
  <2> DEFINE n == Len(s) - 1
             u == SubSeq(s, 1, n)
  <2>1. n \in Nat
    BY <1>1
  <2> HIDE DEF n
  <2>2. \A i \in 1..n : s[i] \in S
    BY <1>1 DEF n
  <2>3. /\ u \in Seq(S)
        /\ Len(u) = IF 1 <= n THEN n-1+1 ELSE 0
        /\ \A i \in 1 .. n-1+1 : u[i] = s[1+i-1]
    BY <2>1, <2>2, SubSeqProperties
  <2> HIDE DEF u
  <2>4. u \in Seq(S) /\ Len(u) = n /\ \A i \in 1..n : u[i] = s[i]
    BY <2>1, <2>3
  <2>5. QED
    BY <2>4 DEF n, u
<1>3. QED
  BY <1>1, <1>2

LEMMA AppendType ==
    ASSUME NEW S, NEW s \in Seq(S), NEW e \in S
    PROVE  /\ Append(s, e) \in Seq(S) /\ Len(Append(s, e)) = Len(s) + 1
           /\ \A i \in DOMAIN Append(s, e) : \/ i \in DOMAIN s /\ Append(s, e)[i] = s[i]
                                             \/ i = Len(s) + 1 /\ Append(s, e)[i] = e
           /\ \A i \in DOMAIN s : i \in DOMAIN Append(s, e) /\ Append(s, e)[i] = s[i]
OBVIOUS

\* record_write keeps the table and its cursor in their types.
LEMMA RecordType ==
    ASSUME TInv, NEW t \in Txns, Record(t)
    PROVE  /\ duplicates' \in [0..Slots-1 -> Table]
           /\ duplicate_cursor' \in 0..Slots-1
<1> USE SlotsAssumption, WindowAssumption
<1>1. writes[t] \in Write
  BY DEF TInv, TypeOK, Txns
<1>2. Entry(t, now) \in Table
  <2>1. now + Window \in Nat
    BY DEF TInv, TypeOK
  <2>2. Fingerprint(t) \in Ips \X (0..IdSpace-1) \X Payloads
    BY <1>1 DEF Fingerprint, Write
  <2>3. QED
    BY <2>1, <2>2 DEF Entry, Table
<1>3. (duplicate_cursor + 1) % Slots \in 0..Slots-1
  <2>1. duplicate_cursor + 1 \in Nat
    BY DEF TInv, TypeOK
  <2> DEFINE c == duplicate_cursor + 1
  <2>2. c \in Nat
    BY <2>1
  <2> HIDE DEF c
  <2>3. c % Slots \in 0..Slots-1
    BY <2>2, Z3
  <2>4. QED
    BY <2>3 DEF c
<1>4. CASE enabled
  BY <1>2, <1>3, <1>4 DEF Record, TInv, TypeOK, Table
<1>5. CASE ~enabled
  BY <1>5 DEF Record, TInv, TypeOK, Table, tableVars
<1>6. QED
  BY <1>4, <1>5

\* A new history of runs changes nothing else of the running callbacks.
LEMMA NewFrames ==
    ASSUME TInv, NewHistory
    PROVE  /\ running' \in Seq(Frame) /\ DOMAIN running' = DOMAIN running
           /\ \A f \in DOMAIN running : running'[f].txn = running[f].txn /\ running'[f].before = 0
<1>1. running \in Seq(Frame) /\ running' = [f \in DOMAIN running |-> [running[f] EXCEPT !.before = 0]]
  BY DEF TInv, TypeOK, NewHistory
<1>2. DOMAIN running = 1..Len(running) /\ Len(running) \in Nat
  BY <1>1
<1>3. ASSUME NEW f \in DOMAIN running
      PROVE  /\ running'[f] \in Frame
             /\ running'[f].txn = running[f].txn /\ running'[f].before = 0
  <2>1. running[f] \in Frame /\ running'[f] = [running[f] EXCEPT !.before = 0]
    BY <1>1, <1>2
  <2>2. QED
    BY <2>1 DEF Frame
<1>4. running' \in [1..Len(running) -> Frame] /\ DOMAIN running' = DOMAIN running
  BY <1>1, <1>2, <1>3
<1>5. running' \in Seq(Frame)
  BY <1>2, <1>4
<1>6. QED
  BY <1>3, <1>4, <1>5

LEMMA InitTypes == Init => TInv
<1> SUFFICES ASSUME Init PROVE TInv
  OBVIOUS
<1> USE SlotsAssumption, IdAssumption
<1>1. Unused \in Table
  BY DEF Unused, Table
<1>2. 1 % IdSpace \in 0..IdSpace-1
  BY Z3
<1>3. enabled \in BOOLEAN /\ registered \in BOOLEAN /\ write_handler_set \in BOOLEAN
  BY DEF Init
<1>4. /\ next_id \in [Clients -> 0..IdSpace-1]
      /\ duplicates \in [0..Slots-1 -> Table] /\ duplicate_cursor \in 0..Slots-1
  BY <1>1, <1>2 DEF Init
<1>5. /\ writes \in Seq(Write) /\ running \in Seq(Frame) /\ runs \in Seq(Run)
      /\ executed = {} /\ acked = {} /\ {deduplicated_writes, restarts, now} \subseteq Nat
      /\ Sent
  BY DEF Init, Sent
<1>6. QED
  BY <1>3, <1>4, <1>5 DEF TInv, TypeOK, Table

LEMMA TypesStep == TInv /\ [Next]_vars => TInv'
<1> SUFFICES ASSUME TInv, [Next]_vars PROVE TInv'
  OBVIOUS
<1> USE SlotsAssumption, IdAssumption, IpAssumption
<1> USE DEF clientVars, serverVars, tableVars
<1>1. ASSUME NEW c \in Clients, NEW p \in Payloads, Issue(c, p) PROVE TInv'
  <2> DEFINE w == [ip |-> IpOf[c], id |-> next_id[c], payload |-> p, sent |-> now]
  <2>1. w \in Write /\ writes' = Append(writes, w)
    BY <1>1 DEF Issue, Write, TInv, TypeOK
  <2> HIDE DEF w
  <2>2. writes' \in Seq(Write) /\ Len(writes') = Len(writes) + 1 /\ Len(writes) \in Nat
    BY <2>1, AppendType DEF TInv, TypeOK
  <2>3. Txns \subseteq Txns'
    BY <2>2 DEF Txns
  <2>4. next_id' \in [Clients -> 0..IdSpace-1]
    <3> DEFINE m == next_id[c] + 1
    <3>1. m \in Nat
      BY DEF TInv, TypeOK
    <3> HIDE DEF m
    <3>2. m % IdSpace \in 0..IdSpace-1
      BY <3>1, Z3
    <3> USE DEF m
    <3>3. next_id' = [next_id EXCEPT ![c] = m % IdSpace]
      BY <1>1 DEF Issue
    <3> HIDE DEF m
    <3>4. QED
      BY <3>2, <3>3 DEF TInv, TypeOK
  <2>5. QED
    BY <1>1, <2>2, <2>3, <2>4 DEF Issue, TInv, TypeOK, Sent
<1>2. ASSUME NEW c \in Clients, Restart(c) PROVE TInv'
  <2>1. 1 % IdSpace \in 0..IdSpace-1
    BY Z3
  <2>2. next_id' \in [Clients -> 0..IdSpace-1]
    BY <1>2, <2>1 DEF Restart, TInv, TypeOK
  <2>3. restarts' \in Nat
    <3>1. restarts \in Nat /\ restarts' = restarts + 1
      BY <1>2 DEF Restart, TInv, TypeOK
    <3>2. QED
      BY <3>1
  <2>4. QED
    BY <1>2, <2>2, <2>3 DEF Restart, TInv, TypeOK, Sent, Txns
<1>3. ASSUME NEW t \in Txns, Duplicate(t) PROVE TInv'
  <2>1. TypeOK'
    <3>1. deduplicated_writes' \in Nat
      BY <1>3 DEF Duplicate, TInv, TypeOK
    <3>2. acked' \subseteq Txns
      BY <1>3 DEF Duplicate, TInv, TypeOK
    <3>3. QED
      BY <1>3, <3>1, <3>2 DEF Duplicate, TInv, TypeOK, Txns
  <2>2. Sent'
    BY <1>3 DEF Duplicate, TInv, Sent, Txns
  <2>3. QED
    BY <2>1, <2>2 DEF TInv
<1>4. ASSUME NEW t \in Txns, Begin(t) PROVE TInv'
  <2>1. [txn |-> t, start |-> now, before |-> Len(runs)] \in Frame
    BY DEF Frame, TInv, TypeOK, Txns
  <2>2. running' \in Seq(Frame) /\ \A i \in DOMAIN running' : running'[i].txn \in Txns
    BY <1>4, <2>1, AppendType DEF Begin, TInv, TypeOK, Sent
  <2>3. QED
    BY <1>4, <2>2 DEF Begin, TInv, TypeOK, Sent, Txns
<1>5. ASSUME running # <<>>, Return
      PROVE  /\ running' \in Seq(Frame) /\ \A i \in DOMAIN running' : running'[i].txn \in Txns
             /\ Top \in Frame /\ Top.txn \in Txns
  <2>1. running \in Seq(Frame) /\ \A i \in DOMAIN running : running[i].txn \in Txns
    BY DEF TInv, TypeOK, Sent
  <2>2. running' = SubSeq(running, 1, Len(running) - 1) /\ Top = running[Len(running)]
    BY <1>5 DEF Return, Top
  <2>3. /\ running' \in Seq(Frame) /\ Top \in Frame /\ Len(running) \in DOMAIN running
        /\ \A i \in DOMAIN running' : i \in DOMAIN running /\ running'[i] = running[i]
    BY <1>5, <2>1, <2>2, PopType
  <2>4. QED
    BY <2>1, <2>2, <2>3
<1>6. CASE Throw
  BY <1>5, <1>6 DEF Throw, TInv, TypeOK, Sent, Txns
<1>7. CASE Finish
  <2>1. Top \in Frame /\ Top.txn \in Txns
    BY <1>5, <1>7 DEF Finish
  <2>2. [txn |-> Top.txn, start |-> Top.start, before |-> Top.before, end |-> now] \in Run
    BY <2>1 DEF Frame, Run, TInv, TypeOK
  <2>3. runs' \in Seq(Run) /\ \A i \in DOMAIN runs' : runs'[i].txn \in Txns
    <3>1. CASE enabled
      <4> DEFINE r == [txn |-> Top.txn, start |-> Top.start, before |-> Top.before, end |-> now]
      <4>1. r.txn \in Txns /\ runs' = Append(runs, r)
        BY <1>7, <2>1, <3>1 DEF Finish
      <4>2. runs \in Seq(Run) /\ \A i \in DOMAIN runs : runs[i].txn \in Txns
        BY DEF TInv, TypeOK, Sent
      <4> HIDE DEF r
      <4>3. QED
        BY <2>2, <4>1, <4>2, AppendType DEF r
    <3>2. CASE ~enabled
      BY <1>7, <3>2 DEF Finish, TInv, TypeOK, Sent
    <3>3. QED
      BY <3>1, <3>2
  <2>4. /\ duplicates' \in [0..Slots-1 -> Table] /\ duplicate_cursor' \in 0..Slots-1
    BY <1>7, <2>1, RecordType DEF Finish
  <2>5. QED
    BY <1>5, <1>7, <2>1, <2>3, <2>4 DEF Finish, TInv, TypeOK, Sent, Txns, Table
<1>8. ASSUME NEW e \in BOOLEAN, Configure(e) PROVE TInv'
  <2>1. Unused \in Table
    BY DEF Unused, Table
  <2>2. duplicates' \in [0..Slots-1 -> Table]
    BY <1>8, <2>1 DEF Configure
  <2>3. enabled' \in BOOLEAN /\ runs' = <<>> /\ runs' \in Seq(Run) /\ NewHistory
    BY <1>8 DEF Configure, NewHistory
  <2>4. running' \in Seq(Frame) /\ Sent'
    BY <1>8, <2>3, NewFrames DEF Configure, TInv, Sent, Txns
  <2>5. QED
    BY <1>8, <2>2, <2>3, <2>4 DEF Configure, TInv, TypeOK, Txns, Table
<1>9. CASE AddLocalObject \/ RemoveLocalObject \/ OnWriteProperty
  BY <1>9 DEF AddLocalObject, RemoveLocalObject, OnWriteProperty, TInv, TypeOK, Sent, Txns
<1>10. CASE Tick
  <2>1. TypeOK'
    <3>1. now' \in Nat
      BY <1>10 DEF Tick, TInv, TypeOK
    <3>2. QED
      BY <1>10, <3>1 DEF Tick, TInv, TypeOK, Txns
  <2>2. Sent'
    BY <1>10 DEF Tick, TInv, Sent, Txns
  <2>3. QED
    BY <2>1, <2>2 DEF TInv
<1>11. CASE UNCHANGED vars
  BY <1>11 DEF vars, TInv, TypeOK, Sent, Txns
<1>12. QED
  BY <1>1, <1>2, <1>3, <1>4, <1>6, <1>7, <1>8, <1>9, <1>10, <1>11 DEF Next

LEMMA TypesHold == Spec => []TInv
BY InitTypes, TypesStep, PTL DEF Spec

\* Every variable keeps its type; the cursor stays inside the table.
THEOREM TypeCorrect == Spec => []TypeOK
<1>1. TInv => TypeOK
  BY DEF TInv
<1>2. QED
  BY <1>1, TypesHold, PTL

-----------------------------------------------------------------------------
(* The table and the history of runs.                                      *)

\* The slot k places behind the cursor; the run k places from the last.
Back(k) == IF k <= duplicate_cursor THEN duplicate_cursor - k ELSE duplicate_cursor + Slots - k
Latest(k) == runs[Len(runs) + 1 - k]

Recorded == \A k \in 1..Slots :
    k <= Len(runs) => duplicates[Back(k)] = Entry(Latest(k).txn, Latest(k).end)

Timed == /\ \A i \in DOMAIN runs : runs[i].end <= now
         /\ \A i, j \in DOMAIN runs : i < j => runs[i].end <= runs[j].end

\* A callback keeps what was so when it began: each earlier run of its write had left
\* the window or lost its entry.
FreshFrames == \A f \in DOMAIN running :
    /\ running[f].before <= Len(runs)
    /\ \A i \in 1..running[f].before :
         runs[i].txn = running[f].txn => \/ runs[i].end + Window <= running[f].start
                                        \/ running[f].before - i >= Slots

\* The runs a run found when it began come before it in the history.
Earlier == \A j \in DOMAIN runs : runs[j].before < j

\* The inductive invariant.
IInv ==
    /\ TInv
    /\ ~enabled => runs = <<>>
    /\ Recorded /\ Timed /\ Earlier /\ FreshFrames
    /\ RepeatOnlyAfterWindow

LEMMA RunFacts ==
    ASSUME TInv
    PROVE  /\ Slots \in Nat \ {0} /\ Window \in Nat \ {0}
           /\ now \in Nat /\ duplicate_cursor \in 0..Slots-1
           /\ runs \in Seq(Run) /\ Len(runs) \in Nat /\ DOMAIN runs = 1..Len(runs)
           /\ \A j \in DOMAIN runs : runs[j].end \in Nat /\ runs[j].start \in Nat /\ runs[j].before \in Nat
           /\ running \in Seq(Frame) /\ \A j \in DOMAIN running : running[j].start \in Nat /\ running[j].before \in Nat
<1>1. Slots \in Nat \ {0} /\ Window \in Nat \ {0}
  BY SlotsAssumption, WindowAssumption
<1>2. /\ now \in Nat /\ duplicate_cursor \in 0..Slots-1 /\ runs \in Seq(Run)
      /\ running \in Seq(Frame)
  BY DEF TInv, TypeOK
<1>3. \A j \in DOMAIN runs : runs[j].end \in Nat /\ runs[j].start \in Nat /\ runs[j].before \in Nat
  <2>1. \A j \in DOMAIN runs : runs[j] \in Run
    BY <1>2
  <2>2. \A r \in Run : r.end \in Nat /\ r.start \in Nat /\ r.before \in Nat
    BY DEF Run
  <2>3. QED
    BY <2>1, <2>2
<1>4. \A j \in DOMAIN running : running[j].start \in Nat /\ running[j].before \in Nat
  <2>1. \A j \in DOMAIN running : running[j] \in Frame
    BY <1>2
  <2>2. \A r \in Frame : r.start \in Nat /\ r.before \in Nat
    BY DEF Frame
  <2>3. QED
    BY <2>1, <2>2
<1>5. QED
  BY <1>1, <1>2, <1>3, <1>4

\* One of the last Slots runs that is inside the window makes its write a duplicate.
LEMMA LiveIsDuplicate ==
    ASSUME IInv, enabled, NEW i \in DOMAIN runs, now < runs[i].end + Window, Len(runs) - i < Slots
    PROVE  IsDuplicate(runs[i].txn)
<1> DEFINE k == Len(runs) + 1 - i
<1>1. /\ Slots \in Nat \ {0} /\ Window \in Nat
      /\ Len(runs) \in Nat /\ i \in 1..Len(runs) /\ now \in Nat
      /\ runs \in Seq(Run) /\ \A j \in DOMAIN runs : runs[j].end \in Nat
      /\ duplicate_cursor \in 0..Slots-1
  BY RunFacts DEF IInv
<1>2. k <= Slots
  BY <1>1
<1>3. k \in 1..Slots /\ k <= Len(runs) /\ Latest(k) = runs[i]
  <2>1. k \in 1..Slots /\ k <= Len(runs)
    BY <1>1, <1>2
  <2>2. Len(runs) + 1 - k = i
    BY <1>1
  <2> HIDE DEF k
  <2>3. QED
    BY <2>1, <2>2 DEF Latest
<1> HIDE DEF k
<1>4. duplicates[Back(k)] = Entry(runs[i].txn, runs[i].end)
  BY <1>3 DEF IInv, Recorded
<1>5. Back(k) \in 0..Slots-1
  <2>1. k \in 1..Slots /\ Slots \in Nat /\ duplicate_cursor \in 0..Slots-1
    BY <1>1, <1>3
  <2>2. QED
    BY <2>1 DEF Back
<1>6. /\ duplicates[Back(k)].used /\ duplicates[Back(k)].expires > now
      /\ duplicates[Back(k)].hash = Fingerprint(runs[i].txn)
  BY <1>4 DEF Entry
<1>7. QED
  BY <1>1, <1>5, <1>6 DEF IsDuplicate

\* The cursor advances by one slot and wraps at the end of the table.
LEMMA CursorWraps ==
    ASSUME NEW n \in Nat \ {0}, NEW c \in 0..n-1
    PROVE  (c + 1) % n = IF c + 1 = n THEN 0 ELSE c + 1
<1>1. CASE c + 1 = n
  BY <1>1, Z3
<1>2. CASE c + 1 # n
  BY <1>2, Z3
<1>3. QED
  BY <1>1, <1>2

\* record_write: the new entry is one slot behind the new cursor, the others move
\* one place back, the oldest one is overwritten.
LEMMA RecordMoves ==
    ASSUME TInv, enabled, NEW t \in Txns, Record(t)
    PROVE  /\ duplicates'[Back(1)'] = Entry(t, now)
           /\ \A k \in 2..Slots : duplicates'[Back(k)'] = duplicates[Back(k - 1)]
<1>1. /\ Slots \in Nat \ {0} /\ duplicate_cursor \in 0..Slots-1
      /\ duplicates \in [0..Slots-1 -> Table]
      /\ duplicates' = [duplicates EXCEPT ![duplicate_cursor] = Entry(t, now)]
      /\ duplicate_cursor' = (duplicate_cursor + 1) % Slots
  BY SlotsAssumption DEF TInv, TypeOK, Table, Record
<1>2. duplicate_cursor' = IF duplicate_cursor + 1 = Slots THEN 0 ELSE duplicate_cursor + 1
  BY <1>1, CursorWraps
<1> DEFINE c == duplicate_cursor
           e == duplicate_cursor'
<1>3. Back(1)' = c
  BY <1>1, <1>2 DEF Back
<1>4. \A k \in 2..Slots : /\ Back(k)' = Back(k - 1)
                          /\ Back(k - 1) \in 0..Slots-1 /\ Back(k - 1) # c
  BY <1>1, <1>2 DEF Back
<1>5. QED
  BY <1>1, <1>3, <1>4

-----------------------------------------------------------------------------
(* The invariant.                                                          *)

LEMMA InitHolds == Init => IInv
<1> SUFFICES ASSUME Init PROVE IInv
  OBVIOUS
<1>1. runs = <<>> /\ running = <<>> /\ Len(runs) = 0 /\ DOMAIN runs = {} /\ DOMAIN running = {}
  BY DEF Init
<1>2. QED
  BY <1>1, InitTypes DEF IInv, Recorded, Timed, Earlier, FreshFrames, RepeatOnlyAfterWindow

\* Without a change of the table and the runs only the frames need a look.
LEMMA TableStays ==
    ASSUME IInv, TInv', UNCHANGED <<duplicates, duplicate_cursor, runs, enabled>>,
           now' >= now, FreshFrames',
           \A t \in Txns : Fingerprint(t)' = Fingerprint(t)
    PROVE  IInv'
<1>1. now \in Nat /\ now' \in Nat
  BY DEF IInv, TInv, TypeOK
<1>2. Recorded'
  <2>1. \A k \in Int : Back(k)' = Back(k) /\ Latest(k)' = Latest(k)
    BY DEF Back, Latest
  <2>2. \A i \in DOMAIN runs : Entry(runs[i].txn, runs[i].end)' = Entry(runs[i].txn, runs[i].end)
    BY DEF Entry, IInv, TInv, Sent
  <2>3. \A k \in 1..Slots : k <= Len(runs) => Len(runs) + 1 - k \in DOMAIN runs
    BY RunFacts DEF IInv
  <2>4. \A k \in 1..Slots : k <= Len(runs) =>
           Entry(Latest(k).txn, Latest(k).end)' = Entry(Latest(k).txn, Latest(k).end)
    BY <2>2, <2>3 DEF Latest
  <2>5. QED
    BY <2>1, <2>4 DEF IInv, Recorded
<1>3. Timed'
  BY <1>1, RunFacts DEF IInv, Timed
<1>4. Earlier' /\ RepeatOnlyAfterWindow' /\ (~enabled' => runs' = <<>>)
  BY DEF IInv, Earlier, RepeatOnlyAfterWindow
<1>5. QED
  BY <1>2, <1>3, <1>4 DEF IInv

\* When the callback of a write begins, no run of the write is live in the table.
LEMMA BeginStep ==
    ASSUME IInv, NEW t \in Txns, Begin(t), TInv'
    PROVE  IInv'
<1> DEFINE g == [txn |-> t, start |-> now, before |-> Len(runs)]
<1>1. UNCHANGED <<duplicates, duplicate_cursor, runs, enabled, now, writes>>
      /\ running' = Append(running, g)
  BY DEF Begin, clientVars, tableVars, serverVars
<1>2. ASSUME NEW i \in DOMAIN runs, runs[i].txn = t
      PROVE  runs[i].end + Window <= now \/ Len(runs) - i >= Slots
  <2>1. SUFFICES ASSUME now < runs[i].end + Window, Len(runs) - i < Slots PROVE FALSE
    BY RunFacts DEF IInv
  <2>2. enabled
    BY <1>2 DEF IInv
  <2>3. QED
    BY <1>2, <2>1, <2>2, LiveIsDuplicate DEF Begin
<1>3. g \in Frame /\ g.txn = t /\ g.start = now /\ g.before = Len(runs)
  BY RunFacts DEF Frame, IInv, Txns
<1> HIDE DEF g
<1>4. \A f \in DOMAIN running' : (f \in DOMAIN running /\ running'[f] = running[f]) \/ running'[f] = g
  BY <1>1, <1>3, RunFacts, AppendType DEF IInv
<1>5. FreshFrames'
  <2>1. SUFFICES ASSUME NEW f \in DOMAIN running'
                 PROVE  /\ running'[f].before <= Len(runs)
                        /\ \A i \in 1..running'[f].before :
                             runs[i].txn = running'[f].txn =>
                                 \/ runs[i].end + Window <= running'[f].start
                                 \/ running'[f].before - i >= Slots
    BY <1>1 DEF FreshFrames
  <2>2. CASE f \in DOMAIN running /\ running'[f] = running[f]
    BY <2>2 DEF IInv, FreshFrames
  <2>3. CASE running'[f] = g
    BY <2>3, <1>2, <1>3, RunFacts DEF IInv
  <2>4. QED
    BY <1>4, <2>2, <2>3
<1>6. \A x \in Txns : Fingerprint(x)' = Fingerprint(x)
  BY <1>1 DEF Fingerprint
<1>7. now' >= now
  BY <1>1, RunFacts DEF IInv
<1>8. QED
  BY <1>1, <1>5, <1>6, <1>7, TableStays

\* What stays of the stack when a callback returns is as it was.
LEMMA PopFrames ==
    ASSUME IInv, running # <<>>, Return
    PROVE  /\ \A f \in DOMAIN running' : f \in DOMAIN running /\ running'[f] = running[f]
           /\ Top \in Frame /\ Top.txn \in Txns
           /\ Len(running) \in DOMAIN running /\ Top = running[Len(running)]
<1>1. running \in Seq(Frame)
  BY RunFacts DEF IInv
<1>2. /\ \A f \in DOMAIN running' : f \in DOMAIN running /\ running'[f] = running[f]
      /\ Top \in Frame /\ Len(running) \in DOMAIN running
  BY <1>1, PopType DEF Return, Top
<1>3. QED
  BY <1>2 DEF Top, IInv, TInv, Sent

\* A callback that throws leaves only the stack changed.
LEMMA ThrowStep ==
    ASSUME IInv, Throw, TInv'
    PROVE  IInv'
<1>1. UNCHANGED <<duplicates, duplicate_cursor, runs, enabled, now, writes>>
  BY DEF Throw, clientVars, tableVars, serverVars
<1>2. \A f \in DOMAIN running' : f \in DOMAIN running /\ running'[f] = running[f]
  BY PopFrames DEF Throw
<1>3. FreshFrames'
  BY <1>1, <1>2 DEF IInv, FreshFrames
<1>4. \A x \in Txns : Fingerprint(x)' = Fingerprint(x)
  BY <1>1 DEF Fingerprint
<1>5. now' >= now
  BY <1>1, RunFacts DEF IInv
<1>6. QED
  BY <1>1, <1>3, <1>4, <1>5, TableStays

\* A callback that returns: its run becomes the latest one.
LEMMA FinishStep ==
    ASSUME IInv, Finish, TInv'
    PROVE  IInv'
<1>1. UNCHANGED <<enabled, now, writes>> /\ Record(Top.txn)
  BY DEF Finish, clientVars, serverVars
<1>2. /\ \A f \in DOMAIN running' : f \in DOMAIN running /\ running'[f] = running[f]
      /\ Top \in Frame /\ Top.txn \in Txns
      /\ Len(running) \in DOMAIN running /\ Top = running[Len(running)]
  BY PopFrames DEF Finish
<1>3. CASE ~enabled
  <2>1. UNCHANGED <<duplicates, duplicate_cursor, runs>>
    BY <1>1, <1>3 DEF Finish, Record, tableVars
  <2>2. FreshFrames'
    BY <1>2, <2>1 DEF IInv, FreshFrames
  <2>3. \A x \in Txns : Fingerprint(x)' = Fingerprint(x)
    BY <1>1 DEF Fingerprint
  <2>4. now' >= now
    BY <1>1, RunFacts DEF IInv
  <2>5. QED
    BY <1>1, <2>1, <2>2, <2>3, <2>4, TableStays
<1>4. CASE enabled
  <2> DEFINE r == [txn |-> Top.txn, start |-> Top.start, before |-> Top.before, end |-> now]
             n == Len(runs)
  <2>1. /\ r \in Run /\ r.txn = Top.txn /\ r.start = Top.start /\ r.before = Top.before
        /\ r.end = now
    BY <1>2, RunFacts DEF Frame, Run, IInv, Txns
  <2>2. runs' = Append(runs, r)
    BY <1>4 DEF Finish
  <2> HIDE DEF r
  <2>3. /\ Len(runs') = n + 1 /\ n \in Nat /\ runs'[n + 1] = r
        /\ \A i \in 1..n : runs'[i] = runs[i]
        /\ DOMAIN runs' = 1..n+1
    BY <2>1, <2>2, RunFacts DEF IInv
  <2>4. Recorded'
    <3>1. SUFFICES ASSUME NEW k \in 1..Slots, k <= n + 1
                   PROVE  duplicates'[Back(k)'] = Entry(Latest(k).txn, Latest(k).end)'
      BY <2>3 DEF Recorded
    <3>2. CASE k = 1
      <4>1. Latest(k)' = r
        BY <3>2, <2>3 DEF Latest
      <4>2. duplicates'[Back(1)'] = Entry(Top.txn, now)
        BY <1>1, <1>2, <1>4, RecordMoves DEF IInv
      <4>3. Entry(Latest(k).txn, Latest(k).end)' = Entry(Top.txn, now)
        BY <4>1, <2>1, <1>1 DEF Entry, Fingerprint
      <4>4. QED
        BY <3>2, <4>2, <4>3
    <3>3. CASE k \in 2..Slots
      <4>1. k - 1 \in 1..Slots /\ k - 1 <= n
        BY <3>1, <3>3, <2>3, RunFacts DEF IInv
      <4>2. Latest(k)' = Latest(k - 1)
        BY <4>1, <2>3, <3>3 DEF Latest
      <4>3. duplicates'[Back(k)'] = duplicates[Back(k - 1)]
        BY <3>3, <1>1, <1>2, <1>4, RecordMoves DEF IInv
      <4>4. duplicates[Back(k - 1)] = Entry(Latest(k - 1).txn, Latest(k - 1).end)
        BY <4>1 DEF IInv, Recorded
      <4>5. Entry(Latest(k).txn, Latest(k).end)' = Entry(Latest(k - 1).txn, Latest(k - 1).end)
        BY <4>2, <1>1 DEF Entry, Fingerprint
      <4>6. QED
        BY <4>3, <4>4, <4>5
    <3>4. QED
      BY <3>2, <3>3, RunFacts DEF IInv
  <2>5. Timed'
    <3>1. \A i \in 1..n : runs'[i].end = runs[i].end /\ runs[i].end <= now
      BY <2>3, RunFacts DEF IInv, Timed
    <3>2. runs'[n + 1].end = now /\ now <= now
      BY <2>1, <2>3, RunFacts DEF IInv
    <3>3. \A i, j \in 1..n : i < j => runs[i].end <= runs[j].end
      BY RunFacts DEF IInv, Timed
    <3>4. \A i, j \in 1..n+1 : i < j => i \in 1..n /\ (j \in 1..n \/ j = n + 1)
      BY <2>3
    <3>5. QED
      BY <3>1, <3>2, <3>3, <3>4, <2>3, <1>1 DEF Timed
  <2>6. Top.before \in Nat /\ Top.before <= n
    <3>1. Top.before <= n
      BY <1>2 DEF IInv, FreshFrames
    <3>2. QED
      BY <1>2, <3>1 DEF Frame
  <2>7. Earlier'
    <3>1. \A j \in 1..n : runs'[j].before < j
      BY <2>3, RunFacts DEF IInv, Earlier
    <3>2. runs'[n + 1].before < n + 1
      BY <2>1, <2>3, <2>6
    <3>3. QED
      BY <2>3, <3>1, <3>2 DEF Earlier
  <2>8. FreshFrames'
    <3>1. \A f \in DOMAIN running' : running[f].before \in Nat /\ running[f].before <= n
      BY <1>2, RunFacts DEF IInv, FreshFrames
    <3>2. \A f \in DOMAIN running' : running'[f].before <= Len(runs')
      BY <1>2, <2>3, <3>1
    <3>3. \A f \in DOMAIN running' : \A i \in 1..running'[f].before : runs'[i] = runs[i]
      BY <1>2, <2>3, <3>1
    <3>4. QED
      BY <1>2, <3>2, <3>3 DEF IInv, FreshFrames
  <2>9. RepeatOnlyAfterWindow'
    <3>1. SUFFICES ASSUME NEW j \in 1..n+1, NEW i \in 1..runs'[j].before, runs'[i].txn = runs'[j].txn
                   PROVE  \/ runs'[i].end + Window <= runs'[j].start
                          \/ runs'[j].before - i >= Slots
      BY <2>3 DEF RepeatOnlyAfterWindow
    <3>2. CASE j \in 1..n
      <4>1. j \in DOMAIN runs /\ runs'[j] = runs[j] /\ runs[j].before \in Nat /\ runs[j].before < j
        BY <3>2, <2>3, RunFacts DEF IInv, Earlier
      <4>2. i \in 1..n /\ runs'[i] = runs[i]
        BY <3>1, <3>2, <4>1, <2>3
      <4>3. QED
        BY <3>1, <4>1, <4>2 DEF IInv, RepeatOnlyAfterWindow
    <3>3. CASE j = n + 1
      <4>1. runs'[j] = r
        BY <3>3, <2>3
      <4>2. i \in 1..Top.before /\ i \in 1..n /\ runs'[i] = runs[i]
        BY <3>1, <4>1, <2>1, <2>3, <2>6
      <4>3. runs[i].txn = Top.txn
        BY <3>1, <4>1, <4>2, <2>1
      <4>4. runs[i].end + Window <= Top.start \/ Top.before - i >= Slots
        BY <1>2, <4>2, <4>3 DEF IInv, FreshFrames
      <4>5. QED
        BY <4>1, <4>2, <4>4, <2>1
    <3>4. QED
      BY <3>2, <3>3, <2>3
  <2>10. QED
    BY <1>1, <1>4, <2>4, <2>5, <2>7, <2>8, <2>9 DEF IInv
<1>5. QED
  BY <1>3, <1>4 DEF IInv, TInv, TypeOK

\* setSecurityOptions clears the table and starts a new history of runs.
LEMMA ConfigureStep ==
    ASSUME IInv, NEW e \in BOOLEAN, Configure(e), TInv'
    PROVE  IInv'
<1>1. NewHistory /\ runs' = <<>> /\ Len(runs') = 0 /\ DOMAIN runs' = {}
  BY DEF Configure, NewHistory
<1>2. \A f \in DOMAIN running' : running'[f].before = 0
  BY <1>1, NewFrames DEF IInv
<1>3. FreshFrames'
  BY <1>1, <1>2 DEF FreshFrames
<1>4. Recorded' /\ Timed' /\ Earlier' /\ RepeatOnlyAfterWindow'
  BY <1>1 DEF Recorded, Timed, Earlier, RepeatOnlyAfterWindow
<1>5. QED
  BY <1>1, <1>3, <1>4 DEF IInv

LEMMA InvariantStep == IInv /\ [Next]_vars => IInv'
<1> SUFFICES ASSUME IInv, [Next]_vars PROVE IInv'
  OBVIOUS
<1>0. TInv'
  BY TypesStep DEF IInv
<1>1. now \in Nat
  BY RunFacts DEF IInv
<1> USE DEF clientVars, serverVars, tableVars
<1>2. ASSUME NEW c \in Clients, NEW p \in Payloads, Issue(c, p) PROVE IInv'
  <2> DEFINE w == [ip |-> IpOf[c], id |-> next_id[c], payload |-> p, sent |-> now]
  <2>1. writes' = Append(writes, w) /\ writes \in Seq(Write)
    BY <1>2 DEF Issue, IInv, TInv, TypeOK
  <2> HIDE DEF w
  <2>2. \A t \in Txns : writes'[t] = writes[t]
    BY <2>1 DEF Txns
  <2>3. \A t \in Txns : Fingerprint(t)' = Fingerprint(t)
    BY <2>2 DEF Fingerprint
  <2>4. UNCHANGED <<runs, running>> /\ FreshFrames'
    BY <1>2 DEF Issue, IInv, FreshFrames
  <2>5. QED
    BY <1>0, <1>1, <1>2, <2>3, <2>4, TableStays DEF Issue
<1>3. ASSUME \/ \E c \in Clients : Restart(c)
             \/ \E t \in Txns : Duplicate(t)
             \/ AddLocalObject \/ RemoveLocalObject \/ OnWriteProperty
             \/ Tick \/ UNCHANGED vars
      PROVE  IInv'
  <2>1. /\ UNCHANGED <<duplicates, duplicate_cursor, runs, running, enabled, writes>>
        /\ now' \in {now, now + 1}
    BY <1>3 DEF Restart, Duplicate, AddLocalObject, RemoveLocalObject, OnWriteProperty, Tick, vars
  <2>2. \A t \in Txns : Fingerprint(t)' = Fingerprint(t)
    BY <2>1 DEF Fingerprint
  <2>3. now' >= now
    BY <1>1, <2>1
  <2>4. FreshFrames'
    BY <2>1 DEF IInv, FreshFrames
  <2>5. QED
    BY <1>0, <2>1, <2>2, <2>3, <2>4, TableStays
<1>4. QED
  BY <1>0, <1>2, <1>3, BeginStep, ThrowStep, FinishStep, ConfigureStep DEF Next

\* A write that has run starts to run again only when the duplicate window of that
\* run has passed (is_duplicate_write and record_write in Server::poll) or its entry
\* was overwritten by Slots later runs, whatever is delivered, retried and nested.
THEOREM RepeatsAreApart == Spec => []RepeatOnlyAfterWindow
<1>1. IInv /\ [Next]_vars => IInv'
  BY InvariantStep
<1>2. IInv => RepeatOnlyAfterWindow
  BY DEF IInv
<1>3. QED
  BY <1>1, <1>2, InitHolds, PTL DEF Spec

-----------------------------------------------------------------------------
(* An acknowledged write was executed, however deep callbacks nest.  Each    *)
(* used entry of the table is that of a run (Backed); of two writes with the *)
(* same source and invoke id the older one is settled (OlderSettled), so it  *)
(* has no live entry, nor can it come again and take that of the newer one.  *)

Backed ==
    /\ \A k \in DOMAIN runs : runs[k].txn \in executed
    /\ \A i \in 0..Slots-1 : duplicates[i].used =>
         \E k \in DOMAIN runs : duplicates[i] = Entry(runs[k].txn, runs[k].end)

SameId(t, u) == writes[t].ip = writes[u].ip /\ writes[t].id = writes[u].id

OlderSettled == \A t, u \in Txns : t < u /\ SameId(t, u) => Settled(t)

AInv == TInv /\ Backed /\ OlderSettled /\ AckMeansExecuted

LEMMA WriteFacts ==
    ASSUME TInv
    PROVE  /\ now \in Nat /\ Window \in Nat /\ Life \in Nat /\ Slots \in Nat /\ Len(writes) \in Nat
           /\ \A t \in Txns : writes[t].sent \in Nat
           /\ \A k \in DOMAIN runs : runs[k].end \in Nat /\ runs[k].txn \in Txns
           /\ \A i \in DOMAIN running : running[i].txn \in Txns
<1>1. /\ now \in Nat /\ Window \in Nat /\ Slots \in Nat /\ writes \in Seq(Write)
      /\ \A k \in DOMAIN runs : runs[k].end \in Nat
  BY RunFacts DEF TInv, TypeOK
<1>2. \A t \in Txns : writes[t] \in Write
  BY <1>1 DEF Txns
<1>3. \A w \in Write : w.sent \in Nat
  BY DEF Write
<1>4. QED
  BY <1>1, <1>2, <1>3, IdAssumption DEF TInv, Sent

(* The table and the runs stay; writes only grow, time only passes.         *)
LEMMA HistoryStays ==
    ASSUME AInv, UNCHANGED <<duplicates, runs, executed>>, now' >= now, now' \in Nat,
           \A t \in Txns : Fingerprint(t)' = Fingerprint(t) /\ t \in Txns',
           \A t, u \in Txns' : t < u /\ SameId(t, u)' => Settled(t)'
    PROVE  Backed' /\ OlderSettled'
<1>1. Backed'
  <2>1. ASSUME NEW k \in DOMAIN runs
        PROVE  Entry(runs[k].txn, runs[k].end)' = Entry(runs[k].txn, runs[k].end)
    BY WriteFacts DEF Entry, AInv
  <2>2. QED
    BY <2>1 DEF AInv, Backed
<1>2. QED
  BY <1>1 DEF OlderSettled

LEMMA SettledStays ==
    ASSUME AInv, NEW t \in Txns, Settled(t), writes'[t] = writes[t], now' >= now, now' \in Nat,
           \A i \in DOMAIN running' : running'[i].txn = t => \E j \in DOMAIN running : running[j].txn = t,
           \A k \in DOMAIN runs' : runs'[k].txn = t =>
               \E j \in DOMAIN runs : runs[j].txn = t /\ runs'[k].end = runs[j].end
    PROVE  Settled(t)'
<1>1. now \in Nat /\ Life \in Nat /\ Window \in Nat /\ writes[t].sent \in Nat
      /\ \A k \in DOMAIN runs : runs[k].end \in Nat
  BY WriteFacts DEF AInv
<1>2. writes'[t].sent + Life < now'
  BY <1>1 DEF Settled
<1>3. \A i \in DOMAIN running' : running'[i].txn # t
  BY DEF Settled
<1>4. \A k \in DOMAIN runs' : runs'[k].txn = t => runs'[k].end + Window <= now'
  BY <1>1 DEF Settled
<1>5. QED
  BY <1>2, <1>3, <1>4 DEF Settled

LEMMA IssueSettles ==
    ASSUME FreshIds, AInv, TInv', NEW c \in Clients, NEW p \in Payloads, Issue(c, p)
    PROVE  AInv'
<1> DEFINE w == [ip |-> IpOf[c], id |-> next_id[c], payload |-> p, sent |-> now]
           n == Len(writes) + 1
<1>1. w.ip = IpOf[c] /\ w.id = next_id[c] /\ w \in Write /\ writes' = Append(writes, w) /\ writes \in Seq(Write)
  BY IpAssumption DEF Issue, AInv, TInv, TypeOK, Write
<1> HIDE DEF w
<1>2. Len(writes) \in Nat /\ Txns = 1..Len(writes) /\ Txns' = 1..n /\ writes'[n] = w
      /\ \A t \in Txns : writes'[t] = writes[t]
  BY <1>1 DEF Txns
<1>3. UNCHANGED <<duplicates, runs, running, executed, acked, now>> /\ now \in Nat
  BY DEF Issue, tableVars, AInv, TInv, TypeOK
<1>4. ASSUME NEW t \in Txns', NEW u \in Txns', t < u, SameId(t, u)' PROVE Settled(t)'
  <2>1. t \in Txns /\ writes'[t] = writes[t]
    BY <1>2, <1>4
  <2>2. Settled(t)
    <3>1. CASE u \in Txns
      BY <3>1, <2>1, <1>2, <1>4 DEF AInv, OlderSettled, SameId
    <3>2. CASE u = n
      BY <3>2, <2>1, <1>1, <1>2, <1>4 DEF Issue, SameId
    <3>3. QED
      BY <3>1, <3>2, <1>2
  <2>3. QED
    BY <2>1, <2>2, <1>3 DEF Settled
<1>5. \A t \in Txns : Fingerprint(t)' = Fingerprint(t) /\ t \in Txns'
  BY <1>2 DEF Fingerprint
<1>6. now' >= now /\ now' \in Nat
  BY <1>3
<1>7. Backed' /\ OlderSettled'
  BY <1>3, <1>4, <1>5, <1>6, HistoryStays
<1>8. QED
  BY <1>3, <1>7 DEF AInv, AckMeansExecuted

(* An acknowledged duplicate is the write that ran.                         *)
LEMMA DuplicateWasExecuted ==
    ASSUME AInv, NEW t \in Txns, Polled(t), IsDuplicate(t)
    PROVE  t \in executed
<1>1. PICK i \in 0..Slots-1 :
        duplicates[i].used /\ duplicates[i].expires > now /\ duplicates[i].hash = Fingerprint(t)
  BY DEF IsDuplicate
<1>2. PICK k \in DOMAIN runs : duplicates[i] = Entry(runs[k].txn, runs[k].end)
  BY <1>1 DEF AInv, Backed
<1> DEFINE u == runs[k].txn
<1>3. u \in Txns /\ u \in executed /\ Fingerprint(u) = Fingerprint(t) /\ runs[k].end + Window > now
  BY <1>1, <1>2, WriteFacts DEF AInv, Backed, Entry
<1>4. SameId(t, u) /\ SameId(u, t)
  BY <1>3 DEF SameId, Fingerprint
<1>5. now \in Nat /\ Life \in Nat /\ Window \in Nat /\ writes[t].sent \in Nat /\ runs[k].end \in Nat
      /\ Len(writes) \in Nat
  BY WriteFacts DEF AInv
<1>6. ~(t < u)
  <2>1. ~Settled(t)
    BY <1>5 DEF Polled, Settled
  <2>2. QED
    BY <2>1, <1>3, <1>4 DEF AInv, OlderSettled
<1>7. ~(u < t)
  <2>1. ~Settled(u)
    BY <1>3, <1>5 DEF Settled
  <2>2. QED
    BY <2>1, <1>3, <1>4 DEF AInv, OlderSettled
<1>8. t = u
  BY <1>3, <1>5, <1>6, <1>7 DEF Txns
<1>9. QED
  BY <1>3, <1>8

LEMMA BeginSettles ==
    ASSUME AInv, TInv', NEW t \in Txns, Begin(t)
    PROVE  AInv'
<1>1. UNCHANGED <<writes, duplicates, runs, executed, acked, now>> /\ Txns' = Txns /\ now \in Nat
  BY DEF Begin, clientVars, tableVars, Txns, AInv, TInv, TypeOK
<1>2. [txn |-> t, start |-> now, before |-> Len(runs)] \in Frame /\ running \in Seq(Frame)
  BY <1>1 DEF Frame, AInv, TInv, TypeOK, Txns
<1>3. \A i \in DOMAIN running' : (i \in DOMAIN running /\ running'[i] = running[i]) \/ running'[i].txn = t
  BY <1>2, AppendType DEF Begin
<1>4. ~Settled(t)
  BY WriteFacts DEF AInv, Begin, Polled, Settled
<1>5. ASSUME NEW x \in Txns, NEW y \in Txns, x < y, SameId(x, y)' PROVE Settled(x)'
  <2>1. Settled(x)
    BY <1>1, <1>5 DEF AInv, OlderSettled, SameId
  <2>2. x # t
    BY <1>4, <2>1
  <2>3. QED
    BY <1>1, <1>3, <2>1, <2>2 DEF Settled
<1>6. \A x \in Txns : Fingerprint(x)' = Fingerprint(x) /\ x \in Txns'
  BY <1>1 DEF Fingerprint
<1>7. now' >= now /\ now' \in Nat
  BY <1>1
<1>8. Backed' /\ OlderSettled'
  BY <1>1, <1>5, <1>6, <1>7, HistoryStays
<1>9. QED
  BY <1>1, <1>8 DEF AInv, AckMeansExecuted

LEMMA PopSettles ==
    ASSUME AInv, TInv', running # <<>>, Return, UNCHANGED <<writes, now>>, NEW x \in Txns, Settled(x),
           \A k \in DOMAIN runs' : (k \in DOMAIN runs /\ runs'[k] = runs[k]) \/ runs'[k].txn # x
    PROVE  Settled(x)'
<1>1. running \in Seq(Frame)
  BY DEF AInv, TInv, TypeOK
<1>2. \A i \in DOMAIN running' : i \in DOMAIN running /\ running'[i] = running[i]
  BY <1>1, PopType DEF Return
<1>3. QED
  BY <1>2 DEF Settled

LEMMA ThrowSettles ==
    ASSUME AInv, TInv', Throw
    PROVE  AInv'
<1>1. UNCHANGED <<writes, duplicates, runs, executed, acked, now>> /\ Txns' = Txns /\ now \in Nat
  BY DEF Throw, clientVars, tableVars, Txns, AInv, TInv, TypeOK
<1>2. ASSUME NEW x \in Txns, NEW y \in Txns, x < y, SameId(x, y)' PROVE Settled(x)'
  BY <1>1, <1>2, PopSettles DEF AInv, OlderSettled, SameId, Throw
<1>3. \A x \in Txns : Fingerprint(x)' = Fingerprint(x) /\ x \in Txns'
  BY <1>1 DEF Fingerprint
<1>4. now' >= now /\ now' \in Nat
  BY <1>1
<1>5. Backed' /\ OlderSettled'
  BY <1>1, <1>2, <1>3, <1>4, HistoryStays
<1>6. QED
  BY <1>1, <1>5 DEF AInv, AckMeansExecuted

LEMMA FinishSettles ==
    ASSUME AInv, TInv', Finish
    PROVE  AInv'
<1> DEFINE t == Top.txn
           r == [txn |-> t, start |-> Top.start, before |-> Top.before, end |-> now]
<1>1. UNCHANGED <<writes, enabled, now>> /\ Txns' = Txns /\ now \in Nat /\ Record(t)
      /\ executed' = executed \cup {t} /\ acked' = acked \cup {t} /\ running # <<>> /\ Return
  BY DEF Finish, clientVars, serverVars, Txns, AInv, TInv, TypeOK
<1>2. running \in Seq(Frame) /\ Len(running) \in DOMAIN running /\ Top \in Frame /\ t \in Txns
  <2>1. running \in Seq(Frame)
    BY DEF AInv, TInv, TypeOK
  <2>2. Len(running) \in DOMAIN running /\ Top \in Frame
    BY <2>1, <1>1, PopType DEF Top
  <2>3. QED
    BY <2>1, <2>2 DEF AInv, TInv, Sent, Top
<1>3. \A x \in Txns : Fingerprint(x)' = Fingerprint(x) /\ (\A e \in Nat : Entry(x, e)' = Entry(x, e))
  BY <1>1 DEF Fingerprint, Entry
<1>4. \A x \in Txns : Settled(x) => x # t
  BY <1>2 DEF Settled, Top
<1>5. r \in Run /\ r.txn = t /\ r.end = now
  BY <1>1, <1>2 DEF Frame, Run
<1> HIDE DEF r, t
<1>6. CASE enabled
  <2>1. runs' = Append(runs, r) /\ runs \in Seq(Run)
    BY <1>6 DEF Finish, AInv, TInv, TypeOK, r, t
  <2>2. /\ Len(runs) + 1 \in DOMAIN runs' /\ runs'[Len(runs) + 1] = r
        /\ \A k \in DOMAIN runs : k \in DOMAIN runs' /\ runs'[k] = runs[k]
        /\ \A k \in DOMAIN runs' : (k \in DOMAIN runs /\ runs'[k] = runs[k]) \/ runs'[k] = r
    <3>1. Len(runs) \in Nat /\ Len(runs') = Len(runs) + 1
      BY <1>5, <2>1, AppendType
    <3>2. Len(runs) + 1 \in DOMAIN runs' /\ runs'[Len(runs) + 1] = r
      BY <1>5, <2>1, <3>1
    <3>3. QED
      BY <1>5, <2>1, <3>2, AppendType
  <2>3. duplicates' = [duplicates EXCEPT ![duplicate_cursor] = Entry(t, now)]
        /\ duplicates \in [0..Slots-1 -> Table] /\ duplicate_cursor \in 0..Slots-1
    BY <1>1, <1>6 DEF Record, AInv, TInv, TypeOK, Table
  <2>4. ASSUME NEW i \in 0..Slots-1, duplicates'[i].used
        PROVE  \E k \in DOMAIN runs' : duplicates'[i] = Entry(runs'[k].txn, runs'[k].end)
    <3>1. CASE i = duplicate_cursor
      BY <3>1, <2>2, <2>3, <1>5
    <3>2. CASE i # duplicate_cursor
      <4>1. duplicates'[i] = duplicates[i]
        BY <3>2, <2>3
      <4>2. PICK k \in DOMAIN runs : duplicates[i] = Entry(runs[k].txn, runs[k].end)
        BY <4>1, <2>4 DEF AInv, Backed
      <4>3. QED
        BY <4>1, <4>2, <2>2
    <3>3. QED
      BY <3>1, <3>2
  <2>5. ASSUME NEW k \in DOMAIN runs'
        PROVE  /\ runs'[k].txn \in executed'
               /\ Entry(runs[k].txn, runs[k].end)' = Entry(runs'[k].txn, runs'[k].end)
    <3>1. runs'[k].txn \in executed' /\ runs'[k].txn \in Txns /\ runs'[k].end \in Nat
      BY <1>1, <1>2, <1>5, <2>2, WriteFacts DEF AInv, Backed
    <3>2. QED
      BY <3>1, <1>1 DEF Entry, Fingerprint
  <2>6. Backed'
    BY <2>4, <2>5 DEF Backed
  <2>7. ASSUME NEW x \in Txns, NEW y \in Txns, x < y, SameId(x, y)' PROVE Settled(x)'
    <3>1. Settled(x) /\ x # t
      BY <1>1, <1>4, <2>7 DEF AInv, OlderSettled, SameId
    <3>2. QED
      BY <1>1, <1>5, <2>2, <3>1, PopSettles
  <2>8. OlderSettled'
    BY <2>7, <1>1 DEF OlderSettled
  <2>9. QED
    BY <1>1, <2>6, <2>8 DEF AInv, AckMeansExecuted
<1>7. CASE ~enabled
  <2>1. UNCHANGED <<duplicates, runs>>
    BY <1>1, <1>7 DEF Finish, Record, tableVars
  <2>2. ASSUME NEW x \in Txns, NEW y \in Txns, x < y, SameId(x, y)' PROVE Settled(x)'
    BY <1>1, <2>1, <2>2, PopSettles DEF AInv, OlderSettled, SameId
  <2>3. OlderSettled'
    BY <2>2, <1>1 DEF OlderSettled
  <2>4. ASSUME NEW k \in DOMAIN runs
        PROVE  Entry(runs[k].txn, runs[k].end)' = Entry(runs[k].txn, runs[k].end)
    BY <1>1, <2>1 DEF Entry, Fingerprint
  <2>5. Backed'
    BY <1>1, <2>1, <2>4 DEF AInv, Backed
  <2>6. QED
    BY <1>1, <2>3, <2>5 DEF AInv, AckMeansExecuted
<1>8. QED
  BY <1>6, <1>7 DEF AInv, TInv, TypeOK

LEMMA ConfigureSettles ==
    ASSUME AInv, TInv', NEW e \in BOOLEAN, Configure(e)
    PROVE  AInv'
<1>1. UNCHANGED <<writes, executed, acked, now>> /\ runs' = <<>> /\ Txns' = Txns
      /\ duplicates' = [i \in 0..Slots-1 |-> Unused] /\ NewHistory
  BY DEF Configure, NewHistory, clientVars, Txns
<1>2. DOMAIN runs' = {} /\ Unused.used = FALSE
  BY <1>1 DEF Unused
<1>3. Backed'
  BY <1>1, <1>2 DEF Backed
<1>a. DOMAIN running' = DOMAIN running /\ \A i \in DOMAIN running : running'[i].txn = running[i].txn
  BY <1>1, NewFrames DEF AInv
<1>4. OlderSettled'
  BY <1>1, <1>2, <1>a DEF AInv, OlderSettled, SameId, Settled
<1>5. QED
  BY <1>1, <1>3, <1>4 DEF AInv, AckMeansExecuted

LEMMA OthersSettle ==
    ASSUME AInv, TInv', UNCHANGED <<writes, duplicates, runs, running, executed>>, now' \in {now, now + 1},
           acked' = acked \/ \E t \in Txns : Polled(t) /\ IsDuplicate(t) /\ acked' = acked \cup {t}
    PROVE  AInv'
<1>1. now \in Nat /\ now' >= now /\ now' \in Nat /\ Txns' = Txns
  BY WriteFacts DEF AInv, Txns
<1>2. ASSUME NEW x \in Txns, NEW y \in Txns, x < y, SameId(x, y)' PROVE Settled(x)'
  <2>1. Settled(x)
    BY <1>2 DEF AInv, OlderSettled, SameId
  <2>2. QED
    BY <1>1, <2>1, SettledStays
<1>3. \A x \in Txns : Fingerprint(x)' = Fingerprint(x) /\ x \in Txns'
  BY <1>1 DEF Fingerprint
<1>4. Backed' /\ OlderSettled'
  BY <1>1, <1>2, <1>3, HistoryStays
<1>5. acked' \subseteq executed
  BY DuplicateWasExecuted DEF AInv, AckMeansExecuted
<1>6. QED
  BY <1>4, <1>5 DEF AInv, AckMeansExecuted

\* A write that was acknowledged has been executed, not merely one with the same
\* fingerprint (php_bacnet_security_is_duplicate_write), as long as an invoke id
\* is reused only when its previous use has settled.
THEOREM AcksAreTrue ==
    ASSUME FreshIds
    PROVE  Spec => []AckMeansExecuted
<1>1. Init => AInv
  <2>1. ASSUME Init PROVE runs = <<>> /\ writes = <<>> /\ Txns = {} /\ acked = {} /\ DOMAIN runs = {}
                          /\ \A i \in 0..Slots-1 : duplicates[i].used = FALSE
    BY <2>1 DEF Init, Txns, Unused
  <2>2. QED
    BY <2>1, InitTypes DEF AInv, Backed, OlderSettled, AckMeansExecuted
<1>2. AInv /\ [Next]_vars => AInv'
  <2> SUFFICES ASSUME AInv, [Next]_vars PROVE AInv'
    OBVIOUS
  <2>1. TInv'
    BY TypesStep DEF AInv
  <2>2. ASSUME \/ \E c \in Clients : Restart(c)
               \/ \E t \in Txns : Duplicate(t)
               \/ AddLocalObject \/ RemoveLocalObject \/ OnWriteProperty
               \/ Tick \/ UNCHANGED vars
        PROVE  AInv'
    <3>1. UNCHANGED <<writes, duplicates, runs, running, executed>> /\ now' \in {now, now + 1}
      BY <2>2 DEF Restart, Duplicate, AddLocalObject, RemoveLocalObject, OnWriteProperty, Tick, vars,
         clientVars, tableVars
    <3>2. acked' = acked \/ \E t \in Txns : Polled(t) /\ IsDuplicate(t) /\ acked' = acked \cup {t}
      BY <2>2 DEF Restart, Duplicate, AddLocalObject, RemoveLocalObject, OnWriteProperty, Tick, vars
    <3>3. QED
      BY <2>1, <3>1, <3>2, OthersSettle
  <2>3. QED
    BY <2>1, <2>2, IssueSettles, BeginSettles, ThrowSettles, FinishSettles, ConfigureSettles DEF Next
<1>3. AInv => AckMeansExecuted
  BY DEF AInv
<1>4. QED
  BY <1>1, <1>2, <1>3, PTL DEF Spec
=============================================================================
