------------------------- MODULE ClientCallsProofs -------------------------
(* Theorems about ClientCalls for every value of its constants.             *)
EXTENDS ClientCalls, SequenceTheorems, TLAPS

-----------------------------------------------------------------------------
\* Numbers and finite sets.

(* Two numbers less than n apart with equal residues are one.               *)
LEMMA SameResidue ==
    ASSUME NEW n \in Nat \ {0}, NEW a \in Nat, NEW b \in Nat,
           a % n = b % n, a - b < n, b - a < n
    PROVE  a = b
<1>1. a = n * (a \div n) + (a % n) /\ a \div n \in Int /\ a % n \in 0..n-1
  BY Z3
<1>2. b = n * (b \div n) + (b % n) /\ b \div n \in Int /\ b % n \in 0..n-1
  BY Z3
<1>3. a - b = n * ((a \div n) - (b \div n))
  BY <1>1, <1>2, Z3
<1>4. CASE a \div n = b \div n
  BY <1>3, <1>4, Z3
<1>5. CASE (a \div n) - (b \div n) >= 1
  BY <1>1, <1>2, <1>3, <1>5, Z3
<1>6. CASE (b \div n) - (a \div n) >= 1
  BY <1>1, <1>2, <1>3, <1>6, Z3
<1>7. QED
  BY <1>1, <1>2, <1>4, <1>5, <1>6

(* The residue is what is left over when a multiple of n is taken away.      *)
LEMMA ResidueUnique ==
    ASSUME NEW n \in Nat \ {0}, NEW a \in Nat, NEW q \in Int, NEW r \in 0..n-1,
           a = n * q + r
    PROVE  a % n = r
<1>1. a = n * (a \div n) + (a % n) /\ a \div n \in Int /\ a % n \in 0..n-1
  BY Z3
<1>2. r - (a % n) = n * ((a \div n) - q)
  BY <1>1, Z3
<1>3. CASE a \div n = q
  BY <1>2, <1>3, <1>1, Z3
<1>4. CASE (a \div n) - q >= 1
  BY <1>1, <1>2, <1>4, Z3
<1>5. CASE q - (a \div n) >= 1
  BY <1>1, <1>2, <1>5, Z3
<1>6. QED
  BY <1>1, <1>3, <1>4, <1>5

LEMMA OneFurther == \A a, d \in Nat : a + 1 + d \in Nat /\ (a + 1 + d) + 1 = a + 1 + (d + 1)
OBVIOUS

(* Counting modulo n: the successor of a residue is the residue of the      *)
(* successor, as in a uint8_t counter.                                       *)
LEMMA NextResidue ==
    ASSUME NEW n \in Nat \ {0, 1}, NEW a \in Nat
    PROVE  /\ a % n \in 0..n-1
           /\ ((a % n) + 1) % n = (a + 1) % n
<1> DEFINE q == a \div n
           r == a % n
<1>1. a = n * q + r /\ q \in Int /\ r \in 0..n-1
  BY Z3
<1>2. CASE r + 1 < n
  <2>1. a + 1 = n * q + (r + 1) /\ r + 1 = n * 0 + (r + 1) /\ r + 1 \in 0..n-1
    BY <1>1, <1>2, Z3
  <2>2. (a + 1) % n = r + 1
    <3> HIDE DEF q, r
    <3> QED BY <2>1, <1>1, ResidueUnique
  <2>3. (r + 1) % n = r + 1
    <3> HIDE DEF q, r
    <3> QED BY <2>1, <1>1, ResidueUnique
  <2>4. QED
    BY <1>1, <2>2, <2>3
<1>3. CASE r + 1 = n
  <2>1. a + 1 = n * (q + 1) + 0 /\ r + 1 = n * 1 + 0 /\ q + 1 \in Int
    BY <1>1, <1>3, Z3
  <2>2. (a + 1) % n = 0
    <3> HIDE DEF q, r
    <3> QED BY <2>1, <1>1, ResidueUnique
  <2>3. (r + 1) % n = 0
    <3> HIDE DEF q, r
    <3> QED BY <2>1, <1>1, ResidueUnique
  <2>4. QED
    BY <1>1, <2>2, <2>3
<1>4. QED
  BY <1>1, <1>2, <1>3

-----------------------------------------------------------------------------
(* Type correctness.                                                        *)

(* Popping a frame keeps the frames below it.                                *)
LEMMA PopProperties ==
    ASSUME NEW S, NEW s \in Seq(S), s # <<>>
    PROVE  /\ Pop(s) \in Seq(S)
           /\ Len(s) \in Nat \ {0}
           /\ Len(Pop(s)) = Len(s) - 1
           /\ \A i \in 1..Len(s)-1 : Pop(s)[i] = s[i]
           /\ s[Len(s)] \in S
<1>1. Len(s) \in Nat \ {0}
  BY EmptySeq
<1>2. \A i \in 1..Len(s)-1 : s[i] \in S
  BY <1>1, ElementOfSeq
<1>3. /\ Pop(s) \in Seq(S)
      /\ Len(Pop(s)) = IF 1 <= Len(s) - 1 THEN Len(s) - 1 - 1 + 1 ELSE 0
      /\ \A i \in 1..(Len(s)-1)-1+1 : Pop(s)[i] = s[1+i-1]
  <2>1. Len(s) - 1 \in Int /\ 1 \in Int
    BY <1>1
  <2> QED BY <2>1, <1>2, SubSeqProperties DEF Pop
<1>4. Len(Pop(s)) = Len(s) - 1
  <2>1. \A n \in Nat \ {0} : (IF 1 <= n - 1 THEN n - 1 - 1 + 1 ELSE 0) = n - 1
    OBVIOUS
  <2> QED BY <1>1, <1>3, <2>1, Zenon
<1>5. \A i \in 1..Len(s)-1 : Pop(s)[i] = s[i]
  <2>1. TAKE i \in 1..Len(s)-1
  <2>2. i \in 1..(Len(s)-1)-1+1 /\ 1+i-1 = i
    BY <1>1
  <2>3. QED
    BY <1>3, <2>2
<1>6. s[Len(s)] \in S
  BY <1>1, ElementOfSeq
<1>7. QED
  BY <1>1, <1>3, <1>4, <1>5, <1>6

(* Every call on record has the type of a call.                              *)
LEMMA CallTyped ==
    ASSUME TypeOK, NEW t \in Txns
    PROVE  calls[t].op \in Ops /\ calls[t].key \in Keys /\ calls[t].floor \in Nat
<1>1. calls[t] \in Call
  BY ElementOfSeq DEF TypeOK, Txns, Now
<1>2. QED
  BY <1>1 DEF Call

(* A waiting call is on top of the stack and was issued.                     *)
LEMMA TopIsCall ==
    ASSUME TypeOK, Waiting
    PROVE  /\ Top \in Txns
           /\ calls[Top] \in Call
           /\ Pop(stack) \in Seq(Txns \cup {Callback})
<1>1. stack \in Seq(Txns \cup {Callback}) /\ stack # <<>> /\ Top # Callback
  BY DEF TypeOK, Waiting, CallOnTop, Top
<1>2. Top \in Txns /\ Pop(stack) \in Seq(Txns \cup {Callback})
  BY <1>1, PopProperties DEF Top
<1>3. QED
  BY <1>2, ElementOfSeq DEF TypeOK, Txns, Now

(* Issuing a call appends its record and its frame.                          *)
LEMMA SendTyped ==
    ASSUME TypeOK, NEW op \in Ops, NEW k \in Keys, NEW id \in 0..IdSpace-1, Send(op, k, id)
    PROVE  /\ calls' \in Seq(Call) /\ Now' = Now + 1 /\ Now \in Nat
           /\ stack' \in Seq(Txns' \cup {Callback})
           /\ last' \in Outcome /\ last'.txn \in 0..Now'
           /\ Txns \subseteq Txns'
           /\ \A t \in Txns : calls'[t] = calls[t]
           /\ calls'[Now + 1] = [op |-> op, key |-> k, id |-> id, floor |-> acked[k]]
           /\ stack' = Append(stack, Now + 1)
           /\ last' = Nothing
<1> DEFINE c == [op |-> op, key |-> k, id |-> id, floor |-> acked[k]]
<1>1. c \in Call
  BY DEF TypeOK, Call
<1>2. calls' = Append(calls, c) /\ calls \in Seq(Call)
  BY DEF Send, TypeOK
<1>3. /\ calls' \in Seq(Call) /\ Now \in Nat /\ Now' = Now + 1
      /\ \A t \in 1..Now : calls'[t] = calls[t]
      /\ calls'[Now+1] = c
  <2> HIDE DEF c
  <2> QED BY <1>1, <1>2, AppendProperties, LenProperties DEF Now
<1>4. Txns \subseteq Txns' /\ Now + 1 \in Txns'
  BY <1>3 DEF Txns
<1>5. stack \in Seq(Txns' \cup {Callback})
  BY <1>4, SeqMonotonic, Txns \cup {Callback} \subseteq Txns' \cup {Callback} DEF TypeOK
<1>6. stack' \in Seq(Txns' \cup {Callback})
  BY <1>4, <1>5, AppendProperties DEF Send
<1>7. last' \in Outcome /\ last'.txn \in 0..Now'
  BY <1>3 DEF Send, Nothing, Outcome, Status
<1>8. QED
  BY <1>3, <1>4, <1>6, <1>7 DEF Txns, Send

(* The outcome of a call that ends is well typed.                            *)
LEMMA FinishTyped ==
    ASSUME TypeOK, NEW t \in Txns, NEW status \in Status, NEW reply \in Nat,
           NEW version \in Nat, Finish(t, status, reply, version)
    PROVE  last' \in Outcome /\ last'.txn = t /\ last'.txn \in 0..Now
<1>1. calls[t] \in Call /\ Now \in Nat
  BY ElementOfSeq, LenProperties DEF TypeOK, Txns, Now
<1>2. QED
  BY <1>1 DEF Finish, Outcome, Call, Txns

LEMMA TypeInit == Init => TypeOK
<1> SUFFICES ASSUME Init PROVE TypeOK
  OBVIOUS
<1>1. Len(<<>>) = 0 /\ \A S : <<>> \in Seq(S)
  BY EmptySeq
<1>2. last \in Outcome /\ last.txn = 0
  BY DEF Init, Nothing, Outcome, Status
<1>3. QED
  BY <1>1, <1>2, IdSpaceAssumption, PidSpaceAssumption DEF Init, TypeOK, Txns, Now

LEMMA DrawPidTyped ==
    ASSUME TypeOK, NEW p \in Pids
    PROVE  DrawPid(p).pid \in 0..PidSpace-1 /\ DrawPid(p).next \in 0..PidSpace-1
<1>1. \A n \in 0..PidSpace-1 : (n + 1) % PidSpace \in 0..PidSpace-1
  BY PidSpaceAssumption, Z3
<1>2. 1 \in 0..PidSpace-1 /\ next_cov_process_id \in 0..PidSpace-1
  BY PidSpaceAssumption DEF TypeOK
<1>3. p \notin {AutoPid, 0} => p \in 0..PidSpace-1
  BY PidSpaceAssumption DEF Pids, AutoPid
<1>4. QED
  BY <1>1, <1>2, <1>3 DEF DrawPid

LEMMA IdTyped ==
    \A n \in Nat : n % IdSpace \in 0..IdSpace-1
BY IdSpaceAssumption, Z3

(* Every step keeps the types: one step of the proof per action.             *)
LEMMA TypeStep == TypeOK /\ [Next]_vars => TypeOK'
<1> SUFFICES ASSUME TypeOK, [Next]_vars PROVE TypeOK'
  OBVIOUS
<1> USE DEF idVars, netVars, histVars
<1>0. Now \in Nat
  BY LenProperties DEF TypeOK, Now
<1>1. ASSUME NEW k \in Keys, ReadNegativeHit(k) PROVE TypeOK'
  <2>1. last' \in Outcome /\ last'.txn = 0
    BY <1>1 DEF ReadNegativeHit, Nothing, Outcome, Status
  <2>2. QED
    BY <1>0, <1>1, <2>1 DEF ReadNegativeHit, TypeOK, Txns, Now
<1>2. ASSUME NEW k \in Keys, ReadCacheHit(k) PROVE TypeOK'
  <2>1. cache[k] \in Nat /\ acked[k] \in Nat
    BY <1>2 DEF ReadCacheHit, TypeOK
  <2>2. last' \in Outcome /\ last'.txn = 0
    BY <1>2, <2>1 DEF ReadCacheHit, Nothing, Outcome, Status
  <2>3. Now' = Now /\ Txns' = Txns /\ last'.txn \in 0..Now
    BY <1>0, <1>2, <2>2 DEF ReadCacheHit, Txns, Now
  <2>4. lastRead' \in [Keys -> {"none", "ok", "error", "timeout"}]
    BY <1>2 DEF ReadCacheHit, TypeOK
  <2>5. QED
    BY <1>2, <2>2, <2>3, <2>4 DEF ReadCacheHit, TypeOK
<1>3. ASSUME NEW k \in Keys, NEW refresh \in BOOLEAN, ReadSend(k, refresh) PROVE TypeOK'
  <2>1. Send("read", k, next_invoke_id) /\ next_invoke_id \in 0..IdSpace-1 /\ "read" \in Ops
    BY <1>3 DEF ReadSend, TypeOK, Ops
  <2>2. next_invoke_id' \in 0..IdSpace-1
    BY <1>3, <2>1, IdTyped, IdSpaceAssumption DEF ReadSend
  <2>3. cache' \in [Keys -> Nat \cup {NotCached}] /\ negative' \subseteq Keys
    BY <1>3 DEF ReadSend, ClearPartition, TypeOK
  <2>4. QED
    BY <1>3, <2>1, <2>2, <2>3, SendTyped DEF ReadSend, TypeOK
<1>4. ASSUME NEW k \in Keys, WriteSend(k) PROVE TypeOK'
  <2>1. Send("write", k, next_invoke_id) /\ next_invoke_id \in 0..IdSpace-1 /\ "write" \in Ops
    BY <1>4 DEF WriteSend, TypeOK, Ops
  <2>2. next_invoke_id' \in 0..IdSpace-1
    BY <1>4, <2>1, IdTyped, IdSpaceAssumption DEF WriteSend
  <2>3. QED
    BY <1>4, <2>1, <2>2, SendTyped DEF WriteSend, TypeOK
<1>5. ASSUME NEW k \in Keys, NEW p \in Pids, SubscribeSend(k, p) PROVE TypeOK'
  <2>1. DrawPid(p).pid \in 0..PidSpace-1 /\ DrawPid(p).next \in 0..PidSpace-1
    BY DrawPidTyped
  <2>2. DrawPid(p).pid % IdSpace \in 0..IdSpace-1
    BY <2>1, IdTyped, PidSpaceAssumption
  <2>3. Send("subscribe", k, DrawPid(p).pid % IdSpace) /\ "subscribe" \in Ops
    BY <1>5 DEF SubscribeSend, Ops
  <2>4. QED
    BY <1>5, <2>1, <2>2, <2>3, SendTyped DEF SubscribeSend, TypeOK
<1>6. ASSUME NEW k \in Keys, NEW p \in 0..PidSpace-1, UnsubscribeSend(k, p) PROVE TypeOK'
  <2>1. p % IdSpace \in 0..IdSpace-1
    BY IdTyped, PidSpaceAssumption
  <2>2. Send("unsubscribe", k, p % IdSpace) /\ "unsubscribe" \in Ops
    BY <1>6 DEF UnsubscribeSend, Ops
  <2>3. QED
    BY <1>6, <2>1, <2>2, SendTyped DEF UnsubscribeSend, TypeOK
<1>7. ASSUME NEW m \in replies, Accept(m) PROVE TypeOK'
  <2> DEFINE t == Top
             k == calls[t].key
  <2>1. t \in Txns /\ calls[t] \in Call /\ k \in Keys /\ stack' \in Seq(Txns \cup {Callback})
    BY <1>7, TopIsCall DEF Accept, Call
  <2>2. m.txn \in Txns /\ m.kind \in Kinds /\ m.version \in Nat /\ m.txn \in Nat
    BY DEF TypeOK, Txns
  <2>3. answered' \subseteq Txns
    BY <1>7, <2>2 DEF Accept, TypeOK
  <2>4. CASE EndRead(t, m)
    <3>1. last' \in Outcome /\ last'.txn \in 0..Now
      <4> HIDE DEF t
      <4>1. \E s \in Status, v \in Nat : Finish(t, s, m.txn, v)
        BY <2>4, <2>2 DEF EndRead, Status
      <4> QED BY <4>1, <2>1, <2>2, FinishTyped
    <3>2. cache' \in [Keys -> Nat \cup {NotCached}] /\ negative' \subseteq Keys
          /\ acked' \in [Keys -> Nat] /\ lastRead' \in [Keys -> {"none", "ok", "error", "timeout"}]
      BY <2>1, <2>2, <2>4 DEF EndRead, TypeOK
    <3>3. QED
      BY <1>7, <2>1, <2>3, <3>1, <3>2 DEF Accept, TypeOK, Txns, Now
  <2>5. CASE EndWrite(t, m)
    <3>1. last' \in Outcome /\ last'.txn \in 0..Now
      <4> HIDE DEF t
      <4>1. \E s \in Status, v \in Nat : Finish(t, s, m.txn, v)
        BY <2>5, <2>2 DEF EndWrite, Status
      <4> QED BY <4>1, <2>1, <2>2, FinishTyped
    <3>2. cache' \in [Keys -> Nat \cup {NotCached}] /\ negative' \subseteq Keys
          /\ acked' \in [Keys -> Nat] /\ lastRead' \in [Keys -> {"none", "ok", "error", "timeout"}]
      BY <2>1, <2>2, <2>5 DEF EndWrite, TypeOK
    <3>3. QED
      BY <1>7, <2>1, <2>3, <3>1, <3>2 DEF Accept, TypeOK, Txns, Now
  <2>6. CASE EndSubscription(t, m)
    <3>1. last' \in Outcome /\ last'.txn \in 0..Now
      <4> HIDE DEF t
      <4>1. \E s \in Status, v \in Nat : Finish(t, s, m.txn, v)
        BY <2>6, <2>2 DEF EndSubscription, Status
      <4> QED BY <4>1, <2>1, <2>2, FinishTyped
    <3>2. QED
      BY <1>7, <2>1, <2>3, <2>6, <3>1 DEF Accept, EndSubscription, TypeOK, Txns, Now
  <2>7. QED
    BY <1>7, <2>4, <2>5, <2>6 DEF Accept
<1>8. ASSUME NEW m \in replies, Discard(m) PROVE TypeOK'
  BY <1>8 DEF Discard, TypeOK, Txns, Now
<1>9. CASE Timeout
  <2> DEFINE t == Top
  <2>1. t \in Txns /\ calls[t] \in Call /\ stack' \in Seq(Txns \cup {Callback})
    BY <1>9, TopIsCall DEF Timeout
  <2>2. last' \in Outcome /\ last'.txn \in 0..Now
    <3> HIDE DEF t
    <3>1. Finish(t, "timeout", 0, 0) /\ "timeout" \in Status
      BY <1>9 DEF Timeout, Status, t
    <3> QED BY <3>1, <2>1, FinishTyped
  <2>3. negative' \subseteq Keys /\ lastRead' \in [Keys -> {"none", "ok", "error", "timeout"}]
    BY <1>9, <2>1 DEF Timeout, TypeOK, Call
  <2>4. QED
    BY <1>9, <2>1, <2>2, <2>3 DEF Timeout, TypeOK, Txns, Now
<1>10. CASE Notify
  <2>1. stack' \in Seq(Txns \cup {Callback})
    BY <1>10, AppendProperties DEF Notify, TypeOK
  <2>2. QED
    BY <1>10, <2>1 DEF Notify, TypeOK, Txns, Now
<1>11. CASE CallbackReturn
  <2>1. stack' \in Seq(Txns \cup {Callback})
    BY <1>11, PopProperties DEF CallbackReturn, TypeOK
  <2>2. QED
    BY <1>11, <2>1 DEF CallbackReturn, TypeOK, Txns, Now
<1>12. CASE CallbackThrow
  <2> DEFINE outer == Pop(stack)
             t == outer[Len(outer)]
  <2>1. outer \in Seq(Txns \cup {Callback})
    BY <1>12, PopProperties DEF CallbackThrow, TypeOK
  <2>2. CASE CallOnTop(outer)
    <3>1. t \in Txns /\ Pop(outer) \in Seq(Txns \cup {Callback})
      <4> HIDE DEF outer
      <4> QED BY <2>1, <2>2, PopProperties DEF CallOnTop
    <3>2. last' \in Outcome /\ last'.txn \in 0..Now
      <4>1. \E s \in Status : Finish(t, s, 0, 0)
        BY <1>12, <2>2 DEF CallbackThrow, Status
      <4> HIDE DEF t
      <4> QED BY <4>1, <3>1, FinishTyped
    <3>3. stack' = Pop(outer) /\ answered' \subseteq Txns
      BY <1>12, <2>2 DEF CallbackThrow, TypeOK
    <3>4. QED
      BY <1>12, <3>1, <3>2, <3>3 DEF CallbackThrow, TypeOK, Txns, Now
  <2>3. CASE ~CallOnTop(outer)
    <3>1. stack' = outer /\ UNCHANGED <<last, answered>>
      BY <1>12, <2>3 DEF CallbackThrow
    <3>2. QED
      BY <1>12, <2>1, <3>1 DEF CallbackThrow, TypeOK, Txns, Now
  <2>4. QED
    BY <2>2, <2>3
<1>13. CASE NewSession
  BY <1>13, IdSpaceAssumption, PidSpaceAssumption DEF NewSession, TypeOK, Txns, Now
<1>14. ASSUME NEW k \in Keys, Expire(k) PROVE TypeOK'
  <2>1. cache' \in [Keys -> Nat \cup {NotCached}] /\ negative' \subseteq Keys
    BY <1>14 DEF Expire, TypeOK
  <2>2. Now' = Now /\ Txns' = Txns
    BY <1>14 DEF Expire, Txns, Now
  <2>3. QED
    BY <1>14, <2>1, <2>2 DEF Expire, TypeOK
<1>15. ASSUME NEW k \in Keys, DeviceChange(k) PROVE TypeOK'
  <2>1. device' \in [Keys -> Nat]
    BY <1>15 DEF DeviceChange, TypeOK
  <2>2. Now' = Now /\ Txns' = Txns
    BY <1>15 DEF DeviceChange, Txns, Now
  <2>3. QED
    BY <1>15, <2>1, <2>2 DEF DeviceChange, TypeOK
<1>16. ASSUME NEW t \in Txns, NEW ok \in BOOLEAN, Serve(t, ok) PROVE TypeOK'
  <2>1. calls[t] \in Call
    BY ElementOfSeq DEF TypeOK, Txns, Now
  <2> DEFINE k == calls[t].key
             version == device[k] + (IF ok /\ calls[t].op = "write" THEN 1 ELSE 0)
             kind == IF ~ok THEN "error" ELSE IF calls[t].op = "read" THEN "complex" ELSE "simple"
  <2>2. k \in Keys /\ version \in Nat /\ kind \in Kinds
    <3>1. k \in Keys
      BY <2>1 DEF Call
    <3>2. device[k] \in Nat
      BY <3>1 DEF TypeOK
    <3>3. version \in Nat
      BY <3>2
    <3>4. kind \in Kinds
      BY DEF Kinds
    <3>5. QED
      BY <3>1, <3>3, <3>4
  <2>a. /\ device' = [device EXCEPT ![k] = version]
        /\ replies' = replies \cup {[txn |-> t, kind |-> kind, version |-> version]}
    BY <1>16 DEF Serve
  <2>3. device' \in [Keys -> Nat] /\ replies' \subseteq [txn : Txns, kind : Kinds, version : Nat]
    <3> HIDE DEF k, version, kind
    <3> QED BY <2>2, <2>a DEF TypeOK
  <2>4. QED
    BY <1>16, <2>3 DEF Serve, TypeOK, Txns, Now
<1>17. CASE UNCHANGED vars
  BY <1>17 DEF vars, TypeOK, Txns, Now
<1>18. QED
  BY <1>1, <1>2, <1>3, <1>4, <1>5, <1>6, <1>7, <1>8, <1>9, <1>10, <1>11, <1>12, <1>13,
     <1>14, <1>15, <1>16, <1>17 DEF Next, RequestStep, CovStep, Environment

(* The state of the client calls stays well typed, in every session and      *)
(* whatever callbacks, subscriptions and the network do.                     *)
THEOREM TypeCorrect == Spec => []TypeOK
<1>1. Init => TypeOK
  BY TypeInit
<1>2. TypeOK /\ [Next]_vars => TypeOK'
  BY TypeStep
<1>3. QED
  BY <1>1, <1>2, PTL DEF Spec

-----------------------------------------------------------------------------
(* Invoke ids.  Reads and writes draw their ids from one counter, whatever   *)
(* subscriptions are sent in between: after d more draws the counter is d    *)
(* ahead of the id of a call.  Two draws less than one turn of the counter   *)
(* apart have different ids.                                                 *)

Drawers(T, c) == {t \in T : c[t].op \in {"read", "write"}}
DrawnBefore(t, c, next) == \E d \in 0..(Len(c) - t) : next = (c[t].id + 1 + d) % IdSpace
IdsApart(T, c, next) ==
    /\ \A t \in T : DrawnBefore(t, c, next)
    /\ \A s, t \in T : c[s].id = c[t].id /\ s - t < IdSpace /\ t - s < IdSpace => s = t

\* The three things a step can do to the ids: it draws an id, it
\* sends a subscription with an id of its own, or it sends nothing.
Draws(op, k) ==
    /\ CanIssue /\ Send(op, k, next_invoke_id)
    /\ next_invoke_id' = (next_invoke_id + 1) % IdSpace
Marks(op, k, id) == CanIssue /\ Send(op, k, id) /\ UNCHANGED next_invoke_id
SendsNothing == UNCHANGED <<next_invoke_id, calls>>

DrawStep == \E op \in {"read", "write"}, k \in Keys : Draws(op, k)
MarkStep == \E op \in {"subscribe", "unsubscribe"}, k \in Keys, id \in 0..IdSpace-1 : Marks(op, k, id)

LEMMA StepKinds ==
    ASSUME TypeOK, [RequestStep \/ CovStep \/ Environment]_vars
    PROVE  DrawStep \/ MarkStep \/ SendsNothing
<1> USE DEF idVars, SendsNothing
<1>1. ASSUME NEW k \in Keys, ReadNegativeHit(k) PROVE SendsNothing
  BY <1>1 DEF ReadNegativeHit
<1>2. ASSUME NEW k \in Keys, ReadCacheHit(k) PROVE SendsNothing
  BY <1>2 DEF ReadCacheHit
<1>3. ASSUME NEW k \in Keys, NEW refresh \in BOOLEAN, ReadSend(k, refresh) PROVE DrawStep
  BY <1>3 DEF ReadSend, DrawStep, Draws
<1>4. ASSUME NEW k \in Keys, WriteSend(k) PROVE DrawStep
  BY <1>4 DEF WriteSend, DrawStep, Draws
<1>5. ASSUME NEW k \in Keys, NEW p \in Pids, SubscribeSend(k, p) PROVE MarkStep
  <2> DEFINE id == DrawPid(p).pid % IdSpace
  <2>1. CanIssue /\ Send("subscribe", k, id) /\ UNCHANGED next_invoke_id
    BY <1>5 DEF SubscribeSend, CanSubscribe
  <2>2. id \in 0..IdSpace-1
    BY DrawPidTyped, IdTyped
  <2> HIDE DEF id
  <2>3. QED
    BY <2>1, <2>2 DEF MarkStep, Marks
<1>6. ASSUME NEW k \in Keys, NEW p \in 0..PidSpace-1, UnsubscribeSend(k, p) PROVE MarkStep
  <2> DEFINE id == p % IdSpace
  <2>1. CanIssue /\ Send("unsubscribe", k, id) /\ UNCHANGED next_invoke_id
    BY <1>6 DEF UnsubscribeSend, CanSubscribe
  <2>2. id \in 0..IdSpace-1
    BY IdTyped
  <2> HIDE DEF id
  <2>3. QED
    BY <2>1, <2>2 DEF MarkStep, Marks
<1>7. ASSUME NEW m \in replies, Accept(m) PROVE SendsNothing
  BY <1>7 DEF Accept
<1>8. ASSUME NEW m \in replies, Discard(m) PROVE SendsNothing
  BY <1>8 DEF Discard
<1>9. CASE Timeout
  BY <1>9 DEF Timeout
<1>10. CASE Notify
  BY <1>10 DEF Notify
<1>11. CASE CallbackReturn
  BY <1>11 DEF CallbackReturn
<1>12. CASE CallbackThrow
  BY <1>12 DEF CallbackThrow
<1>13. ASSUME NEW k \in Keys, Expire(k) PROVE SendsNothing
  BY <1>13 DEF Expire
<1>14. ASSUME NEW k \in Keys, DeviceChange(k) PROVE SendsNothing
  BY <1>14 DEF DeviceChange
<1>15. ASSUME NEW t \in Txns, NEW ok \in BOOLEAN, Serve(t, ok) PROVE SendsNothing
  BY <1>15 DEF Serve
<1>16. CASE UNCHANGED vars
  BY <1>16 DEF vars
<1>17. QED
  BY <1>1, <1>2, <1>3, <1>4, <1>5, <1>6, <1>7, <1>8, <1>9, <1>10, <1>11, <1>12, <1>13, <1>14,
     <1>15, <1>16 DEF RequestStep, CovStep, Environment

(* Less than one turn ahead the counter is elsewhere.                        *)
LEMMA NotBack ==
    ASSUME NEW n \in Nat \ {0}, NEW a \in 0..n-1, NEW e \in 1..n-1
    PROVE  (a + e) % n # a
<1>1. (a + e) % n = a => a + e - a < n /\ a % n = a
  BY Z3
<1>2. (a + e) % n = a => a + e = a
  BY <1>1, SameResidue
<1>3. QED
  BY <1>2

LEMMA Numbers ==
    ASSUME TypeOK
    PROVE  Now \in Nat /\ next_invoke_id \in 0..IdSpace-1
           /\ \A t \in Txns : t \in 1..Now /\ calls[t].id \in 0..IdSpace-1
<1>1. \A t \in Txns : calls[t] \in Call
  BY ElementOfSeq, LenProperties DEF TypeOK, Txns, Now
<1>2. QED
  BY <1>1, LenProperties DEF TypeOK, Call, Now, Txns

(* A draw keeps the ids apart, its own one included.                         *)
LEMMA DrawKeepsApart ==
    ASSUME NEW c \in Seq(Call), NEW cc \in Seq(Call), Len(cc) = Len(c) + 1,
           \A t \in 1..Len(c) : cc[t] = c[t],
           NEW id \in 0..IdSpace-1, cc[Len(c) + 1].id = id,
           NEW T \in SUBSET (1..Len(c)), IdsApart(T, c, id),
           NEW U, U \subseteq T \cup {Len(c) + 1}
    PROVE  IdsApart(U, cc, (id + 1) % IdSpace)
<1> DEFINE n == IdSpace
           L == Len(c)
           next == (id + 1) % n
<1>1. L \in Nat /\ Len(cc) = L + 1 /\ n \in Nat \ {0, 1} /\ \A t \in 1..L : c[t].id \in 0..n-1
  <2>1. \A t \in 1..L : c[t] \in Call
    BY ElementOfSeq, LenProperties
  <2>2. QED
    BY <2>1, LenProperties, IdSpaceAssumption DEF Call
<1>2. ASSUME NEW t \in T
      PROVE  \E d \in 0..(L - t) : id = (c[t].id + 1 + d) % n /\ next = (c[t].id + 1 + (d + 1)) % n
  <2>1. PICK d \in 0..(L - t) : id = (c[t].id + 1 + d) % n
    BY DEF IdsApart, DrawnBefore
  <2>2. c[t].id + 1 + d \in Nat /\ (c[t].id + 1 + d) + 1 = c[t].id + 1 + (d + 1)
    <3>1. t \in 1..L /\ L \in Nat /\ n \in Nat
      BY <1>1
    <3>2. c[t].id \in Nat /\ d \in Nat
      BY <1>1, <3>1
    <3>3. QED
      BY <3>2, OneFurther
  <2>3. (((c[t].id + 1 + d) % n) + 1) % n = ((c[t].id + 1 + d) + 1) % n
    BY <1>1, <2>2, NextResidue
  <2>4. QED
    BY <2>1, <2>2, <2>3
<1> HIDE DEF next
<1>3. ASSUME NEW t \in T PROVE DrawnBefore(t, cc, next)
  <2>1. PICK d \in 0..(L - t) : next = (c[t].id + 1 + (d + 1)) % n
    BY <1>2
  <2>2. d + 1 \in 0..(Len(cc) - t) /\ cc[t] = c[t]
    BY <1>1
  <2>3. QED
    BY <2>1, <2>2 DEF DrawnBefore
<1>4. DrawnBefore(L + 1, cc, next)
  <2>1. 0 \in 0..(Len(cc) - (L + 1)) /\ id + 1 = cc[L + 1].id + 1 + 0
    BY <1>1
  <2>2. QED
    BY <2>1 DEF DrawnBefore, next
<1>5. ASSUME NEW t \in T, L + 1 - t < n PROVE c[t].id # id
  <2>1. PICK d \in 0..(L - t) : id = (c[t].id + 1 + d) % n
    BY <1>2
  <2>2. 1 + d \in 1..n-1 /\ c[t].id + 1 + d = c[t].id + (1 + d) /\ c[t].id \in 0..n-1
    <3>1. t \in 1..L /\ L \in Nat /\ n \in Nat /\ c[t].id \in 0..n-1
      BY <1>1
    <3> DEFINE a == c[t].id
    <3> HIDE DEF a, L, n
    <3>2. 1 + d \in 1..n-1
      BY <1>5, <3>1
    <3>3. a \in Nat /\ d \in Nat
      BY <3>1 DEF a
    <3>4. a + 1 + d = a + (1 + d)
      BY <3>3
    <3>5. QED
      BY <3>1, <3>2, <3>4 DEF a
  <2>3. (c[t].id + (1 + d)) % n # c[t].id
    BY <1>1, <2>2, NotBack
  <2>4. QED
    BY <2>1, <2>2, <2>3
<1>6. ASSUME NEW s \in U, NEW t \in U, cc[s].id = cc[t].id, s - t < n, t - s < n
      PROVE  s = t
  <2>1. CASE s \in T /\ t \in T
    BY <1>6, <2>1 DEF IdsApart
  <2>2. CASE s \in T /\ t = L + 1
    BY <1>5, <1>6, <2>2
  <2>3. CASE t \in T /\ s = L + 1
    BY <1>5, <1>6, <2>3
  <2>4. QED
    BY <2>1, <2>2, <2>3
<1>7. \A t \in U : DrawnBefore(t, cc, next)
  BY <1>3, <1>4
<1>8. QED
  BY <1>6, <1>7 DEF IdsApart, next

(* So does every other step.                                                 *)
LEMMA OthersKeepApart ==
    ASSUME NEW c \in Seq(Call), NEW cc \in Seq(Call), Len(cc) >= Len(c),
           \A t \in 1..Len(c) : cc[t] = c[t],
           NEW next, NEW T \in SUBSET (1..Len(c)), IdsApart(T, c, next), NEW U \in SUBSET T
    PROVE  IdsApart(U, cc, next)
<1>1. Len(c) \in Nat /\ Len(cc) \in Nat
  BY LenProperties
<1>2. ASSUME NEW t \in T PROVE DrawnBefore(t, cc, next)
  <2>1. PICK d \in 0..(Len(c) - t) : next = (c[t].id + 1 + d) % IdSpace
    BY DEF IdsApart, DrawnBefore
  <2>2. d \in 0..(Len(cc) - t)
    BY <1>1
  <2>3. QED
    BY <2>1, <2>2 DEF DrawnBefore
<1>3. \A s, t \in U : cc[s].id = cc[t].id /\ s - t < IdSpace /\ t - s < IdSpace => s = t
  BY DEF IdsApart
<1>4. QED
  BY <1>2, <1>3 DEF IdsApart

(* What a call that has just been sent changes.                              *)
LEMMA SentFrame ==
    ASSUME TypeOK, NEW op \in Ops, NEW k \in Keys, NEW id \in 0..IdSpace-1,
           CanIssue, Send(op, k, id)
    PROVE  /\ Now \in Nat /\ Now' = Now + 1 /\ Txns' = Txns \cup {Now + 1}
           /\ calls \in Seq(Call) /\ calls' \in Seq(Call)
           /\ \A t \in Txns : calls'[t] = calls[t]
           /\ calls'[Now + 1].op = op /\ calls'[Now + 1].id = id
<1>1. /\ Now \in Nat /\ Now' = Now + 1
      /\ calls' \in Seq(Call)
      /\ \A t \in Txns : calls'[t] = calls[t]
      /\ calls'[Now + 1] = [op |-> op, key |-> k, id |-> id, floor |-> acked[k]]
  BY SendTyped
<1>2. calls \in Seq(Call)
  BY DEF TypeOK
<1>3. Txns' = Txns \cup {Now + 1}
  BY <1>1 DEF Txns
<1>4. QED
  BY <1>1, <1>2, <1>3

(* Within one PHP request the ids of all reads and writes less than one turn *)
(* of the counter apart are different.                                       *)

SessionInv == IdsApart(Drawers(Txns, calls), calls, next_invoke_id)

LEMMA OneSessionIsNext == [RequestStep \/ CovStep \/ Environment]_vars => [Next]_vars
BY DEF Next

LEMMA SessionInit == Init => SessionInv
<1> SUFFICES ASSUME Init PROVE SessionInv
  OBVIOUS
<1>1. Txns = {}
  BY EmptySeq DEF Init, Now, Txns
<1>2. QED
  BY <1>1 DEF SessionInv, IdsApart, Drawers

LEMMA SessionStep ==
    ASSUME TypeOK, SessionInv, [RequestStep \/ CovStep \/ Environment]_vars
    PROVE  SessionInv'
<1> DEFINE D == Drawers(Txns, calls)
           E == Drawers(Txns', calls')
<1>1. D \in SUBSET Txns /\ Txns = 1..Len(calls) /\ IdsApart(D, calls, next_invoke_id)
  BY DEF SessionInv, Drawers, Txns, Now
<1>2. ASSUME NEW op \in {"read", "write"}, NEW k \in Keys, Draws(op, k)
      PROVE  IdsApart(E, calls', next_invoke_id')
  <2> DEFINE id == next_invoke_id
  <2>1. id \in 0..IdSpace-1 /\ op \in Ops /\ CanIssue /\ Send(op, k, id)
        /\ next_invoke_id' = (id + 1) % IdSpace
    BY <1>2, Numbers DEF Ops, Draws
  <2> HIDE DEF id
  <2>2. /\ Now' = Now + 1 /\ Txns' = Txns \cup {Now + 1}
        /\ calls \in Seq(Call) /\ calls' \in Seq(Call)
        /\ \A t \in Txns : calls'[t] = calls[t]
        /\ calls'[Now + 1].id = id
    BY <2>1, SentFrame
  <2>3. Len(calls') = Len(calls) + 1 /\ calls'[Len(calls) + 1].id = id
        /\ E \subseteq D \cup {Len(calls) + 1}
    BY <2>2 DEF Now, Drawers
  <2>4. IdsApart(D, calls, id)
    BY <1>1 DEF id
  <2> HIDE DEF D, E
  <2>5. QED
    BY <1>1, <2>1, <2>2, <2>3, <2>4, DrawKeepsApart
<1>3. ASSUME NEW op \in {"subscribe", "unsubscribe"}, NEW k \in Keys, NEW id \in 0..IdSpace-1,
             Marks(op, k, id)
      PROVE  IdsApart(E, calls', next_invoke_id')
  <2>1. op \in Ops /\ CanIssue /\ Send(op, k, id) /\ UNCHANGED next_invoke_id
    BY <1>3 DEF Ops, Marks
  <2>2. /\ Now \in Nat /\ Now' = Now + 1 /\ Txns' = Txns \cup {Now + 1}
        /\ calls \in Seq(Call) /\ calls' \in Seq(Call)
        /\ \A t \in Txns : calls'[t] = calls[t]
        /\ calls'[Now + 1].op = op
    BY <2>1, SentFrame
  <2>3. Len(calls') >= Len(calls) /\ E \in SUBSET D
    BY <2>2 DEF Now, Drawers
  <2> HIDE DEF D, E
  <2>4. QED
    BY <1>1, <2>1, <2>2, <2>3, OthersKeepApart
<1>4. ASSUME SendsNothing PROVE IdsApart(E, calls', next_invoke_id')
  <2>1. UNCHANGED <<next_invoke_id, calls>> /\ Txns' = Txns /\ calls \in Seq(Call)
    BY <1>4 DEF SendsNothing, Now, Txns, TypeOK
  <2>2. E \in SUBSET D /\ Len(calls) >= Len(calls)
    BY <2>1, LenProperties DEF Drawers
  <2> HIDE DEF D, E
  <2>3. IdsApart(E, calls, next_invoke_id)
    BY <1>1, <2>1, <2>2, OthersKeepApart
  <2>4. IdsApart(E, calls', next_invoke_id')
    BY <2>1, <2>3
  <2>5. QED
    BY <2>4 DEF E
<1>5. IdsApart(E, calls', next_invoke_id')
  <2> HIDE DEF D, E
  <2> QED BY <1>2, <1>3, <1>4, StepKinds DEF DrawStep, MarkStep
<1>6. QED
  BY <1>5 DEF SessionInv

LEMMA SessionCorrect == OneSessionSpec => [](TypeOK /\ SessionInv)
<1>1. Init => TypeOK /\ SessionInv
  BY TypeInit, SessionInit
<1>2. TypeOK /\ SessionInv /\ [RequestStep \/ CovStep \/ Environment]_vars
      => (TypeOK /\ SessionInv)'
  BY TypeStep, SessionStep, OneSessionIsNext
<1>3. QED
  BY <1>1, <1>2, PTL DEF OneSessionSpec

(* A reply that can still arrive and carries the id of the waiting call is   *)
(* the reply to that call, or to a later one after a whole turn of the       *)
(* counter, if both calls drew their ids from it.                            *)
LEMMA MatchIsOwn ==
    ASSUME TypeOK, SessionInv, Waiting, NEW m \in replies, Recent(m.txn), Matches(m),
           {Top, m.txn} \subseteq Drawers(Txns, calls)
    PROVE  m.txn = Top \/ m.txn >= Top + IdSpace
<1>1. m.txn \in 1..Now /\ Top \in 1..Now /\ Now \in Nat
  BY Numbers DEF Drawers
<1>2. Now - m.txn < Lifetime /\ Lifetime <= IdSpace /\ IdSpace \in Nat
  BY LifetimeAssumption, IdSpaceAssumption DEF Recent
<1>3. Top - m.txn < IdSpace
  <2>1. Top <= Now /\ Lifetime \in Nat
    BY <1>1, LifetimeAssumption, IdSpaceAssumption
  <2>2. QED
    BY <1>1, <1>2, <2>1
<1>4. m.txn - Top < IdSpace => m.txn = Top
  BY <1>3 DEF SessionInv, IdsApart, Matches
<1>5. QED
  BY <1>1, <1>2, <1>4

-----------------------------------------------------------------------------
(* Until a second PHP request starts the counter again, an answer that a     *)
(* read or write takes for its own is matched by an id of the same counter.  *)

FirstSession == session >= 1 /\ (session = 1 => SessionInv)

LEMMA FirstSessionStep ==
    ASSUME TypeOK, FirstSession, [Next]_vars
    PROVE  FirstSession' /\ (session' = 1 => session = 1 /\ [RequestStep \/ CovStep \/ Environment]_vars)
<1> USE DEF idVars, netVars, histVars
<1>1. CASE NewSession
  <2>1. session' = session + 1 /\ session \in Nat /\ session >= 1
    BY <1>1 DEF NewSession, TypeOK, FirstSession
  <2>2. session' >= 1 /\ session' # 1
    BY <2>1
  <2>3. QED
    BY <2>2 DEF FirstSession
<1>2. CASE [RequestStep \/ CovStep \/ Environment]_vars
  <2>1. session' = session
    BY <1>2 DEF RequestStep, CovStep, Environment, ReadNegativeHit, ReadCacheHit, ReadSend,
                WriteSend, Accept, Discard, Timeout, Notify, CallbackReturn, CallbackThrow,
                SubscribeSend, UnsubscribeSend, Expire, DeviceChange, Serve, vars
  <2>2. session = 1 => SessionInv'
    BY <1>2, SessionStep DEF FirstSession
  <2>3. QED
    BY <1>2, <2>1, <2>2 DEF FirstSession
<1>3. QED
  BY <1>1, <1>2 DEF Next

LEMMA OwnStep ==
    ASSUME TypeOK, SessionInv, OwnUnlessLapped, session = 1,
           [RequestStep \/ CovStep \/ Environment]_vars
    PROVE  OwnUnlessLapped'
<1> USE DEF idVars, netVars, histVars
<1>a. ASSUME calls' = calls, last' = last PROVE OwnUnlessLapped'
  BY <1>a DEF OwnUnlessLapped, DrawsId
<1>b. ASSUME last'.status \notin {"ok", "error", "malformed"} PROVE OwnUnlessLapped'
  BY <1>b DEF OwnUnlessLapped
<1>c. Nothing.status \notin {"ok", "error", "malformed"}
  BY DEF Nothing
<1>1. ASSUME NEW k \in Keys, ReadNegativeHit(k) \/ ReadCacheHit(k) PROVE OwnUnlessLapped'
  BY <1>1, <1>b DEF ReadNegativeHit, ReadCacheHit, Nothing
<1>3. ASSUME NEW k \in Keys, NEW refresh \in BOOLEAN, ReadSend(k, refresh) \/ WriteSend(k)
      PROVE  OwnUnlessLapped'
  BY <1>3, <1>b, <1>c DEF ReadSend, WriteSend, Send
<1>4. ASSUME NEW m \in replies, Accept(m) PROVE OwnUnlessLapped'
  <2>1. last'.reply = m.txn /\ last'.txn = Top /\ calls' = calls
    BY <1>4 DEF Accept, EndRead, EndWrite, EndSubscription, Finish
  <2>2. Top \in Txns /\ m.txn \in Txns
    BY <1>4, TopIsCall DEF Accept, TypeOK
  <2>3. DrawsId(Top) /\ DrawsId(m.txn) => {Top, m.txn} \subseteq Drawers(Txns, calls)
    BY <2>2 DEF DrawsId, Drawers
  <2>4. DrawsId(Top) /\ DrawsId(m.txn) => m.txn = Top \/ m.txn >= Top + IdSpace
    BY <1>4, <2>3, MatchIsOwn DEF Accept
  <2>5. QED
    BY <2>1, <2>4 DEF OwnUnlessLapped, DrawsId
<1>5. ASSUME NEW m \in replies, Discard(m) PROVE OwnUnlessLapped'
  BY <1>5, <1>a DEF Discard
<1>6. CASE Timeout
  BY <1>6, <1>b DEF Timeout, Finish
<1>7. CASE Notify \/ CallbackReturn
  BY <1>7, <1>a DEF Notify, CallbackReturn
<1>8. CASE CallbackThrow
  BY <1>8, <1>a, <1>b DEF CallbackThrow, Finish
<1>9. CASE CovStep
  BY <1>9, <1>b, <1>c DEF CovStep, SubscribeSend, UnsubscribeSend, Send
<1>10. CASE Environment
  BY <1>10, <1>a DEF Environment, Expire, DeviceChange, Serve
<1>11. CASE UNCHANGED vars
  BY <1>11, <1>a DEF vars
<1>12. QED
  BY <1>1, <1>3, <1>4, <1>5, <1>6, <1>7, <1>8, <1>9, <1>10, <1>11 DEF RequestStep

(* Within the first PHP request, what readProperty or writeProperty takes    *)
(* for its answer is the answer to that very call, or to one that its        *)
(* callbacks made after a whole turn of the ids, however late or often the   *)
(* network delivers, however deep calls are nested and whatever is           *)
(* subscribed to in between.                                                 *)
THEOREM AnswersAreOwnOrLapped == Spec => []OwnUnlessLapped
<1> DEFINE Inv == TypeOK /\ FirstSession /\ OwnUnlessLapped
<1>1. Init => Inv
  BY TypeInit, SessionInit DEF Init, FirstSession, OwnUnlessLapped, Nothing
<1>2. Inv /\ [Next]_vars => Inv'
  <2> SUFFICES ASSUME Inv, [Next]_vars PROVE Inv'
    OBVIOUS
  <2>1. TypeOK' /\ FirstSession'
    BY TypeStep, FirstSessionStep
  <2>2. CASE session' = 1
    BY <2>1, <2>2, FirstSessionStep, OwnStep DEF FirstSession
  <2>3. CASE session' # 1
    BY <2>1, <2>3 DEF OwnUnlessLapped
  <2>4. QED
    BY <2>2, <2>3
<1>3. QED
  BY <1>1, <1>2, PTL DEF Spec

-----------------------------------------------------------------------------
(* A PHP request that does not subscribe draws all its ids.                  *)

OnlyDrawers == Drawers(Txns, calls) = Txns

LEMMA OneRequestIsOneSession ==
    [RequestStep \/ Environment]_vars => [RequestStep \/ CovStep \/ Environment]_vars
OBVIOUS

LEMMA OnlyDrawersInit == Init => OnlyDrawers
<1>1. Init => Txns = {}
  BY EmptySeq DEF Init, Now, Txns
<1>2. QED
  BY <1>1 DEF OnlyDrawers, Drawers

LEMMA OnlyDrawersStep ==
    ASSUME TypeOK, OnlyDrawers, [RequestStep \/ Environment]_vars
    PROVE  OnlyDrawers'
<1> USE DEF idVars, netVars, histVars
<1>a. ASSUME UNCHANGED calls PROVE OnlyDrawers'
  BY <1>a DEF OnlyDrawers, Drawers, Txns, Now
<1>1. ASSUME NEW op \in {"read", "write"}, NEW k \in Keys, Send(op, k, next_invoke_id)
      PROVE  OnlyDrawers'
  <2> DEFINE id == next_invoke_id
  <2>1. id \in 0..IdSpace-1 /\ op \in Ops /\ Send(op, k, id)
    BY <1>1, Numbers DEF Ops
  <2> HIDE DEF id
  <2>2. /\ Now \in Nat /\ Now' = Now + 1
        /\ \A t \in Txns : calls'[t] = calls[t]
        /\ calls'[Now + 1] = [op |-> op, key |-> k, id |-> id, floor |-> acked[k]]
    BY <2>1, SendTyped
  <2>3. Txns' = Txns \cup {Now + 1} /\ calls'[Now + 1].op = op
    BY <2>2 DEF Txns
  <2>4. QED
    BY <2>2, <2>3 DEF OnlyDrawers, Drawers
<1>2. ASSUME NEW k \in Keys, NEW refresh \in BOOLEAN, ReadSend(k, refresh) \/ WriteSend(k)
      PROVE  OnlyDrawers'
  BY <1>1, <1>2 DEF ReadSend, WriteSend
<1>3. ASSUME NEW k \in Keys, ReadNegativeHit(k) \/ ReadCacheHit(k) PROVE OnlyDrawers'
  BY <1>3, <1>a DEF ReadNegativeHit, ReadCacheHit
<1>4. ASSUME NEW m \in replies, Accept(m) \/ Discard(m) PROVE OnlyDrawers'
  BY <1>4, <1>a DEF Accept, Discard
<1>5. CASE Timeout \/ Notify \/ CallbackReturn \/ CallbackThrow \/ UNCHANGED vars
  BY <1>5, <1>a DEF Timeout, Notify, CallbackReturn, CallbackThrow, vars
<1>6. CASE Environment
  BY <1>6, <1>a DEF Environment, Expire, DeviceChange, Serve
<1>7. QED
  BY <1>2, <1>3, <1>4, <1>5, <1>6 DEF RequestStep

-----------------------------------------------------------------------------
(* Without a COV callback nothing runs while a call waits.  Then no value    *)
(* older than the last acknowledged write can come back from the device      *)
(* after the write emptied the read partitions.                              *)

AloneOnStack ==
    stack # <<>> => /\ Len(stack) = 1
                    /\ Top = Now /\ Top \in Txns
                    /\ calls[Top].floor = acked[calls[Top].key]

RepliesFresh ==
    \A m \in replies : /\ m.version <= device[calls[m.txn].key]
                       /\ m.kind = "complex" => /\ calls[m.txn].op = "read"
                                                /\ m.version >= calls[m.txn].floor

WriteInv ==
    /\ \A k \in Keys : acked[k] <= device[k]
    /\ \A t \in Txns : calls[t].floor <= device[calls[t].key]
    /\ RepliesFresh
    /\ AloneOnStack
    /\ CacheNotBehind
    /\ ReadNotBehind

LEMMA WriteInit == Init => WriteInv
<1> SUFFICES ASSUME Init PROVE WriteInv
  OBVIOUS
<1>1. Txns = {}
  BY EmptySeq DEF Init, Txns, Now
<1>2. QED
  BY <1>1 DEF Init, WriteInv, RepliesFresh, AloneOnStack, CacheNotBehind, ReadNotBehind, Nothing

(* A stack of one frame is empty after the frame is popped.                  *)
LEMMA PopSingle ==
    ASSUME TypeOK, AloneOnStack, stack # <<>>
    PROVE  Pop(stack) = <<>>
<1>1. stack \in Seq(Txns \cup {Callback})
  BY DEF TypeOK
<1>2. Pop(stack) \in Seq(Txns \cup {Callback}) /\ Len(Pop(stack)) = 0
  BY <1>1, PopProperties DEF AloneOnStack
<1>3. QED
  BY <1>2, EmptySeq

(* Issuing a call starts from an empty stack and takes the current write     *)
(* version as the floor of the call.                                         *)
LEMMA SendKeepsWrites ==
    ASSUME TypeOK, WriteInv, CanIssue, NEW op \in Ops, NEW k \in Keys, NEW id \in 0..IdSpace-1,
           Send(op, k, id), UNCHANGED <<acked, device, replies>>,
           \A x \in Keys : cache'[x] \in {cache[x], NotCached}
    PROVE  WriteInv'
<1>1. /\ Now \in Nat /\ Now' = Now + 1
      /\ stack' = Append(stack, Now + 1)
      /\ \A t \in Txns : calls'[t] = calls[t]
      /\ calls'[Now + 1] = [op |-> op, key |-> k, id |-> id, floor |-> acked[k]]
      /\ last' = Nothing
  BY SendTyped
<1>2. Txns' = Txns \cup {Now + 1}
  BY <1>1 DEF Txns
<1>3. stack = <<>>
  <2>1. stack # <<>> => Top \in Txns /\ Top # Callback
    BY <1>1 DEF WriteInv, AloneOnStack, Txns, Callback
  <2>2. QED
    BY <2>1 DEF CanIssue, Script, Waiting, CallOnTop, Top
<1>4. stack' = <<Now + 1>> /\ Len(stack') = 1 /\ Top' = Now + 1
  BY <1>1, <1>3 DEF Top
<1>5. AloneOnStack'
  BY <1>1, <1>2, <1>4 DEF AloneOnStack
<1>6. \A t \in Txns' : calls'[t].floor <= device'[calls'[t].key]
  BY <1>1, <1>2 DEF WriteInv
<1>7. RepliesFresh'
  <2>1. \A m \in replies : m.txn \in Txns
    BY DEF TypeOK
  <2>2. QED
    BY <1>1, <2>1 DEF WriteInv, RepliesFresh
<1>8. CacheNotBehind'
  BY DEF WriteInv, CacheNotBehind
<1>9. ReadNotBehind'
  BY <1>1 DEF ReadNotBehind, Nothing
<1>10. QED
  BY <1>5, <1>6, <1>7, <1>8, <1>9 DEF WriteInv

(* A read that takes a value takes its own.  A write, or a read that fails,   *)
(* may take the answer to a subscription, which changes no value.            *)
LEMMA AcceptKeepsWrites ==
    ASSUME TypeOK, SessionInv, WriteInv, NEW m \in replies, Accept(m)
    PROVE  WriteInv'
<1> DEFINE t == Top
           k == calls[t].key
<1>1. t \in Txns /\ calls[t] \in Call /\ k \in Keys
  BY TopIsCall DEF Accept, Call
<1>2. m.txn \in Txns /\ m.version \in Nat
  BY DEF TypeOK
<1>3. stack' = <<>>
  BY PopSingle DEF WriteInv, Accept, Waiting, CallOnTop
<1>4. /\ m.txn = t => m.version <= device[k]
      /\ calls[t].op = "read" /\ m.kind = "complex" => m.version >= calls[t].floor
  <2>1. /\ m.version <= device[calls[m.txn].key]
        /\ m.kind = "complex" => calls[m.txn].op = "read" /\ m.version >= calls[m.txn].floor
    BY DEF WriteInv, RepliesFresh
  <2>2. calls[t].op = "read" /\ calls[m.txn].op = "read" => m.txn = t
    <3>1. Top = Now /\ Now \in Nat /\ m.txn \in 1..Now
      BY <1>2, Numbers DEF WriteInv, AloneOnStack, Accept, Waiting, CallOnTop
    <3>2. m.txn < Top + IdSpace
      BY <3>1, IdSpaceAssumption
    <3>3. calls[t].op = "read" /\ calls[m.txn].op = "read" => m.txn = t \/ m.txn >= t + IdSpace
      BY <1>1, <1>2, MatchIsOwn DEF Accept, Drawers
    <3>4. m.txn \in Nat /\ t \in Nat /\ IdSpace \in Nat
      BY <3>1, IdSpaceAssumption
    <3>5. QED
      BY <3>2, <3>3, <3>4
  <2>3. QED
    BY <2>1, <2>2
<1>5. calls[t].floor = acked[k]
  BY DEF WriteInv, AloneOnStack, Accept, Waiting, CallOnTop
<1>6. UNCHANGED <<calls, replies, device>> /\ Txns' = Txns
  BY DEF Accept, netVars, Txns, Now
<1>7. AloneOnStack'
  BY <1>3 DEF AloneOnStack
<1>8. RepliesFresh' /\ \A u \in Txns' : calls'[u].floor <= device'[calls'[u].key]
  BY <1>6 DEF WriteInv, RepliesFresh
<1>9. CASE calls[t].op = "read" /\ EndRead(t, m)
  <2>1. acked' = acked
    BY <1>9 DEF EndRead
  <2>2. CacheNotBehind'
    <3>1. \A x \in Keys : cache'[x] = cache[x] \/ (x = k /\ m.kind = "complex" /\ cache'[x] = m.version)
      BY <1>9, <1>1 DEF EndRead, TypeOK
    <3>2. m.kind = "complex" => m.version >= acked[k]
      BY <1>4, <1>5, <1>9
    <3> HIDE DEF k, t
    <3> QED BY <2>1, <3>1, <3>2 DEF WriteInv, CacheNotBehind
  <2>3. ReadNotBehind'
    <3>1. last'.status # "cached" /\ (last'.status = "ok" => last'.version >= last'.floor)
      BY <1>9, <1>4 DEF EndRead, Finish
    <3>2. QED
      BY <3>1 DEF ReadNotBehind
  <2>4. QED
    BY <1>6, <1>7, <1>8, <2>1, <2>2, <2>3 DEF WriteInv
<1>10. CASE calls[t].op = "write" /\ EndWrite(t, m)
  <2>1. \A x \in Keys : acked'[x] = acked[x] \/ (x = k /\ m.txn = t /\ acked'[x] = m.version)
    BY <1>1, <1>10 DEF EndWrite, TypeOK
  <2>2. \A x \in Keys : acked'[x] <= device'[x]
    <3> HIDE DEF k, t
    <3> QED BY <1>4, <1>6, <2>1 DEF WriteInv
  <2>3. CacheNotBehind'
    <3>1. CASE UNCHANGED <<cache, acked>>
      BY <3>1 DEF WriteInv, CacheNotBehind
    <3>2. CASE cache' = [x \in Keys |-> NotCached]
      BY <3>2 DEF CacheNotBehind
    <3>3. QED
      BY <1>10, <3>1, <3>2 DEF EndWrite
  <2>4. ReadNotBehind'
    <3>1. last'.status # "cached" /\ last'.txn = t
      BY <1>10 DEF EndWrite, Finish
    <3>2. QED
      BY <1>6, <1>10, <3>1 DEF ReadNotBehind
  <2>5. QED
    BY <1>6, <1>7, <1>8, <2>2, <2>3, <2>4 DEF WriteInv
<1>11. CASE calls[t].op \in {"subscribe", "unsubscribe"} /\ EndSubscription(t, m)
  <2>1. ReadNotBehind'
    <3>1. last'.status # "cached" /\ last'.txn = t
      BY <1>11 DEF EndSubscription, Finish
    <3>2. QED
      BY <1>6, <1>11, <3>1 DEF ReadNotBehind
  <2>2. QED
    BY <1>6, <1>7, <1>8, <1>11, <2>1 DEF EndSubscription, WriteInv, CacheNotBehind
<1>12. QED
  BY <1>9, <1>10, <1>11 DEF Accept

LEMMA WriteStep ==
    ASSUME ~CovHandlerSet, TypeOK, SessionInv, WriteInv,
           [RequestStep \/ CovStep \/ Environment]_vars
    PROVE  WriteInv'
<1> USE DEF idVars, netVars, histVars
<1>a. ASSUME UNCHANGED <<calls, stack, replies, device, cache, acked, last>> PROVE WriteInv'
  BY <1>a DEF WriteInv, RepliesFresh, AloneOnStack, CacheNotBehind, ReadNotBehind, Txns, Now, Top
<1>b. ASSUME UNCHANGED <<calls, stack, replies, device, cache, acked>>, ReadNotBehind' PROVE WriteInv'
  BY <1>b DEF WriteInv, RepliesFresh, AloneOnStack, CacheNotBehind, Txns, Now, Top
<1>c. stack # <<>> => Top # Callback
  <2>1. Now \in Nat
    BY LenProperties DEF TypeOK, Now
  <2>2. QED
    BY <2>1 DEF WriteInv, AloneOnStack, Txns, Callback
<1>1. ASSUME NEW k \in Keys, ReadNegativeHit(k) PROVE WriteInv'
  <2>1. last'.status = "timeout"
    BY <1>1 DEF ReadNegativeHit, Nothing
  <2>2. QED
    BY <1>1, <1>b, <2>1 DEF ReadNegativeHit, ReadNotBehind
<1>2. ASSUME NEW k \in Keys, ReadCacheHit(k) PROVE WriteInv'
  <2>1. last'.version = cache[k] /\ last'.floor = acked[k]
    BY <1>2 DEF ReadCacheHit, Nothing
  <2>2. cache[k] >= acked[k]
    BY <1>2 DEF ReadCacheHit, WriteInv, CacheNotBehind
  <2>3. ReadNotBehind'
    BY <2>1, <2>2 DEF ReadNotBehind
  <2>4. QED
    BY <1>2, <1>b, <2>3 DEF ReadCacheHit
<1>3. ASSUME NEW k \in Keys, NEW refresh \in BOOLEAN, ReadSend(k, refresh) PROVE WriteInv'
  <2>1. \A x \in Keys : cache'[x] \in {cache[x], NotCached}
    BY <1>3 DEF ReadSend, ClearPartition
  <2>2. /\ CanIssue /\ Send("read", k, next_invoke_id) /\ "read" \in Ops
        /\ next_invoke_id \in 0..IdSpace-1 /\ UNCHANGED <<acked, device, replies>>
    BY <1>3 DEF ReadSend, Ops, TypeOK
  <2>3. QED
    BY <2>1, <2>2, SendKeepsWrites
<1>4. ASSUME NEW k \in Keys, WriteSend(k) PROVE WriteInv'
  <2>1. \A x \in Keys : cache'[x] \in {cache[x], NotCached}
    BY <1>4 DEF WriteSend
  <2>2. /\ CanIssue /\ Send("write", k, next_invoke_id) /\ "write" \in Ops
        /\ next_invoke_id \in 0..IdSpace-1 /\ UNCHANGED <<acked, device, replies>>
    BY <1>4 DEF WriteSend, Ops, TypeOK
  <2>3. QED
    BY <2>1, <2>2, SendKeepsWrites
<1>5. ASSUME NEW m \in replies, Accept(m) PROVE WriteInv'
  BY <1>5, AcceptKeepsWrites
<1>6. ASSUME NEW m \in replies, Discard(m) PROVE WriteInv'
  BY <1>6, <1>a DEF Discard
<1>7. CASE Timeout
  <2>1. last'.status = "timeout" /\ UNCHANGED <<calls, replies, device, cache, acked>>
    BY <1>7 DEF Timeout, Finish
  <2>2. stack' = <<>>
    BY <1>7, PopSingle DEF WriteInv, Timeout, Waiting, CallOnTop
  <2>3. QED
    BY <2>1, <2>2 DEF WriteInv, RepliesFresh, AloneOnStack, CacheNotBehind, ReadNotBehind,
                      Txns, Now
<1>8. ~Notify /\ ~CallbackReturn /\ ~CallbackThrow
  BY <1>c DEF Notify, CallbackReturn, CallbackThrow
<1>9. ASSUME NEW k \in Keys, Expire(k) PROVE WriteInv'
  <2>1. CacheNotBehind'
    BY <1>9 DEF Expire, WriteInv, CacheNotBehind, TypeOK
  <2>2. QED
    BY <1>9, <2>1 DEF Expire, WriteInv, RepliesFresh, AloneOnStack, ReadNotBehind, Txns, Now, Top
<1>d. ASSUME NEW k \in Keys, NEW v \in Nat, v >= device[k], device' = [device EXCEPT ![k] = v],
             \A m \in replies' : m \in replies
                 \/ /\ m.txn \in Txns /\ calls[m.txn].key = k /\ m.version = v
                    /\ m.kind = "complex" => calls[m.txn].op = "read",
             UNCHANGED <<calls, stack, cache, acked, last>>
      PROVE  WriteInv'
  <2>1. \A x \in Keys : device'[x] \in Nat /\ device[x] \in Nat /\ device'[x] >= device[x]
    BY <1>d DEF TypeOK
  <2>2. \A x \in Keys : acked'[x] <= device'[x]
    BY <1>d, <2>1 DEF WriteInv, TypeOK
  <2>3. \A t \in Txns : calls[t].key \in Keys /\ calls[t].floor \in Nat
    BY CallTyped
  <2>4. Txns' = Txns
    BY <1>d DEF Txns, Now
  <2>5. \A t \in Txns : calls[t].floor <= device'[calls[t].key]
    BY <2>1, <2>3 DEF WriteInv
  <2>6. RepliesFresh'
    <3>1. ASSUME NEW m \in replies
          PROVE  m.version <= device'[calls[m.txn].key]
                 /\ (m.kind = "complex" => /\ calls[m.txn].op = "read"
                                           /\ m.version >= calls[m.txn].floor)
      <4>1. m.txn \in Txns /\ m.version \in Nat
        BY DEF TypeOK
      <4>2. QED
        BY <2>1, <2>3, <4>1 DEF WriteInv, RepliesFresh
    <3>2. ASSUME NEW m \in replies', m.txn \in Txns, calls[m.txn].key = k, m.version = v
          PROVE  m.version <= device'[calls[m.txn].key] /\ m.version >= calls[m.txn].floor
      <4>1. device'[k] = v
        BY <1>d DEF TypeOK
      <4>2. QED
        BY <2>5, <3>2, <4>1
    <3>3. QED
      BY <1>d, <3>1, <3>2 DEF RepliesFresh
  <2>7. QED
    BY <1>d, <2>2, <2>4, <2>5, <2>6 DEF WriteInv, AloneOnStack, CacheNotBehind, ReadNotBehind, Top, Now
<1>10. ASSUME NEW k \in Keys, DeviceChange(k) PROVE WriteInv'
  <2> DEFINE v == device[k] + 1
  <2>1. v \in Nat /\ v >= device[k]
    BY DEF TypeOK
  <2>2. device' = [device EXCEPT ![k] = v] /\ UNCHANGED <<calls, stack, cache, acked, last>>
        /\ replies' = replies
    BY <1>10 DEF DeviceChange
  <2>3. QED
    <3> HIDE DEF v
    <3> QED BY <1>d, <2>1, <2>2
<1>11. ASSUME NEW t \in Txns, NEW ok \in BOOLEAN, Serve(t, ok) PROVE WriteInv'
  <2> DEFINE k == calls[t].key
             version == device[k] + (IF ok /\ calls[t].op = "write" THEN 1 ELSE 0)
  <2>1. k \in Keys
    BY CallTyped
  <2>2. device[k] \in Nat /\ version \in Nat /\ version >= device[k]
    BY <2>1 DEF TypeOK
  <2>3. /\ device' = [device EXCEPT ![k] = version]
        /\ UNCHANGED <<calls, stack, cache, acked, last>>
        /\ \A m \in replies' : m \in replies
             \/ /\ m.txn = t /\ m.version = version
                /\ m.kind = "complex" => calls[t].op = "read"
    BY <1>11 DEF Serve
  <2>4. \A m \in replies' : m \in replies
            \/ /\ m.txn \in Txns /\ calls[m.txn].key = k /\ m.version = version
               /\ m.kind = "complex" => calls[m.txn].op = "read"
    BY <2>3
  <2>5. QED
    <3> HIDE DEF k, version
    <3> QED BY <1>d, <2>1, <2>2, <2>3, <2>4
<1>12. CASE UNCHANGED vars
  BY <1>12, <1>a DEF vars
<1>13. ASSUME NEW k \in Keys, NEW p \in Pids, SubscribeSend(k, p) PROVE WriteInv'
  <2> DEFINE id == DrawPid(p).pid % IdSpace
  <2>1. id \in 0..IdSpace-1
    BY DrawPidTyped, IdTyped
  <2>2. /\ CanIssue /\ Send("subscribe", k, id) /\ "subscribe" \in Ops
        /\ UNCHANGED <<acked, device, replies, cache>>
    BY <1>13 DEF SubscribeSend, CanSubscribe, Ops
  <2> HIDE DEF id
  <2>3. QED
    BY <2>1, <2>2, SendKeepsWrites
<1>14. ASSUME NEW k \in Keys, NEW p \in 0..PidSpace-1, UnsubscribeSend(k, p) PROVE WriteInv'
  <2> DEFINE id == p % IdSpace
  <2>1. id \in 0..IdSpace-1
    BY IdTyped
  <2>2. /\ CanIssue /\ Send("unsubscribe", k, id) /\ "unsubscribe" \in Ops
        /\ UNCHANGED <<acked, device, replies, cache>>
    BY <1>14 DEF UnsubscribeSend, CanSubscribe, Ops
  <2> HIDE DEF id
  <2>3. QED
    BY <2>1, <2>2, SendKeepsWrites
<1>15. QED
  BY <1>1, <1>2, <1>3, <1>4, <1>5, <1>6, <1>7, <1>8, <1>9, <1>10, <1>11, <1>12, <1>13, <1>14
     DEF RequestStep, CovStep, Environment

(* Within one PHP request and without a COV callback, a successful           *)
(* writeProperty is never followed by a cached value older than the write,   *)
(* nor by a read that returns one, also when subscriptions take and lose     *)
(* answers in between.                                                       *)
THEOREM WritesAreNotForgotten ==
    ASSUME ~CovHandlerSet
    PROVE  OneSessionSpec => [](CacheNotBehind /\ ReadNotBehind)
<1>1. Init => WriteInv
  BY WriteInit
<1>2. /\ TypeOK /\ SessionInv /\ WriteInv
      /\ [RequestStep \/ CovStep \/ Environment]_vars
      => WriteInv'
  BY WriteStep
<1>3. WriteInv => CacheNotBehind /\ ReadNotBehind
  BY DEF WriteInv
<1>4. QED
  BY <1>1, <1>2, <1>3, SessionCorrect, PTL DEF OneSessionSpec

(* The call that waits is then the newest, so no later one can have lapped it. *)
LEMMA AnswerStep ==
    ASSUME TypeOK, SessionInv, OnlyDrawers, WriteInv, AnswerIsOwn, [RequestStep \/ Environment]_vars
    PROVE  AnswerIsOwn'
<1> USE DEF idVars, netVars, histVars
<1>a. ASSUME last' = last \/ last'.status \notin {"ok", "error", "malformed"} PROVE AnswerIsOwn'
  BY <1>a DEF AnswerIsOwn
<1>1. ASSUME NEW k \in Keys, ReadNegativeHit(k) \/ ReadCacheHit(k) PROVE AnswerIsOwn'
  BY <1>1, <1>a DEF ReadNegativeHit, ReadCacheHit, Nothing
<1>2. ASSUME NEW k \in Keys, NEW refresh \in BOOLEAN, ReadSend(k, refresh) \/ WriteSend(k)
      PROVE  AnswerIsOwn'
  BY <1>2, <1>a DEF ReadSend, WriteSend, Send, Nothing
<1>3. ASSUME NEW m \in replies, Accept(m) PROVE AnswerIsOwn'
  <2>1. last'.reply = m.txn /\ last'.txn = Top
    BY <1>3 DEF Accept, EndRead, EndWrite, EndSubscription, Finish
  <2>2. Top = Now /\ Top \in Txns /\ m.txn \in Txns
    BY <1>3 DEF WriteInv, AloneOnStack, Accept, Waiting, CallOnTop, TypeOK
  <2>3. m.txn = Top \/ m.txn >= Top + IdSpace
    BY <1>3, <2>2, MatchIsOwn DEF Accept, OnlyDrawers
  <2>4. m.txn = Top
    BY <2>2, <2>3, IdSpaceAssumption, Numbers
  <2>5. QED
    BY <2>1, <2>4 DEF AnswerIsOwn
<1>4. ASSUME NEW m \in replies, Discard(m) PROVE AnswerIsOwn'
  BY <1>4, <1>a DEF Discard
<1>5. CASE Timeout \/ Notify \/ CallbackReturn
  BY <1>5, <1>a DEF Timeout, Notify, CallbackReturn, Finish
<1>6. CASE CallbackThrow
  BY <1>6, <1>a DEF CallbackThrow, Finish
<1>7. CASE Environment
  BY <1>7, <1>a DEF Environment, Expire, DeviceChange, Serve
<1>8. CASE UNCHANGED vars
  BY <1>8, <1>a DEF vars
<1>9. QED
  BY <1>1, <1>2, <1>3, <1>4, <1>5, <1>6, <1>7, <1>8 DEF RequestStep

(* Within one PHP request that does not subscribe and without a COV callback *)
(* every answer is the own one.                                              *)
THEOREM AnswersAreOwn ==
    ASSUME ~CovHandlerSet
    PROVE  OneRequestSpec => []AnswerIsOwn
<1> DEFINE Inv == TypeOK /\ SessionInv /\ OnlyDrawers /\ WriteInv /\ AnswerIsOwn
<1>1. Init => Inv
  BY TypeInit, SessionInit, OnlyDrawersInit, WriteInit DEF AnswerIsOwn, Init, Nothing
<1>2. Inv /\ [RequestStep \/ Environment]_vars => Inv'
  BY OneRequestIsOneSession, OneSessionIsNext, TypeStep, SessionStep, OnlyDrawersStep, WriteStep, AnswerStep
<1>3. QED
  BY <1>1, <1>2, PTL DEF OneRequestSpec

-----------------------------------------------------------------------------
(* Without a COV callback no loop but its own runs while a call waits, so    *)
(* nobody takes the answer of a waiting call away: what arrives for it       *)
(* carries its id and ends it.  This needs no assumption on the ids: a late  *)
(* answer of another call may end the call, but never makes it time out.     *)

OneCall == stack # <<>> => Len(stack) = 1 /\ Top \in Txns

NothingLost ==
    /\ OneCall
    /\ answered = {}
    /\ ~last.answered

(* Only the call on the stack is pending.                                    *)
LEMMA OnlyTopPending ==
    ASSUME TypeOK, OneCall
    PROVE  Pending = IF stack = <<>> THEN {} ELSE {Top}
<1>1. stack \in Seq(Txns \cup {Callback}) /\ DOMAIN stack = 1..Len(stack) /\ Len(stack) \in Nat
  BY LenProperties DEF TypeOK
<1>2. CASE stack = <<>>
  <2>1. DOMAIN stack = {}
    BY <1>1, <1>2, EmptySeq
  <2>2. QED
    BY <1>2, <2>1 DEF Pending
<1>3. CASE stack # <<>>
  <2>1. Len(stack) = 1 /\ Top = stack[1] /\ Top \in Txns
    BY <1>3 DEF OneCall, Top
  <2>2. DOMAIN stack = {1}
    BY <1>1, <2>1
  <2>3. Callback \notin Txns
    BY DEF Callback, Txns
  <2>4. QED
    BY <1>3, <2>1, <2>2, <2>3 DEF Pending
<1>4. QED
  BY <1>2, <1>3

LEMMA PopOneCall ==
    ASSUME TypeOK, OneCall, stack # <<>>
    PROVE  Pop(stack) = <<>>
<1>1. stack \in Seq(Txns \cup {Callback})
  BY DEF TypeOK
<1>2. Pop(stack) \in Seq(Txns \cup {Callback}) /\ Len(Pop(stack)) = 0
  BY <1>1, PopProperties DEF OneCall
<1>3. QED
  BY <1>2, EmptySeq

(* A call is issued on an empty stack and is then the one on it.             *)
LEMMA SendLosesNothing ==
    ASSUME TypeOK, NothingLost, CanIssue, UNCHANGED answered,
           NEW op \in Ops, NEW k \in Keys, NEW id \in 0..IdSpace-1, Send(op, k, id)
    PROVE  NothingLost'
<1>1. /\ Now \in Nat /\ Now' = Now + 1
      /\ stack' = Append(stack, Now + 1)
      /\ last' = Nothing
  BY SendTyped
<1>2. stack = <<>>
  <2>1. stack # <<>> => Top \in Txns /\ Top # Callback
    BY <1>1 DEF NothingLost, OneCall, Txns, Callback
  <2>2. QED
    BY <2>1 DEF CanIssue, Script, Waiting, CallOnTop, Top
<1>3. stack' = <<Now + 1>> /\ Len(stack') = 1 /\ Top' = Now + 1
  BY <1>1, <1>2 DEF Top
<1>4. Now + 1 \in Txns'
  BY <1>1 DEF Txns
<1>5. QED
  BY <1>1, <1>3, <1>4 DEF NothingLost, OneCall, Nothing

LEMMA NothingLostStep ==
    ASSUME ~CovHandlerSet, TypeOK, NothingLost, [Next]_vars
    PROVE  NothingLost'
<1> USE DEF idVars, netVars, histVars
<1>a. ASSUME UNCHANGED <<calls, stack, answered, last>> PROVE NothingLost'
  BY <1>a DEF NothingLost, OneCall, Txns, Now, Top
<1>b. ASSUME stack' = <<>>, answered' = {}, ~last'.answered PROVE NothingLost'
  BY <1>b DEF NothingLost, OneCall
<1>c. stack # <<>> => Top # Callback
  <2>1. Now \in Nat
    BY LenProperties DEF TypeOK, Now
  <2>2. QED
    BY <2>1 DEF NothingLost, OneCall, Txns, Callback
<1>d. next_invoke_id \in 0..IdSpace-1
  BY DEF TypeOK
<1>1. ASSUME NEW k \in Keys, ReadNegativeHit(k) PROVE NothingLost'
  <2>1. ~last'.answered
    BY <1>1 DEF ReadNegativeHit, Nothing
  <2>2. QED
    BY <1>1, <2>1 DEF ReadNegativeHit, NothingLost, OneCall, Txns, Now, Top
<1>2. ASSUME NEW k \in Keys, ReadCacheHit(k) PROVE NothingLost'
  <2>1. ~last'.answered
    BY <1>2 DEF ReadCacheHit, Nothing
  <2>2. QED
    BY <1>2, <2>1 DEF ReadCacheHit, NothingLost, OneCall, Txns, Now, Top
<1>3. ASSUME NEW k \in Keys, NEW refresh \in BOOLEAN, ReadSend(k, refresh) PROVE NothingLost'
  <2>1. CanIssue /\ Send("read", k, next_invoke_id) /\ UNCHANGED answered /\ "read" \in Ops
    BY <1>3 DEF ReadSend, Ops
  <2>2. QED
    BY <2>1, <1>d, SendLosesNothing
<1>4. ASSUME NEW k \in Keys, WriteSend(k) PROVE NothingLost'
  <2>1. CanIssue /\ Send("write", k, next_invoke_id) /\ UNCHANGED answered /\ "write" \in Ops
    BY <1>4 DEF WriteSend, Ops
  <2>2. QED
    BY <2>1, <1>d, SendLosesNothing
<1>5. ASSUME NEW k \in Keys, NEW p \in Pids, SubscribeSend(k, p) PROVE NothingLost'
  <2> DEFINE id == DrawPid(p).pid % IdSpace
  <2>1. id \in 0..IdSpace-1
    BY DrawPidTyped, IdTyped, PidSpaceAssumption
  <2>2. CanIssue /\ Send("subscribe", k, id) /\ UNCHANGED answered /\ "subscribe" \in Ops
    BY <1>5 DEF SubscribeSend, CanSubscribe, Ops
  <2> HIDE DEF id
  <2>3. QED
    BY <2>1, <2>2, SendLosesNothing
<1>6. ASSUME NEW k \in Keys, NEW p \in 0..PidSpace-1, UnsubscribeSend(k, p) PROVE NothingLost'
  <2> DEFINE id == p % IdSpace
  <2>1. id \in 0..IdSpace-1
    BY IdTyped, PidSpaceAssumption
  <2>2. CanIssue /\ Send("unsubscribe", k, id) /\ UNCHANGED answered /\ "unsubscribe" \in Ops
    BY <1>6 DEF UnsubscribeSend, CanSubscribe, Ops
  <2> HIDE DEF id
  <2>3. QED
    BY <2>1, <2>2, SendLosesNothing
<1>7. ASSUME NEW m \in replies, Accept(m) PROVE NothingLost'
  <2>1. stack # <<>> /\ Pending = {Top}
    BY <1>7, OnlyTopPending DEF NothingLost, Accept, Waiting, CallOnTop
  <2>2. stack' = <<>>
    BY <1>7, <2>1, PopOneCall DEF NothingLost, Accept
  <2>3. answered' = {}
    BY <1>7, <2>1 DEF NothingLost, Accept
  <2>4. ~last'.answered
    <3>1. PICK status, reply, version : Finish(Top, status, reply, version)
      BY <1>7 DEF Accept, EndRead, EndWrite, EndSubscription
    <3>2. QED
      BY <3>1 DEF NothingLost, Finish
  <2>5. QED
    BY <2>2, <2>3, <2>4, <1>b
<1>8. ASSUME NEW m \in replies, Discard(m) PROVE NothingLost'
  <2>1. {m.txn} \cap Pending = {}
    <3>1. CASE stack = <<>>
      BY <3>1, OnlyTopPending DEF NothingLost
    <3>2. CASE stack # <<>>
      <4>1. Waiting /\ Pending = {Top}
        BY <3>2, <1>c, OnlyTopPending DEF NothingLost, Waiting, CallOnTop, Top
      <4>2. m.txn # Top
        BY <1>8, <4>1 DEF Discard, Matches
      <4>3. QED
        BY <4>1, <4>2
    <3>3. QED
      BY <3>1, <3>2
  <2>2. UNCHANGED <<calls, stack, answered, last>>
    BY <1>8, <2>1 DEF Discard
  <2>3. QED
    BY <2>2, <1>a
<1>9. CASE Timeout
  <2>1. stack' = <<>>
    BY <1>9, PopOneCall DEF NothingLost, Timeout, Waiting, CallOnTop
  <2>2. answered' = {} /\ ~last'.answered
    BY <1>9 DEF NothingLost, Timeout, Finish
  <2>3. QED
    BY <2>1, <2>2, <1>b
<1>10. ~Notify /\ ~CallbackReturn /\ ~CallbackThrow
  BY <1>c DEF Notify, CallbackReturn, CallbackThrow
<1>11. CASE NewSession
  BY <1>11, <1>a DEF NewSession
<1>12. ASSUME NEW k \in Keys, Expire(k) PROVE NothingLost'
  BY <1>12, <1>a DEF Expire
<1>13. ASSUME NEW k \in Keys, DeviceChange(k) PROVE NothingLost'
  BY <1>13, <1>a DEF DeviceChange
<1>14. ASSUME NEW t \in Txns, NEW ok \in BOOLEAN, Serve(t, ok) PROVE NothingLost'
  BY <1>14, <1>a DEF Serve
<1>15. CASE UNCHANGED vars
  BY <1>15, <1>a DEF vars
<1>16. QED
  BY <1>1, <1>2, <1>3, <1>4, <1>5, <1>6, <1>7, <1>8, <1>9, <1>10, <1>11, <1>12, <1>13, <1>14,
     <1>15 DEF Next, RequestStep, CovStep, Environment

(* Without a COV callback readProperty and writeProperty throw a             *)
(* TimeoutException only if no answer arrived while they waited: no loop     *)
(* swallows it, in any PHP request and whatever ids the answers carry.       *)
THEOREM TimeoutsAreTrue ==
    ASSUME ~CovHandlerSet
    PROVE  Spec => []TimeoutMeansUnanswered
<1>1. Init => NothingLost
  BY DEF Init, NothingLost, OneCall, Nothing
<1>2. TypeOK /\ NothingLost /\ [Next]_vars => NothingLost'
  BY NothingLostStep
<1>3. NothingLost => TimeoutMeansUnanswered
  BY DEF NothingLost, TimeoutMeansUnanswered
<1>4. QED
  BY <1>1, <1>2, <1>3, TypeCorrect, PTL DEF Spec

-----------------------------------------------------------------------------
(* A read is sent only if its key carries no negative marker, or after the   *)
(* refresh has emptied the NEGATIVE partition, and while it waits nothing    *)
(* else adds one.  So an answer never leaves a marker behind.                *)

MarkersTrue ==
    /\ NegativeReflectsLastRead
    /\ stack # <<>> /\ calls[Top].op = "read" => calls[Top].key \notin negative

(* A call is issued with the markers that are left.                          *)
LEMMA SendKeepsMarkers ==
    ASSUME TypeOK, NothingLost, MarkersTrue, CanIssue, UNCHANGED lastRead,
           NEW op \in Ops, NEW k \in Keys, NEW id \in 0..IdSpace-1, Send(op, k, id),
           negative' \subseteq negative, op = "read" => k \notin negative'
    PROVE  MarkersTrue'
<1>1. /\ Now \in Nat
      /\ stack' = Append(stack, Now + 1)
      /\ calls'[Now + 1] = [op |-> op, key |-> k, id |-> id, floor |-> acked[k]]
  BY SendTyped
<1>2. stack = <<>>
  <2>1. stack # <<>> => Top \in Txns /\ Top # Callback
    BY <1>1 DEF NothingLost, OneCall, Txns, Callback
  <2>2. QED
    BY <2>1 DEF CanIssue, Script, Waiting, CallOnTop, Top
<1>3. Top' = Now + 1
  BY <1>1, <1>2 DEF Top
<1>4. QED
  BY <1>1, <1>3 DEF MarkersTrue, NegativeReflectsLastRead

LEMMA MarkersStep ==
    ASSUME ~CovHandlerSet, TypeOK, NothingLost, MarkersTrue, [Next]_vars
    PROVE  MarkersTrue'
<1> USE DEF idVars, netVars, histVars
<1>a. ASSUME UNCHANGED <<calls, stack, lastRead>>, negative' \subseteq negative PROVE MarkersTrue'
  BY <1>a DEF MarkersTrue, NegativeReflectsLastRead, Top
<1>b. ASSUME stack' = <<>>, NegativeReflectsLastRead' PROVE MarkersTrue'
  BY <1>b DEF MarkersTrue
<1>c. stack # <<>> => Top # Callback
  <2>1. Now \in Nat
    BY LenProperties DEF TypeOK, Now
  <2>2. QED
    BY <2>1 DEF NothingLost, OneCall, Txns, Callback
<1>d. next_invoke_id \in 0..IdSpace-1
  BY DEF TypeOK
<1>e. ASSUME NEW p \in 0..PidSpace-1 PROVE p % IdSpace \in 0..IdSpace-1
  BY <1>e, IdTyped, PidSpaceAssumption
<1>1. ASSUME NEW k \in Keys, ReadNegativeHit(k) PROVE MarkersTrue'
  BY <1>1, <1>a DEF ReadNegativeHit
<1>2. ASSUME NEW k \in Keys, ReadCacheHit(k) PROVE MarkersTrue'
  BY <1>2, <1>a DEF ReadCacheHit
<1>3. ASSUME NEW k \in Keys, NEW refresh \in BOOLEAN, ReadSend(k, refresh) PROVE MarkersTrue'
  <2>1. /\ CanIssue /\ Send("read", k, next_invoke_id) /\ UNCHANGED lastRead /\ "read" \in Ops
        /\ negative' \subseteq negative /\ k \notin negative'
    BY <1>3 DEF ReadSend, Ops
  <2>2. QED
    BY <2>1, <1>d, SendKeepsMarkers
<1>4. ASSUME NEW k \in Keys, WriteSend(k) PROVE MarkersTrue'
  <2>1. /\ CanIssue /\ Send("write", k, next_invoke_id) /\ UNCHANGED lastRead /\ "write" \in Ops
        /\ negative' \subseteq negative
    BY <1>4 DEF WriteSend, Ops
  <2>2. QED
    BY <2>1, <1>d, SendKeepsMarkers
<1>5. ASSUME NEW k \in Keys, NEW p \in Pids, SubscribeSend(k, p) PROVE MarkersTrue'
  <2> DEFINE id == DrawPid(p).pid % IdSpace
  <2>1. id \in 0..IdSpace-1
    BY <1>e, DrawPidTyped
  <2>2. /\ CanIssue /\ Send("subscribe", k, id) /\ UNCHANGED lastRead /\ "subscribe" \in Ops
        /\ negative' \subseteq negative
    BY <1>5 DEF SubscribeSend, CanSubscribe, Ops
  <2> HIDE DEF id
  <2>3. QED
    BY <2>1, <2>2, SendKeepsMarkers
<1>6. ASSUME NEW k \in Keys, NEW p \in 0..PidSpace-1, UnsubscribeSend(k, p) PROVE MarkersTrue'
  <2> DEFINE id == p % IdSpace
  <2>1. id \in 0..IdSpace-1
    BY <1>e
  <2>2. /\ CanIssue /\ Send("unsubscribe", k, id) /\ UNCHANGED lastRead /\ "unsubscribe" \in Ops
        /\ negative' \subseteq negative
    BY <1>6 DEF UnsubscribeSend, CanSubscribe, Ops
  <2> HIDE DEF id
  <2>3. QED
    BY <2>1, <2>2, SendKeepsMarkers
<1>7. ASSUME NEW m \in replies, Accept(m) PROVE MarkersTrue'
  <2>1. stack # <<>> /\ calls[Top].key \in Keys
    BY <1>7, TopIsCall DEF Accept, Waiting, CallOnTop, Call
  <2>2. stack' = <<>>
    BY <1>7, <2>1, PopOneCall DEF NothingLost, Accept
  <2>3. CASE calls[Top].op = "read" /\ EndRead(Top, m)
    <3>1. /\ negative' = negative /\ calls[Top].key \notin negative
          /\ \A k \in Keys \ {calls[Top].key} : lastRead'[k] = lastRead[k]
      BY <2>1, <2>3 DEF EndRead, MarkersTrue, TypeOK
    <3>2. negative \subseteq Keys
      BY DEF TypeOK
    <3>3. QED
      BY <2>2, <3>1, <3>2, <1>b DEF MarkersTrue, NegativeReflectsLastRead
  <2>4. CASE EndWrite(Top, m) \/ EndSubscription(Top, m)
    <3>1. negative' \subseteq negative /\ lastRead' = lastRead
      BY <2>4 DEF EndWrite, EndSubscription
    <3>2. QED
      BY <2>2, <3>1, <1>b DEF MarkersTrue, NegativeReflectsLastRead
  <2>5. QED
    BY <1>7, <2>3, <2>4 DEF Accept
<1>8. ASSUME NEW m \in replies, Discard(m) PROVE MarkersTrue'
  BY <1>8, <1>a DEF Discard
<1>9. CASE Timeout
  <2>1. stack' = <<>> /\ calls[Top].key \in Keys
    BY <1>9, PopOneCall, TopIsCall DEF NothingLost, Timeout, Waiting, CallOnTop, Call
  <2>2. \A k \in negative' : lastRead'[k] = "timeout"
    BY <1>9, <2>1 DEF Timeout, MarkersTrue, NegativeReflectsLastRead, TypeOK
  <2>3. QED
    BY <2>1, <2>2, <1>b DEF NegativeReflectsLastRead
<1>10. ~Notify /\ ~CallbackReturn /\ ~CallbackThrow
  BY <1>c DEF Notify, CallbackReturn, CallbackThrow
<1>11. CASE NewSession
  BY <1>11, <1>a DEF NewSession
<1>12. ASSUME NEW k \in Keys, Expire(k) PROVE MarkersTrue'
  BY <1>12, <1>a DEF Expire
<1>13. ASSUME NEW k \in Keys, DeviceChange(k) PROVE MarkersTrue'
  BY <1>13, <1>a DEF DeviceChange
<1>14. ASSUME NEW t \in Txns, NEW ok \in BOOLEAN, Serve(t, ok) PROVE MarkersTrue'
  BY <1>14, <1>a DEF Serve
<1>15. CASE UNCHANGED vars
  BY <1>15, <1>a DEF vars
<1>16. QED
  BY <1>1, <1>2, <1>3, <1>4, <1>5, <1>6, <1>7, <1>8, <1>9, <1>10, <1>11, <1>12, <1>13, <1>14,
     <1>15 DEF Next, RequestStep, CovStep, Environment

(* Without a COV callback the NEGATIVE partition answers a readProperty only *)
(* while the latest read of this property that came to an end timed out.     *)
THEOREM MarkersAreCurrent ==
    ASSUME ~CovHandlerSet
    PROVE  Spec => []NegativeReflectsLastRead
<1>1. Init => NothingLost /\ MarkersTrue
  BY DEF Init, NothingLost, OneCall, Nothing, MarkersTrue, NegativeReflectsLastRead
<1>2. TypeOK /\ NothingLost /\ MarkersTrue /\ [Next]_vars => NothingLost' /\ MarkersTrue'
  BY NothingLostStep, MarkersStep
<1>3. MarkersTrue => NegativeReflectsLastRead
  BY DEF MarkersTrue
<1>4. QED
  BY <1>1, <1>2, <1>3, TypeCorrect, PTL DEF Spec
=============================================================================
