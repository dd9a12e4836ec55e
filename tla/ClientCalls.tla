---------------------------- MODULE ClientCalls ----------------------------
(***************************************************************************)
(* The synchronous request/response side of Bacnet\Client: readProperty,   *)
(* writeProperty, subscribeCOV, unsubscribeCOV and poll, the receive loop  *)
(* php_bacnet_send_and_wait they share, the invoke-id counters, the read   *)
(* and negative cache of one process, and the PHP COV callback that the    *)
(* receive loop may run while a call waits (and that may itself call).     *)
(*                                                                         *)
(* The PHP process is single-threaded: only the top of the call stack      *)
(* moves.  The network and the devices are external.  A datagram, once     *)
(* sent, stays in the network and may be delivered any number of times or  *)
(* never: that covers loss, duplication, delay and reordering.             *)
(***************************************************************************)
EXTENDS Integers, Sequences, FiniteSets

CONSTANTS
    Keys,          \* remote properties: device address, object, property, index
    PartitionOf,   \* the cache partition of a key, or NoPartition
    NoPartition,   \* PHP_BACNET_CACHE_PARTITION_COUNT: never cached
    NotCached,     \* the cache holds nothing for a key
    IdSpace,       \* number of invoke ids (256: uint8_t)
    PidSpace,      \* number of subscriber process ids (2^32: uint32_t)
    CovHandlerSet, \* onCovNotification() has installed a callback
    Lifetime,      \* a reply is lost once this many later calls were made
    MaxCalls, MaxSubscriptions, MaxVersion, MaxNotifications, MaxDepth, MaxSessions   \* bounds

ASSUME IdSpaceAssumption == IdSpace \in Nat \ {0, 1}
ASSUME PidSpaceAssumption == PidSpace \in Nat \ {0, 1}
ASSUME LifetimeAssumption == Lifetime \in 1..IdSpace
ASSUME BoundsAssumption ==
    {MaxCalls, MaxSubscriptions, MaxVersion, MaxNotifications, MaxDepth, MaxSessions} \subseteq Nat
ASSUME HandlerAssumption == CovHandlerSet \in BOOLEAN
ASSUME NotCachedAssumption == NotCached \notin Nat

VARIABLES
    next_invoke_id,      \* BACNET_G(next_invoke_id)
    next_cov_process_id, \* client->next_cov_process_id
    calls,     \* every call sent so far, in order; its index is its transaction
    stack,     \* the PHP/C call stack: transactions, and Callback frames
    replies,   \* the replies the devices have sent
    device,    \* how often each remote property has changed
    cache,     \* the version of each property held by the read partitions
    negative,  \* keys with a marker in the NEGATIVE partition
    acked,     \* history: version of the latest write reported successful
    answered,  \* history: pending calls whose reply this process has received
    lastRead,  \* history: how the last network read of a key ended
    last,      \* history: the outcome of the call that ended last
    notifications, \* number of COV notifications delivered to the callback
    session    \* number of PHP requests begun (RINIT)

netVars == <<replies, device>>
idVars == <<next_invoke_id, next_cov_process_id>>
histVars == <<acked, lastRead, last>>
vars == <<next_invoke_id, next_cov_process_id, calls, stack, replies, device,
          cache, negative, acked, answered, lastRead, last,
          notifications, session>>

Ops == {"read", "write", "subscribe", "unsubscribe"}
Kinds == {"complex", "simple", "error"}
Status == {"none", "ok", "cached", "timeout", "error", "malformed", "exception"}
Callback == 0           \* stack frame of the PHP COV callback
Now == Len(calls)
Txns == 1..Now
Reply == [txn : Nat \ {0}, kind : Kinds, version : Nat]
Call == [op : Ops, key : Keys, id : 0..IdSpace-1, floor : Nat]
Outcome == [txn : Nat, status : Status, reply : Nat, version : Nat, floor : Nat, answered : BOOLEAN]

Top == stack[Len(stack)]
Pop(s) == SubSeq(s, 1, Len(s) - 1)
Pending == {stack[i] : i \in DOMAIN stack} \ {Callback}
CallOnTop(s) == s # <<>> /\ s[Len(s)] # Callback
Waiting == CallOnTop(stack)
Script == ~Waiting     \* PHP code runs, at the top level or in the callback

\* Environment bound: a datagram survives fewer than Lifetime later calls.  How many
\* calls a callback makes while another call waits has no bound but MaxCalls.
Recent(t) == Now - t < Lifetime

Nothing == [txn |-> 0, status |-> "none", reply |-> 0, version |-> 0, floor |-> 0,
            answered |-> FALSE]
Finish(t, status, reply, version) ==
    last' = [txn |-> t, status |-> status, reply |-> reply, version |-> version,
             floor |-> calls[t].floor, answered |-> t \in answered]

-----------------------------------------------------------------------------
(* Issuing a call: encode with an invoke id and hand the PDU to the socket. *)

CanIssue ==
    /\ Script
    /\ Now < MaxCalls
    /\ Len(stack) < MaxDepth

Send(op, k, id) ==
    /\ calls' = Append(calls, [op |-> op, key |-> k, id |-> id, floor |-> acked[k]])
    /\ stack' = Append(stack, Now + 1)
    /\ last' = Nothing

\* php_bacnet_cache_refresh / _invalidate: the whole partition goes.
ClearPartition(p) == [k \in Keys |-> IF PartitionOf[k] = p THEN NotCached ELSE cache[k]]

\* readProperty answered by the NEGATIVE partition: TimeoutException, no I/O.
ReadNegativeHit(k) ==
    /\ Script
    /\ k \in negative
    /\ last' = [Nothing EXCEPT !.status = "timeout"]
    /\ UNCHANGED <<idVars, calls, stack, netVars, cache, negative, acked, answered,
                   lastRead, notifications, session>>

\* readProperty answered by the partition of the key.
ReadCacheHit(k) ==
    /\ Script
    /\ k \notin negative
    /\ PartitionOf[k] # NoPartition
    /\ cache[k] # NotCached
    /\ last' = [Nothing EXCEPT !.status = "cached", !.version = cache[k], !.floor = acked[k]]
    /\ UNCHANGED <<idVars, calls, stack, netVars, cache, negative, acked, answered,
                   lastRead, notifications, session>>

\* Mutant of ReadSend: the id counter overflows.
ReadSendNoWrap(k, refresh) ==
    /\ CanIssue
    /\ refresh \/ (k \notin negative /\ (PartitionOf[k] = NoPartition \/ cache[k] = NotCached))
    /\ Send("read", k, next_invoke_id)
    /\ next_invoke_id' = next_invoke_id + 1
    /\ UNCHANGED <<next_cov_process_id, replies, device, cache, negative, acked, lastRead,
                   answered, notifications, session>>

\* readProperty that must ask the device; refresh empties the partition of the
\* key and the NEGATIVE partition first.
ReadSend(k, refresh) ==
    /\ CanIssue
    /\ refresh \/ (k \notin negative /\ (PartitionOf[k] = NoPartition \/ cache[k] = NotCached))
    /\ cache' = IF refresh /\ PartitionOf[k] # NoPartition
                THEN ClearPartition(PartitionOf[k]) ELSE cache
    /\ negative' = IF refresh THEN {} ELSE negative
    /\ Send("read", k, next_invoke_id)
    /\ next_invoke_id' = (next_invoke_id + 1) % IdSpace
    /\ UNCHANGED <<next_cov_process_id, replies, device, acked, lastRead, answered,
                   notifications, session>>

WriteSend(k) ==
    /\ CanIssue
    /\ Send("write", k, next_invoke_id)
    /\ next_invoke_id' = (next_invoke_id + 1) % IdSpace
    /\ UNCHANGED <<next_cov_process_id, replies, device, cache, negative, acked, lastRead,
                   answered, notifications, session>>

\* The process id of a subscription and the counter after drawing it.  0 is
\* skipped once: an explicit id may truncate to 0 and is then drawn as well.
AutoPid == -1
Pids == AutoPid..PidSpace-1
DrawPid(explicit) ==
    LET n == next_cov_process_id
        after(p) == (p + 1) % PidSpace
    IN  IF explicit \notin {AutoPid, 0} THEN [pid |-> explicit, next |-> n]
        ELSE IF explicit = AutoPid /\ n = 0 THEN [pid |-> 1, next |-> after(1)]
        ELSE [pid |-> n, next |-> after(n)]

DrawsId(t) == calls[t].op \in {"read", "write"}     \* from next_invoke_id
CanSubscribe == CanIssue /\ Cardinality({t \in Txns : ~DrawsId(t)}) < MaxSubscriptions

\* The invoke id is the low byte of the process id, not next_invoke_id.
SubscribeSend(k, explicit) ==
    /\ CanSubscribe
    /\ Send("subscribe", k, DrawPid(explicit).pid % IdSpace)
    /\ next_cov_process_id' = DrawPid(explicit).next
    /\ UNCHANGED <<next_invoke_id, replies, device, cache, negative, acked, lastRead,
                   answered, notifications, session>>

UnsubscribeSend(k, pid) ==
    /\ CanSubscribe
    /\ Send("unsubscribe", k, pid % IdSpace)
    /\ UNCHANGED <<idVars, replies, device, cache, negative, acked, lastRead, answered,
                   notifications, session>>

-----------------------------------------------------------------------------
(* The receive loop of php_bacnet_send_and_wait and what its caller does    *)
(* with the result.  A reply is matched by its invoke id and nothing else.  *)

\* Mutants of Matches: no id check at all; Simple-ACKs are not recognised.
MatchesAny(m) == TRUE
MatchesNoSimple(m) == calls[m.txn].id = calls[Top].id /\ m.kind # "simple"

Matches(m) == calls[m.txn].id = calls[Top].id

\* exec_read_property: the value is cached under the key that was asked for.
EndRead(t, m) ==
    LET k == calls[t].key IN
    /\ lastRead' = [lastRead EXCEPT ![k] = IF m.kind = "complex" THEN "ok" ELSE "error"]
    /\ \/ /\ m.kind = "complex"
          /\ Finish(t, "ok", m.txn, m.version)
          /\ cache' = IF PartitionOf[k] = NoPartition THEN cache
                      ELSE [cache EXCEPT ![k] = m.version]
       \/ /\ m.kind = "simple"
          /\ Finish(t, "malformed", m.txn, 0)
          /\ UNCHANGED cache
       \/ /\ m.kind = "error"
          /\ Finish(t, "error", m.txn, 0)
          /\ UNCHANGED cache
    /\ UNCHANGED <<negative, acked>>

\* Mutant of EndWrite: the read partitions are not invalidated.
EndWriteKeepsCache(t, m) ==
    LET k == calls[t].key IN
    /\ Finish(t, IF m.kind = "error" THEN "error" ELSE "ok", m.txn, 0)
    /\ acked' = IF m.kind # "error" /\ m.txn = t /\ m.version > acked[k]
                THEN [acked EXCEPT ![k] = m.version] ELSE acked
    /\ UNCHANGED <<cache, negative, lastRead>>

\* exec_write_property: success empties STATE, OBJECT, OBJECT_LIST and NEGATIVE.
EndWrite(t, m) ==
    LET k == calls[t].key IN
    /\ \/ /\ m.kind # "error"
          /\ Finish(t, "ok", m.txn, 0)
          /\ cache' = [x \in Keys |-> NotCached]
          /\ negative' = {}
          /\ acked' = IF m.txn = t /\ m.version > acked[k]
                      THEN [acked EXCEPT ![k] = m.version] ELSE acked
       \/ /\ m.kind = "error"
          /\ Finish(t, "error", m.txn, 0)
          /\ UNCHANGED <<cache, negative, acked>>
    /\ UNCHANGED lastRead

\* (un)subscribeCOV: any status but 0 is reported as a TimeoutException.
EndSubscription(t, m) ==
    /\ Finish(t, IF m.kind = "error" THEN "timeout" ELSE "ok", m.txn, 0)
    /\ UNCHANGED <<cache, negative, acked, lastRead>>

Accept(m) ==
    /\ Waiting
    /\ m \in replies /\ Recent(m.txn)
    /\ Matches(m)
    /\ answered' = (answered \cup ({m.txn} \cap Pending)) \ {Top}
    /\ stack' = Pop(stack)
    /\ \/ calls[Top].op = "read" /\ EndRead(Top, m)
       \/ calls[Top].op = "write" /\ EndWrite(Top, m)
       \/ calls[Top].op \in {"subscribe", "unsubscribe"} /\ EndSubscription(Top, m)
    /\ UNCHANGED <<idVars, calls, netVars, notifications, session>>

\* An answer to another invoke id goes to the unsolicited handler, which has no
\* use for it: it is gone.  Client::poll drops every answer the same way.
Discard(m) ==
    /\ m \in replies /\ Recent(m.txn)
    /\ Waiting => ~Matches(m)
    /\ answered' = answered \cup ({m.txn} \cap Pending)
    /\ UNCHANGED <<idVars, calls, stack, netVars, cache, negative, histVars,
                   notifications, session>>

\* Mutant of Timeout: a subscription has no deadline.
TimeoutNotForCov ==
    /\ Waiting
    /\ calls[Top].op \in {"read", "write"}
    /\ Finish(Top, "timeout", 0, 0)
    /\ stack' = Pop(stack)
    /\ negative' = IF calls[Top].op = "read" THEN negative \cup {calls[Top].key} ELSE negative
    /\ lastRead' = IF calls[Top].op = "read" THEN [lastRead EXCEPT ![calls[Top].key] = "timeout"]
                   ELSE lastRead
    /\ answered' = answered \ {Top}
    /\ UNCHANGED <<idVars, calls, netVars, cache, acked, notifications, session>>

\* The deadline passes (or the socket stays silent until it).
Timeout ==
    /\ Waiting
    /\ Finish(Top, "timeout", 0, 0)
    /\ stack' = Pop(stack)
    /\ \/ /\ calls[Top].op = "read"
          /\ negative' = negative \cup {calls[Top].key}
          /\ lastRead' = [lastRead EXCEPT ![calls[Top].key] = "timeout"]
       \/ /\ calls[Top].op # "read"
          /\ UNCHANGED <<negative, lastRead>>
    /\ answered' = answered \ {Top}
    /\ UNCHANGED <<idVars, calls, netVars, cache, acked, notifications, session>>

-----------------------------------------------------------------------------
(* COV notifications run the PHP callback inside whatever loop received them. *)

\* In the receive loop (dispatch_unsolicited) or in Client::poll.
Notify ==
    /\ CovHandlerSet
    /\ notifications < MaxNotifications
    /\ Len(stack) < MaxDepth
    /\ stack' = Append(stack, Callback)
    /\ notifications' = notifications + 1
    /\ UNCHANGED <<idVars, calls, netVars, cache, negative, histVars, answered, session>>

\* Mutant of CallbackReturn: the callback gives back the ids it has drawn.
CallbackReturnRewinds ==
    LET outer == Pop(stack) IN
    /\ stack # <<>> /\ Top = Callback
    /\ stack' = outer
    /\ next_invoke_id' = IF CallOnTop(outer) THEN (calls[outer[Len(outer)]].id + 1) % IdSpace
                         ELSE next_invoke_id
    /\ UNCHANGED <<next_cov_process_id, calls, netVars, cache, negative, histVars, answered,
                   notifications, session>>

CallbackReturn ==
    /\ stack # <<>> /\ Top = Callback
    /\ stack' = Pop(stack)
    /\ UNCHANGED <<idVars, calls, netVars, cache, negative, histVars, answered,
                   notifications, session>>

\* The callback throws: the loop returns -2 and the call it served ends, too.
CallbackThrow ==
    LET outer == Pop(stack) IN
    /\ stack # <<>> /\ Top = Callback
    /\ \/ /\ CallOnTop(outer)
          /\ stack' = Pop(outer)
          /\ LET t == outer[Len(outer)] IN
             /\ Finish(t, IF calls[t].op \in {"read", "write"} THEN "exception" ELSE "timeout", 0, 0)
             /\ answered' = answered \ {t}
       \/ /\ ~CallOnTop(outer)
          /\ stack' = outer
          /\ UNCHANGED <<last, answered>>
    /\ UNCHANGED <<idVars, calls, netVars, cache, negative, acked, lastRead,
                   notifications, session>>

-----------------------------------------------------------------------------
(* The end of a PHP request, the passing of time, the devices.              *)

\* RINIT of the next PHP request: the counter restarts, the client is a new one;
\* the shared cache and whatever the network still holds survive.
NewSession ==
    /\ stack = <<>>
    /\ session < MaxSessions
    /\ next_invoke_id' = 1
    /\ next_cov_process_id' = 1
    /\ session' = session + 1
    /\ UNCHANGED <<calls, stack, netVars, cache, negative, histVars, answered, notifications>>

Expire(k) ==
    /\ \/ cache' = [cache EXCEPT ![k] = NotCached] /\ UNCHANGED negative
       \/ negative' = negative \ {k} /\ UNCHANGED cache
    /\ UNCHANGED <<idVars, calls, stack, netVars, histVars, answered, notifications, session>>

\* A device serves a request, perhaps not for the first time, and answers.
Serve(t, ok) ==
    LET k == calls[t].key
        writes == ok /\ calls[t].op = "write"
        version == device[k] + (IF writes THEN 1 ELSE 0)
        kind == IF ~ok THEN "error" ELSE IF calls[t].op = "read" THEN "complex" ELSE "simple"
    IN  /\ Recent(t)
        /\ version <= MaxVersion
        /\ device' = [device EXCEPT ![k] = version]
        /\ replies' = replies \cup {[txn |-> t, kind |-> kind, version |-> version]}
        /\ UNCHANGED <<idVars, calls, stack, cache, negative, histVars, answered,
                       notifications, session>>

\* The property changes by itself, or another client writes it.
DeviceChange(k) ==
    /\ device[k] < MaxVersion
    /\ device' = [device EXCEPT ![k] = @ + 1]
    /\ UNCHANGED <<idVars, calls, stack, replies, cache, negative, histVars,
                   answered, notifications, session>>

-----------------------------------------------------------------------------
Init ==
    /\ next_invoke_id = 1 /\ next_cov_process_id = 1
    /\ calls = <<>> /\ stack = <<>>
    /\ replies = {}
    /\ device = [k \in Keys |-> 0]
    /\ cache = [k \in Keys |-> NotCached]
    /\ negative = {}
    /\ acked = [k \in Keys |-> 0]
    /\ answered = {}
    /\ lastRead = [k \in Keys |-> "none"]
    /\ last = Nothing
    /\ notifications = 0 /\ session = 1

\* What one PHP request does when it never subscribes.
RequestStep ==
    \/ \E k \in Keys : ReadNegativeHit(k)
    \/ \E k \in Keys : ReadCacheHit(k)
    \/ \E k \in Keys, refresh \in BOOLEAN : ReadSend(k, refresh)
    \/ \E k \in Keys : WriteSend(k)
    \/ \E m \in replies : Accept(m)
    \/ \E m \in replies : Discard(m)
    \/ Timeout
    \/ Notify
    \/ CallbackReturn
    \/ CallbackThrow

CovStep ==
    \/ \E k \in Keys, p \in Pids : SubscribeSend(k, p)
    \/ \E k \in Keys, p \in 0..PidSpace-1 : UnsubscribeSend(k, p)

Environment ==
    \/ \E k \in Keys : Expire(k)
    \/ \E k \in Keys : DeviceChange(k)
    \/ \E t \in Txns, ok \in BOOLEAN : Serve(t, ok)

Next == RequestStep \/ CovStep \/ NewSession \/ Environment

Spec == Init /\ [][Next]_vars

\* One PHP request: the invoke ids do not start again.
OneSessionSpec == Init /\ [][RequestStep \/ CovStep \/ Environment]_vars

\* One PHP request that reads and writes only: the setting in which an invoke
\* id identifies a call.
OneRequestSpec == Init /\ [][RequestStep \/ Environment]_vars

\* The deadline is checked on every turn of the loop, and callbacks end.
FairSpec == Spec /\ WF_vars(Timeout) /\ WF_vars(CallbackReturn)

-----------------------------------------------------------------------------
\* Every variable keeps its type; both counters stay inside their C types and
\* every reply belongs to a call that was made.
TypeOK ==
    /\ next_invoke_id \in 0..IdSpace-1
    /\ next_cov_process_id \in 0..PidSpace-1
    /\ calls \in Seq(Call)
    /\ stack \in Seq(Txns \cup {Callback})
    /\ replies \subseteq [txn : Txns, kind : Kinds, version : Nat]
    /\ device \in [Keys -> Nat]
    /\ cache \in [Keys -> Nat \cup {NotCached}]
    /\ negative \subseteq Keys
    /\ acked \in [Keys -> Nat]
    /\ answered \subseteq Txns
    /\ lastRead \in [Keys -> {"none", "ok", "error", "timeout"}]
    /\ last \in Outcome /\ last.txn \in 0..Now
    /\ notifications \in Nat /\ session \in Nat

\* Without a COV callback, whatever a call reports as its answer is the answer to that
\* very call, and not a late answer to an earlier one with the same invoke id.
AnswerIsOwn ==
    last.status \in {"ok", "error", "malformed"} => last.reply = last.txn

\* With callbacks, too: within a PHP request a read or write takes no answer of one
\* before it, and that of a later one only if the callbacks it waited for have drawn a
\* whole round of ids, so that next_invoke_id has come back to the id of the call.
OwnUnlessLapped ==
    session = 1 /\ last.status \in {"ok", "error", "malformed"}
    /\ DrawsId(last.txn) /\ DrawsId(last.reply)
    => last.reply = last.txn \/ last.reply >= last.txn + IdSpace

\* readProperty or writeProperty throws a TimeoutException only if the answer of
\* the device did not arrive while the call waited: no loop may swallow it.
TimeoutMeansUnanswered ==
    last.status = "timeout" /\ last.txn # 0 /\ calls[last.txn].op \in {"read", "write"}
    => ~last.answered

\* After a successful write no read, cached or not, goes back behind it: the
\* read partitions never hold a value older than the last acknowledged write.
CacheNotBehind ==
    \A k \in Keys : cache[k] # NotCached => cache[k] >= acked[k]

\* A read returns what the device held after the writes acknowledged before it.
ReadNotBehind ==
    (last.status = "cached" \/ (last.status = "ok" /\ calls[last.txn].op = "read"))
    => last.version >= last.floor

\* The NEGATIVE partition repeats a timeout only while it is the latest thing
\* known of the property: a marker never outlives a later answer.
NegativeReflectsLastRead == \A k \in negative : lastRead[k] = "timeout"

\* subscribeCOV returns a process id only if the device confirmed this
\* subscription; without a confirmation it throws a TimeoutException.  Promised by
\* the documentation; TLC refutes it (README, known limits).
SubscriptionConfirmed ==
    last.status = "ok" /\ calls[last.txn].op = "subscribe" => last.reply = last.txn

\* readProperty returns a value only if the device answered this read.  TLC
\* refutes it across PHP requests (README, known limits).
ReadAnswered ==
    last.status = "ok" /\ calls[last.txn].op = "read" => last.reply = last.txn

\* Every call and every callback comes to an end, whatever the network does.
CallsEnd == stack # <<>> ~> stack = <<>>
=============================================================================
