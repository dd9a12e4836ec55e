----------------------------- MODULE WriteDedup -----------------------------
(***************************************************************************)
(* WriteProperty at the server: the branch of Bacnet\Server::poll that     *)
(* runs the PHP write callback, and the table of executed writes           *)
(* (is_duplicate_write, record_write) that lets a retransmitted request be *)
(* acknowledged again without a second run.                                *)
(*                                                                         *)
(* The clients and the network are external: a request may be delivered    *)
(* any number of times, by retransmission or duplication, for Life ticks   *)
(* after it was first sent.  The fingerprint (FNV-1a of source IP and      *)
(* APDU) is abstracted to what it hashes: IP, invoke id, object and value. *)
(***************************************************************************)
EXTENDS Integers, Sequences, FiniteSets

CONSTANTS
    Clients,    \* BACnet devices that send writes
    Ips,        \* IPv4 addresses
    IpOf,       \* the address a client's datagrams arrive from (its own or a router's)
    Payloads,   \* object, property and value of a write
    IdSpace,    \* number of invoke ids (256)
    Slots,      \* SECURITY_DUPLICATES (4096)
    Window,     \* duplicate_window
    Life,       \* ticks during which a request may (again) be delivered
    FreshIds,   \* an id is reused only when its previous use has settled
    MaxWrites, MaxRuns, MaxTime, MaxDepth, MaxRestarts, MaxDuplicates   \* bounds

ASSUME SlotsAssumption == Slots \in Nat \ {0}
ASSUME WindowAssumption == Window \in Nat \ {0}
ASSUME IpAssumption == IpOf \in [Clients -> Ips]
ASSUME IdAssumption == IdSpace \in Nat \ {0} /\ Life \in Nat /\ FreshIds \in BOOLEAN

VARIABLES
    next_id,          \* per client: BACNET_G(next_invoke_id) of its process
    writes,           \* every request sent, in order; its index is its transaction
    duplicates,       \* s->duplicates
    duplicate_cursor, \* s->duplicate_cursor modulo Slots (which divides 2^32)
    deduplicated_writes, \* s->stats.deduplicated_writes
    enabled,          \* s->options.enabled
    registered,       \* the object is in srv->local_objects
    write_handler_set,\* onWriteProperty() was called
    running,          \* write callbacks on the call stack, outermost first
    runs,             \* history: protected callbacks returned since the last configure
    executed,         \* history: transactions whose callback ever returned
    acked,            \* history: transactions answered with a Simple-ACK
    restarts, now     \* client restarts so far; clock

clientVars == <<next_id, writes, restarts>>
serverVars == <<enabled, registered, write_handler_set>>
tableVars == <<duplicates, duplicate_cursor>>
vars == <<next_id, writes, duplicates, duplicate_cursor, deduplicated_writes, enabled,
          registered, write_handler_set, running, runs, executed, acked, restarts, now>>

Txns == 1..Len(writes)
Write == [ip : Ips, id : 0..IdSpace-1, payload : Payloads, sent : Nat]
Frame == [txn : Nat \ {0}, start : Nat, before : Nat]  \* before: runs at the start
Run == [txn : Nat \ {0}, start : Nat, before : Nat, end : Nat]

\* php_bacnet_security_hash_write; the object is the write without its time.
Fingerprint(t) == <<writes[t].ip, writes[t].id, writes[t].payload>>
Unused == [used |-> FALSE, hash |-> <<>>, expires |-> 0]
Entry(t, time) == [used |-> TRUE, hash |-> Fingerprint(t), expires |-> time + Window]

\* Mutants of IsDuplicate: the source or the invoke id is not part of the hash;
\* the loop stops one slot early.
IsDuplicateAnySource(t) ==
    /\ enabled
    /\ \E i \in 0..Slots-1 :
         /\ duplicates[i].used
         /\ duplicates[i].expires > now
         /\ duplicates[i].hash[2] = writes[t].id /\ duplicates[i].hash[3] = writes[t].payload

IsDuplicateShortScan(t) ==
    /\ enabled
    /\ \E i \in 0..Slots-2 :
         duplicates[i].used /\ duplicates[i].expires > now /\ duplicates[i].hash = Fingerprint(t)

\* php_bacnet_security_is_duplicate_write
IsDuplicate(t) ==
    /\ enabled
    /\ \E i \in 0..Slots-1 :
         duplicates[i].used /\ duplicates[i].expires > now /\ duplicates[i].hash = Fingerprint(t)

\* Mutant of Record: the cursor is not reduced to the table.
RecordNoModulo(t) ==
    IF enabled
    THEN /\ duplicates' = [duplicates EXCEPT ![duplicate_cursor] = Entry(t, now)]
         /\ duplicate_cursor' = duplicate_cursor + 1
    ELSE UNCHANGED tableVars

\* php_bacnet_security_record_write
Record(t) ==
    IF enabled
    THEN /\ duplicates' = [duplicates EXCEPT ![duplicate_cursor] = Entry(t, now)]
         /\ duplicate_cursor' = (duplicate_cursor + 1) % Slots
    ELSE UNCHANGED tableVars

-----------------------------------------------------------------------------
(* The clients.                                                            *)

\* The earlier request cannot be delivered again, is not being executed, and
\* no run of it ended within the last Window.
Settled(t) ==
    /\ writes[t].sent + Life < now
    /\ \A i \in DOMAIN running : running[i].txn # t
    /\ \A i \in DOMAIN runs : runs[i].txn = t => runs[i].end + Window <= now

\* A client sends a write with its next invoke id.
Issue(c, p) ==
    /\ Len(writes) < MaxWrites
    /\ FreshIds => \A t \in Txns : (/\ writes[t].ip = IpOf[c]
                                    /\ writes[t].id = next_id[c]) => Settled(t)
    /\ writes' = Append(writes, [ip |-> IpOf[c], id |-> next_id[c], payload |-> p, sent |-> now])
    /\ next_id' = [next_id EXCEPT ![c] = (@ + 1) % IdSpace]
    /\ UNCHANGED <<tableVars, deduplicated_writes, serverVars, running, runs, executed, acked,
                   restarts, now>>

\* A new PHP request or process: PHP_RINIT sets next_invoke_id to 1.
Restart(c) ==
    /\ restarts < MaxRestarts
    /\ restarts' = restarts + 1
    /\ next_id' = [next_id EXCEPT ![c] = 1 % IdSpace]
    /\ UNCHANGED <<writes, tableVars, deduplicated_writes, serverVars, running, runs, executed,
                   acked, now>>

-----------------------------------------------------------------------------
(* Server::poll on a WriteProperty request.  PHP code must be running: the  *)
(* main loop, or a write callback that calls poll() itself.                 *)

Polled(t) ==
    /\ Len(running) < MaxDepth
    /\ now <= writes[t].sent + Life

\* Already executed: acknowledge again.
Duplicate(t) ==
    /\ Polled(t)
    /\ IsDuplicate(t)
    /\ deduplicated_writes < MaxDuplicates
    /\ deduplicated_writes' = deduplicated_writes + 1
    /\ acked' = acked \cup {t}
    /\ UNCHANGED <<clientVars, tableVars, serverVars, running, runs, executed, now>>

\* The object is known and a handler is installed: the callback starts.  (For
\* any other request the server answers UNKNOWN_OBJECT and changes nothing.)
Begin(t) ==
    /\ Polled(t)
    /\ ~IsDuplicate(t)
    /\ Len(runs) + Len(running) < MaxRuns
    /\ registered /\ write_handler_set
    /\ running' = Append(running, [txn |-> t, start |-> now, before |-> Len(runs)])
    /\ UNCHANGED <<clientVars, tableVars, deduplicated_writes, serverVars, runs, executed, acked,
                   now>>

Top == running[Len(running)]
Return == running' = SubSeq(running, 1, Len(running) - 1)

\* The callback threw: no answer, nothing recorded; the client will retry.
Throw ==
    /\ running # <<>>
    /\ Return
    /\ UNCHANGED <<clientVars, tableVars, deduplicated_writes, serverVars, runs, executed, acked,
                   now>>

\* The callback returned: record the write and acknowledge it.
Finish ==
    /\ running # <<>>
    /\ Return
    /\ Record(Top.txn)
    /\ runs' = IF enabled
               THEN Append(runs, [txn |-> Top.txn, start |-> Top.start, before |-> Top.before,
                                  end |-> now])
               ELSE runs
    /\ executed' = executed \cup {Top.txn}
    /\ acked' = acked \cup {Top.txn}
    /\ UNCHANGED <<clientVars, deduplicated_writes, serverVars, now>>

-----------------------------------------------------------------------------
(* The application: registering objects and configuring the protection.     *)

\* The history of runs starts anew, also for the callbacks that are running.
NewHistory ==
    /\ runs' = <<>>
    /\ running' = [i \in DOMAIN running |-> [running[i] EXCEPT !.before = 0]]

\* setSecurityOptions: the table is cleared, the cursor is not.
Configure(e) ==
    /\ enabled' = e
    /\ duplicates' = [i \in 0..Slots-1 |-> Unused]
    /\ NewHistory
    /\ UNCHANGED <<clientVars, duplicate_cursor, deduplicated_writes, registered,
                   write_handler_set, executed, acked, now>>

AddLocalObject ==
    /\ ~registered /\ registered' = TRUE
    /\ UNCHANGED <<clientVars, tableVars, deduplicated_writes, enabled, write_handler_set,
                   running, runs, executed, acked, now>>

RemoveLocalObject ==
    /\ registered /\ registered' = FALSE
    /\ UNCHANGED <<clientVars, tableVars, deduplicated_writes, enabled, write_handler_set,
                   running, runs, executed, acked, now>>

OnWriteProperty ==
    /\ ~write_handler_set /\ write_handler_set' = TRUE
    /\ UNCHANGED <<clientVars, tableVars, deduplicated_writes, enabled, registered,
                   running, runs, executed, acked, now>>

Tick ==
    /\ now < MaxTime
    /\ now' = now + 1
    /\ UNCHANGED <<clientVars, tableVars, deduplicated_writes, serverVars, running, runs,
                   executed, acked>>

-----------------------------------------------------------------------------
Init ==
    /\ next_id = [c \in Clients |-> 1 % IdSpace]
    /\ writes = <<>>
    /\ duplicates = [i \in 0..Slots-1 |-> Unused]
    /\ duplicate_cursor = 0
    /\ deduplicated_writes = 0
    /\ enabled = TRUE
    /\ registered = FALSE /\ write_handler_set = FALSE
    /\ running = <<>> /\ runs = <<>>
    /\ executed = {} /\ acked = {}
    /\ restarts = 0 /\ now = 0

Next ==
    \/ \E c \in Clients, p \in Payloads : Issue(c, p)
    \/ \E c \in Clients : Restart(c)
    \/ \E t \in Txns : Duplicate(t) \/ Begin(t)
    \/ Throw \/ Finish
    \/ \E e \in BOOLEAN : Configure(e)
    \/ AddLocalObject \/ RemoveLocalObject \/ OnWriteProperty
    \/ Tick

Spec == Init /\ [][Next]_vars

-----------------------------------------------------------------------------
(* Properties.                                                             *)

\* Every variable keeps its type.
TypeOK ==
    /\ next_id \in [Clients -> 0..IdSpace-1]
    /\ writes \in Seq(Write)
    /\ duplicates \in [0..Slots-1 -> [used : BOOLEAN, hash : {<<>>} \cup (Ips \X (0..IdSpace-1) \X Payloads),
                                      expires : Nat]]
    /\ duplicate_cursor \in 0..Slots-1
    /\ {deduplicated_writes, restarts, now} \subseteq Nat
    /\ {enabled, registered, write_handler_set} \subseteq BOOLEAN
    /\ running \in Seq(Frame)
    /\ runs \in Seq(Run)
    /\ executed \subseteq Txns /\ acked \subseteq Txns

\* A write that has run starts to run again only once the duplicate window of that
\* run has passed, or Slots later runs have taken its entry in the ring (runs holds
\* what the protection covers).  A run that was still on the stack at the start does
\* not count: the check in poll() and the record after the callback are separate.
RepeatOnlyAfterWindow ==
    \A j \in DOMAIN runs : \A i \in 1..runs[j].before :
        runs[i].txn = runs[j].txn => \/ runs[i].end + Window <= runs[j].start
                                    \/ runs[j].before - i >= Slots

\* The documented rule: within the window the callback does not run again.  It does
\* when the ring is overwritten sooner than the window passes (duplicate_cursor++
\* does not look at the time), which the options may allow.
NoRepeatInWindow ==
    \A i, j \in DOMAIN runs :
        i < j /\ runs[i].txn = runs[j].txn => runs[i].end + Window <= runs[j].start

\* A client that gets a Simple-ACK for a write has had that write executed, not
\* merely one with the same fingerprint.
AckMeansExecuted == acked \subseteq executed
=============================================================================
