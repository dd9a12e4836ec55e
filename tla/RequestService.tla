--------------------------- MODULE RequestService ---------------------------
(***************************************************************************)
(* What a server promises to those who send it requests: it takes them up  *)
(* in the order in which they arrived, finishes those it has begun to read *)
(* for in the reverse order, settles each one once, and what it sends is   *)
(* an answer to that very request.                                         *)
(***************************************************************************)
EXTENDS Integers, Sequences

CONSTANT Requests   \* records with the fields kind, refs, broken, empty

VARIABLES
    arrived,   \* how many requests have arrived
    waiting,   \* [num, request]: not taken up yet, the oldest first
    serving,   \* [num, request]: property values are being read, the latest last
    sent       \* [num, kind, refs]: the answers and what they are about

vars == <<arrived, waiting, serving, sent>>

\* The request asks for properties and can be read up to there.
Readable(r) == r.kind = "multiple" \/ (r.kind = "read" /\ ~r.broken)

\* Nothing need be sent for a broken or empty request, for a Who-Is, and for a single
\* property whose handler threw: any other ReadPropertyMultiple is answered.
MayBeSilent(r) == r.broken \/ r.empty \/ r.kind \in {"read", "who-is", "who-is-elsewhere"}

Send(q, kind, refs) == sent' = Append(sent, [num |-> q.num, kind |-> kind, refs |-> refs])

\* The answers that fit a request: an acknowledgement covers every property that
\* was asked for, an Abort none.
Settle(q) ==
    LET r == q.request IN
    \/ r.kind = "read" /\ ~r.broken /\ \E kind \in {"ack", "error"} : Send(q, kind, r.refs)
    \/ r.kind = "multiple" /\ ~r.broken /\ ~r.empty /\ Send(q, "ack", r.refs)
    \/ r.kind = "multiple" /\ Send(q, "abort", <<>>)
    \/ r.kind = "who-is" /\ ~r.broken /\ Send(q, "i-am", <<>>)
    \/ r.kind = "other" /\ Send(q, "reject", <<>>)
    \/ MayBeSilent(r) /\ UNCHANGED sent

-----------------------------------------------------------------------------
Init == arrived = 0 /\ waiting = <<>> /\ serving = <<>> /\ sent = <<>>

Arrive(r) ==
    /\ arrived' = arrived + 1
    /\ waiting' = Append(waiting, [num |-> arrived + 1, request |-> r])
    /\ UNCHANGED <<serving, sent>>

TakeUp == waiting # <<>> /\ waiting' = Tail(waiting) /\ UNCHANGED arrived

SettleAtOnce ==
    /\ TakeUp /\ ~Readable(Head(waiting).request)
    /\ Settle(Head(waiting))
    /\ UNCHANGED serving

Begin ==
    /\ TakeUp /\ Readable(Head(waiting).request)
    /\ serving' = Append(serving, Head(waiting))
    /\ UNCHANGED sent

Finish ==
    /\ serving # <<>>
    /\ Settle(serving[Len(serving)])
    /\ serving' = SubSeq(serving, 1, Len(serving) - 1)
    /\ UNCHANGED <<arrived, waiting>>

Next == SettleAtOnce \/ Begin \/ Finish \/ \E r \in Requests : Arrive(r)

Spec == Init /\ [][Next]_vars
=============================================================================
