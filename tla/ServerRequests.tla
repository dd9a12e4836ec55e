--------------------------- MODULE ServerRequests ---------------------------
(***************************************************************************)
(* What Server::poll() does with an accepted request: Who-Is, ReadProperty *)
(* and ReadPropertyMultiple.  A poll() serves one request; for a property  *)
(* that the server does not manage itself it calls the PHP read handler,   *)
(* once per entry of the request, and while the handler runs the script    *)
(* may do anything: register objects, replace the handler, poll() again,   *)
(* throw.  WriteProperty is modelled in WriteDedup, the admission of       *)
(* packets in ServerSecurity, the queue of the MixedServer in MixedReceive.*)
(***************************************************************************)
EXTENDS Integers, Sequences, FiniteSets

CONSTANTS
    Objects,      \* the objects the script may register
    Device,       \* the server's own DEVICE object
    Requests,     \* the requests that may arrive
    ApduEntries,  \* how many result entries fit into MAX_APDU
    MaxArrivals, MaxDepth, MaxChanges     \* bounds

All == -1     \* BACNET_ARRAY_ALL
Props == {"object-list", "object-types", "builtin", "plain"}
Ref == [object : Objects \cup {Device}, prop : Props, index : {All} \cup Nat]
Kinds == {"read", "multiple", "who-is", "who-is-elsewhere", "other"}

\* broken: the request cannot be decoded beyond its refs; empty: it names no object.
Request == [kind : Kinds, refs : Seq(Ref), broken : BOOLEAN, empty : BOOLEAN]

ASSUME RequestsAssumption ==
    /\ Device \notin Objects
    /\ Requests \subseteq Request
    /\ \A r \in Requests : r.kind = "read" => Len(r.refs) = 1
    /\ \A r \in Requests : r.empty => r.kind = "multiple" /\ r.refs = <<>> /\ ~r.broken
ASSUME BoundsAssumption == ApduEntries \in Nat \ {0}

VARIABLES
    local_objects,     \* srv->local_objects
    read_handler_set,  \* srv->read_handler_set
    auto_iam,          \* srv->auto_iam
    socket,            \* requests received and not yet served
    polls,             \* running poll() calls; each but the last runs the handler
    answers,           \* history: what was sent, in order
    owed,              \* history: the well-formed reads that arrived
    malformed,         \* history: requests counted as malformed
    thrown,            \* history: requests left unanswered by an exception
    arrivals, changes  \* bounds

registry == <<local_objects, read_handler_set, auto_iam>>
outcome == <<answers, malformed, thrown>>
vars == <<registry, socket, polls, outcome, owed, arrivals, changes>>

\* said: what the handler said about this property.
Entry == [ref : Ref,
          result : {"value", "unknown-object", "unknown-property", "invalid-index", "datatype"},
          said : {"value", "null", "unencodable", "threw", "not asked", "refused"}]
Poll == [num : Nat, request : Request, results : Seq(Entry), calling : BOOLEAN, threw : BOOLEAN]
Answer == [num : Nat, kind : {"ack", "error", "abort", "reject", "i-am"}, results : Seq(Entry)]

Top == polls[Len(polls)]
Serving == polls # <<>> /\ ~Top.calling
Script == ~Serving          \* PHP code runs: the script or the read handler
Pop == polls' = SubSeq(polls, 1, Len(polls) - 1)
Send(n, kind, results) == answers' = Append(answers, [num |-> n, kind |-> kind, results |-> results])

-----------------------------------------------------------------------------
(* poll(): take a request.                                                  *)

CanPoll == Script /\ Len(polls) < MaxDepth /\ socket # <<>> /\ socket' = Tail(socket)

PollMalformed ==
    LET q == Head(socket) IN
    /\ CanPoll
    /\ q.request.broken /\ (q.request.kind = "read" \/ (q.request.kind = "who-is" /\ auto_iam))
    /\ malformed' = malformed \cup {q.num}
    /\ UNCHANGED <<registry, polls, answers, thrown, owed, arrivals, changes>>

PollWhoIs ==
    LET q == Head(socket) IN
    /\ CanPoll
    /\ q.request.kind \in {"who-is", "who-is-elsewhere"} /\ ~(q.request.broken /\ auto_iam)
    /\ IF auto_iam /\ q.request.kind = "who-is" THEN Send(q.num, "i-am", <<>>) ELSE UNCHANGED answers
    /\ UNCHANGED <<registry, polls, malformed, thrown, owed, arrivals, changes>>

PollUnrecognized ==
    LET q == Head(socket) IN
    /\ CanPoll
    /\ q.request.kind = "other"
    /\ Send(q.num, "reject", <<>>)
    /\ UNCHANGED <<registry, polls, malformed, thrown, owed, arrivals, changes>>

PollRead ==
    LET q == Head(socket) IN
    /\ CanPoll
    /\ q.request.kind \in {"read", "multiple"}
    /\ q.request.kind = "read" => ~q.request.broken
    /\ polls' = Append(polls, [num |-> q.num, request |-> q.request, results |-> <<>>,
                               calling |-> FALSE, threw |-> FALSE])
    /\ UNCHANGED <<registry, outcome, owed, arrivals, changes>>

-----------------------------------------------------------------------------
(* One entry after the other: php_bacnet_server_resolve_property.           *)

\* The entry that was resolved last does not fit any more.
Aborted(f) == f.request.kind = "multiple" /\ Len(f.results) > ApduEntries

Resolving == Serving /\ ~Aborted(Top) /\ Len(Top.results) < Len(Top.request.refs)
NextRef == Top.request.refs[Len(Top.results) + 1]
Known(object) == object \in local_objects \cup {Device}
ObjectList(ref) == ref.object = Device /\ ref.prop = "object-list"
Managed(ref) == ref.object = Device /\ ref.prop \in {"object-list", "object-types"}

\* The value the server has itself for a property of its DEVICE object.
Default(ref) == IF ref.object = Device /\ ref.prop \in {"builtin", "object-types"}
                THEN "value" ELSE "unknown-property"

\* Mutant of Add: the buffer is shared by all running polls.
AddShared(result, said) ==
    polls' = [polls EXCEPT
        ![1].results = Append(@, [ref |-> NextRef, result |-> result, said |-> said]),
        ![Len(polls)].calling = FALSE]

Add(result, said) ==
    polls' = [polls EXCEPT
        ![Len(polls)].results = Append(@, [ref |-> NextRef, result |-> result, said |-> said]),
        ![Len(polls)].calling = FALSE,
        ![Len(polls)].threw = @ \/ said = "threw"]

Resolved == UNCHANGED <<registry, socket, outcome, owed, arrivals, changes>>

\* php_bacnet_server_encode_object_list: the DEVICE and the registered objects.
ResolveObjectList ==
    /\ Resolving /\ ObjectList(NextRef)
    /\ Add(IF NextRef.index \in {All} \cup 0..(Cardinality(local_objects) + 1)
           THEN "value" ELSE "invalid-index", "not asked")
    /\ Resolved

ResolveUnknownObject ==
    /\ Resolving /\ ~Known(NextRef.object)
    /\ Add("unknown-object", "not asked")
    /\ Resolved

AskHandler == Resolving /\ Known(NextRef.object) /\ read_handler_set /\ ~Managed(NextRef)

ResolveDefault ==
    /\ Resolving /\ Known(NextRef.object) /\ ~ObjectList(NextRef)
    /\ ~read_handler_set \/ Managed(NextRef)
    /\ Add(Default(NextRef), "not asked")
    /\ Resolved

CallHandler ==
    /\ AskHandler /\ ~Top.threw
    /\ polls' = [polls EXCEPT ![Len(polls)].calling = TRUE]
    /\ Resolved

\* With an exception pending PHP calls no function.
HandlerRefused ==
    /\ AskHandler /\ Top.threw
    /\ Add("unknown-property", "refused")
    /\ Resolved

InHandler == polls # <<>> /\ Top.calling

\* Mutant of HandlerReturns: null becomes a BACnet NULL value.
HandlerReturnsNull(said) ==
    /\ InHandler
    /\ Add(IF said = "unencodable" THEN "datatype" ELSE said, said)
    /\ Resolved

\* null stands for the value the server has itself, if it has one.
HandlerReturns(said) ==
    /\ InHandler
    /\ Add(CASE said = "value" -> "value"
             [] said = "null" -> Default(NextRef)
             [] said = "unencodable" -> "datatype", said)
    /\ Resolved

\* Mutant of HandlerThrows: the entry is tried again.
HandlerThrowsRetries ==
    /\ InHandler
    /\ polls' = [polls EXCEPT ![Len(polls)].calling = FALSE]
    /\ Resolved

HandlerThrows ==
    /\ InHandler
    /\ Add("unknown-property", "threw")
    /\ Resolved

-----------------------------------------------------------------------------
(* The answer.                                                              *)

Complete == Serving /\ Len(Top.results) = Len(Top.request.refs) /\ ~Aborted(Top)
Answered == UNCHANGED <<registry, socket, owed, arrivals, changes>>

AnswerRead ==
    LET f == Top
        ok == f.results[1].result = "value"
    IN
    /\ Complete /\ f.request.kind = "read" /\ Pop
    /\ \/ (ok \/ ~f.threw) /\ Send(f.num, IF ok THEN "ack" ELSE "error", f.results) /\ UNCHANGED thrown
       \/ ~ok /\ f.threw /\ thrown' = thrown \cup {f.num} /\ UNCHANGED answers
    /\ UNCHANGED malformed /\ Answered

\* Mutant of AnswerMultiple: nothing is sent when a handler threw.
AnswerMultipleUnlessThrown ==
    LET f == Top IN
    /\ Complete /\ f.request.kind = "multiple" /\ Pop
    /\ \/ f.request.broken /\ malformed' = malformed \cup {f.num} /\ UNCHANGED answers
       \/ ~f.request.broken /\ UNCHANGED malformed
          /\ IF f.request.empty \/ f.threw THEN UNCHANGED answers ELSE Send(f.num, "ack", f.results)
    /\ UNCHANGED thrown /\ Answered

\* A request found broken behind its last good entry gets no answer, nor does one
\* that names no object; an object without properties is listed without any.
AnswerMultiple ==
    LET f == Top IN
    /\ Complete /\ f.request.kind = "multiple" /\ Pop
    /\ \/ f.request.broken /\ malformed' = malformed \cup {f.num} /\ UNCHANGED answers
       \/ ~f.request.broken /\ UNCHANGED malformed
          /\ IF f.request.empty THEN UNCHANGED answers ELSE Send(f.num, "ack", f.results)
    /\ UNCHANGED thrown /\ Answered

\* Mutant of AnswerAbort: the entries that still fit are sent as well.
AnswerAbortToo ==
    LET f == Top
        ack == [num |-> f.num, kind |-> "ack", results |-> SubSeq(f.results, 1, ApduEntries)]
        abort == [num |-> f.num, kind |-> "abort", results |-> <<>>]
    IN
    /\ Serving /\ Aborted(f) /\ Pop
    /\ answers' = answers \o <<abort, ack>>
    /\ UNCHANGED <<malformed, thrown>> /\ Answered

\* Segmentation is not supported: the whole answer is replaced by an Abort.
AnswerAbort ==
    /\ Serving /\ Aborted(Top) /\ Pop
    /\ Send(Top.num, "abort", <<>>)
    /\ UNCHANGED <<malformed, thrown>> /\ Answered

-----------------------------------------------------------------------------
(* The script, also from within the read handler, and the network.          *)

Change ==
    /\ Script /\ changes < MaxChanges /\ changes' = changes + 1
    /\ \/ \E o \in Objects : local_objects' = local_objects \cup {o} /\ UNCHANGED <<read_handler_set, auto_iam>>
       \/ \E o \in local_objects : local_objects' = local_objects \ {o} /\ UNCHANGED <<read_handler_set, auto_iam>>
       \/ read_handler_set' = TRUE /\ UNCHANGED <<local_objects, auto_iam>>
       \/ auto_iam' \in BOOLEAN /\ UNCHANGED <<local_objects, read_handler_set>>
    /\ UNCHANGED <<socket, polls, outcome, owed, arrivals>>

Arrive(r) ==
    /\ arrivals < MaxArrivals /\ arrivals' = arrivals + 1
    /\ socket' = Append(socket, [num |-> arrivals + 1, request |-> r])
    /\ owed' = IF r.kind \in {"read", "multiple"} /\ ~r.broken /\ ~r.empty THEN owed \cup {arrivals + 1} ELSE owed
    /\ UNCHANGED <<registry, polls, outcome, changes>>

-----------------------------------------------------------------------------
Init ==
    /\ local_objects = {} /\ read_handler_set = FALSE /\ auto_iam = TRUE
    /\ socket = <<>> /\ polls = <<>>
    /\ answers = <<>> /\ malformed = {} /\ thrown = {} /\ owed = {}
    /\ arrivals = 0 /\ changes = 0

TakeRequest == PollMalformed \/ PollWhoIs \/ PollUnrecognized \/ PollRead
HandlerEnds == HandlerThrows \/ \E said \in {"value", "null", "unencodable"} : HandlerReturns(said)
Step ==
    \/ ResolveObjectList \/ ResolveUnknownObject \/ ResolveDefault
    \/ CallHandler \/ HandlerRefused \/ HandlerEnds
    \/ AnswerRead \/ AnswerMultiple \/ AnswerAbort

Next == TakeRequest \/ Step \/ Change \/ \E r \in Requests : Arrive(r)

Spec == Init /\ [][Next]_vars

\* The daemon keeps polling, poll() runs, the handler returns or throws.
FairSpec == Spec /\ WF_vars(TakeRequest) /\ WF_vars(Step)

-----------------------------------------------------------------------------
(* Properties.                                                             *)

\* Every variable keeps its type; all polls but the last run the handler; no
\* poll holds more entries than were asked for.
TypeOK ==
    /\ local_objects \subseteq Objects /\ {read_handler_set, auto_iam} \subseteq BOOLEAN
    /\ socket \in Seq([num : Nat, request : Requests])
    /\ polls \in Seq(Poll) /\ answers \in Seq(Answer)
    /\ \A i \in 1..(Len(polls) - 1) : polls[i].calling
    /\ \A i \in DOMAIN polls : Len(polls[i].results) <= Len(polls[i].request.refs)
    /\ {arrivals, changes} \subseteq Nat
    /\ malformed \cup thrown \cup owed \subseteq 1..arrivals

\* An acknowledgement has one entry for each property asked for, in order, and
\* no entry of a request that another poll() served in between.
AckCoversRequest ==
    \A i \in DOMAIN polls : \A k \in DOMAIN polls[i].results :
        polls[i].results[k].ref = polls[i].request.refs[k]

Settled == malformed \cup thrown \cup {answers[i].num : i \in DOMAIN answers}
InService == {polls[i].num : i \in DOMAIN polls}
Waiting == {socket[i].num : i \in DOMAIN socket}

\* No request is settled twice, in whichever order nested polls end.
SettledOnce ==
    /\ \A i, j \in DOMAIN answers : answers[i].num = answers[j].num => i = j
    /\ {answers[i].num : i \in DOMAIN answers} \cap (malformed \cup thrown) = {}
    /\ Settled \cap (InService \cup Waiting) = {}

\* Entries of one request do not depend on each other: an entry is refused only
\* because of what the handler said about this very property.  TLC refutes it
\* (README, known limits).
EntriesIndependent ==
    \A i \in DOMAIN answers : \A k \in DOMAIN answers[i].results :
        answers[i].results[k].said # "refused"

\* Whatever arrives is served: poll() calls come to an end, and nobody is left
\* waiting for a request that a nested poll() has taken.
RequestsServed == socket # <<>> \/ polls # <<>> ~> socket = <<>> /\ polls = <<>>

\* A well-formed ReadProperty or ReadPropertyMultiple (of some object) that is no
\* longer in service has been answered, whatever the handler did for some of its entries;
\* only a single property whose handler threw stays without answer.
ReadsAnswered ==
    owed \ (InService \cup Waiting) \subseteq thrown \cup {answers[i].num : i \in DOMAIN answers}

\* Seen from the network: handlers, nested polls and a changing registry do not
\* show, requests are taken up in order, and each one is settled once, by an
\* answer about just the properties it asked for.
Begun(f) == [num |-> f.num, request |-> f.request]
Outline(a) == [num |-> a.num, kind |-> a.kind, refs |-> [k \in DOMAIN a.results |-> a.results[k].ref]]
BegunPolls == [i \in DOMAIN polls |-> Begun(polls[i])]
Outlines == [i \in DOMAIN answers |-> Outline(answers[i])]
Service == INSTANCE RequestService WITH
    arrived <- arrivals, waiting <- socket, serving <- BegunPolls, sent <- Outlines
ServiceSpec == Service!Spec
=============================================================================
