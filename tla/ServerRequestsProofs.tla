------------------------- MODULE ServerRequestsProofs -------------------------
(* Theorems about ServerRequests for every value of its constants.          *)
EXTENDS ServerRequests, SequenceTheorems, TLAPS

-----------------------------------------------------------------------------
(* The inductive invariant.                                                 *)

Nums(s) == {s[i].num : i \in DOMAIN s}
Unique(s) == \A i, j \in DOMAIN s : s[i].num = s[j].num => i = j

\* An arrived read that must be answered is one that can be.
Sound(n, request) == n \in owed => ~request.broken /\ ~request.empty /\ request.kind \in {"read", "multiple"}

More(f) == Len(f.results) < Len(f.request.refs)
Fits(f) == Len(f.results) <= Len(f.request.refs)

\* The entries of a poll are those asked for, in order; its handler runs for
\* one that is left; a broken ReadProperty is never begun.
PollOK(f) ==
    /\ f.calling => More(f)
    /\ \A k \in DOMAIN f.results : f.results[k].ref = f.request.refs[k]
    /\ Sound(f.num, f.request)
    /\ f.request.kind = "read" => ~f.request.broken

\* A request is in one place: it waits, is in service, or is settled, once.
NumsOK ==
    /\ Nums(socket) \cup Nums(polls) \cup Nums(answers) \subseteq 1..arrivals
    /\ Unique(socket) /\ Unique(polls) /\ Unique(answers)
    /\ Nums(socket) \cap Nums(polls) = {}
    /\ (Nums(socket) \cup Nums(polls)) \cap (malformed \cup thrown \cup Nums(answers)) = {}
    /\ Nums(answers) \cap (malformed \cup thrown) = {}

NoneForgotten == owed \subseteq Nums(socket) \cup Nums(polls) \cup Nums(answers) \cup thrown

IInv ==
    /\ TypeOK
    /\ \A i \in DOMAIN polls : PollOK(polls[i])
    /\ \A i \in DOMAIN socket : Sound(socket[i].num, socket[i].request)
    /\ NumsOK
    /\ NoneForgotten

-----------------------------------------------------------------------------
(* Numbered sequences.                                                      *)

LEMMA Indices ==
    \A a, b \in Nat :
        /\ a < b => a + 1 \in 1..b /\ a + 1 <= b
        /\ \A i \in 1..(a + 1) : i = a + 1 \/ i \in 1..a
        /\ \A i \in 1..(a - 1) : i \in 1..a /\ i # a
OBVIOUS

LEMMA AppendNums ==
    ASSUME NEW S, NEW s \in Seq(S), NEW e \in S
    PROVE  /\ Append(s, e) \in Seq(S) /\ Len(Append(s, e)) = Len(s) + 1
           /\ \A i \in DOMAIN s : i \in DOMAIN Append(s, e) /\ Append(s, e)[i] = s[i]
           /\ \A i \in DOMAIN Append(s, e) : i = Len(s) + 1 \/ i \in DOMAIN s
           /\ Append(s, e)[Len(s) + 1] = e
           /\ Nums(Append(s, e)) = Nums(s) \cup {e.num}
           /\ Unique(s) /\ e.num \notin Nums(s) => Unique(Append(s, e))
<1> DEFINE t == Append(s, e)
<1>1. t \in Seq(S) /\ Len(t) = Len(s) + 1 /\ DOMAIN t = 1..(Len(s) + 1) /\ DOMAIN s = 1..Len(s) /\ Len(s) \in Nat
      /\ (\A i \in 1..Len(s) : t[i] = s[i]) /\ t[Len(s) + 1] = e
  BY AppendProperties, LenProperties
<1> HIDE DEF t
<1>2. \A i \in DOMAIN t : i = Len(s) + 1 \/ i \in DOMAIN s
  BY <1>1
<1>3. \A i \in DOMAIN s : i \in DOMAIN t
  BY <1>1
<1>4. Nums(t) = Nums(s) \cup {e.num}
  BY <1>1, <1>2, <1>3 DEF Nums
<1>5. Unique(s) /\ e.num \notin Nums(s) => Unique(t)
  BY <1>1, <1>2 DEF Unique, Nums
<1>6. QED
  BY <1>1, <1>2, <1>3, <1>4, <1>5 DEF t

LEMMA TailNums ==
    ASSUME NEW S, NEW s \in Seq(S), s # <<>>
    PROVE  /\ Tail(s) \in Seq(S) /\ Head(s) \in S /\ Head(s) = s[1] /\ 1 \in DOMAIN s
           /\ \A i \in DOMAIN Tail(s) : i + 1 \in DOMAIN s /\ Tail(s)[i] = s[i + 1]
           /\ Nums(s) = Nums(Tail(s)) \cup {Head(s).num}
           /\ Unique(s) => Unique(Tail(s)) /\ Head(s).num \notin Nums(Tail(s))
<1> DEFINE t == Tail(s)
<1>1. t \in Seq(S) /\ Len(t) = Len(s) - 1 /\ Len(s) \in Nat /\ Len(s) > 0
      /\ DOMAIN t = 1..Len(t) /\ DOMAIN s = 1..Len(s)
      /\ (\A i \in 1..Len(t) : t[i] = s[i + 1]) /\ Head(s) \in S /\ Head(s) = s[1]
  BY HeadTailProperties, LenProperties, EmptySeq
<1> HIDE DEF t
<1>2. 1 \in DOMAIN s /\ \A i \in DOMAIN t : i + 1 \in DOMAIN s /\ t[i] = s[i + 1]
  BY <1>1
<1>3. Nums(s) = Nums(t) \cup {Head(s).num}
  <2>1. ASSUME NEW i \in DOMAIN s PROVE s[i].num \in Nums(t) \cup {Head(s).num}
    <3>1. CASE i = 1
      BY <3>1, <1>1
    <3>2. CASE i # 1
      <4>1. i - 1 \in DOMAIN t /\ t[i - 1] = s[i]
        BY <3>2, <1>1
      <4>2. QED
        BY <4>1 DEF Nums
    <3>3. QED
      BY <3>1, <3>2
  <2>2. Nums(t) \cup {Head(s).num} \subseteq Nums(s)
    BY <1>1, <1>2 DEF Nums
  <2>3. QED
    BY <2>1, <2>2 DEF Nums
<1>4. ASSUME Unique(s) PROVE Unique(t) /\ Head(s).num \notin Nums(t)
  <2>1. Unique(t)
    BY <1>1, <1>2, <1>4 DEF Unique
  <2>2. ASSUME NEW i \in DOMAIN t, t[i].num = s[1].num PROVE FALSE
    <3>1. i + 1 = 1
      BY <2>2, <1>2, <1>4 DEF Unique
    <3>2. QED
      BY <3>1, <1>1
  <2>3. QED
    BY <2>1, <2>2, <1>1 DEF Nums
<1>5. QED
  BY <1>1, <1>2, <1>3, <1>4 DEF t

LEMMA FrontNums ==
    ASSUME NEW S, NEW s \in Seq(S), s # <<>>
    PROVE  LET t == SubSeq(s, 1, Len(s) - 1) IN
           /\ t \in Seq(S) /\ Len(s) \in DOMAIN s /\ Len(t) = Len(s) - 1 /\ s[Len(s)] \in S
           /\ \A i \in DOMAIN t : i \in DOMAIN s /\ t[i] = s[i] /\ i \in 1..(Len(s) - 1)
           /\ Nums(s) = Nums(t) \cup {s[Len(s)].num}
           /\ Unique(s) => Unique(t) /\ s[Len(s)].num \notin Nums(t)
<1> DEFINE t == SubSeq(s, 1, Len(s) - 1)
<1>1. Len(s) \in Nat /\ Len(s) > 0 /\ DOMAIN s = 1..Len(s)
  BY LenProperties, EmptySeq
<1>2. t \in Seq(S) /\ Len(t) = Len(s) - 1 /\ DOMAIN t = 1..(Len(s) - 1) /\ \A i \in 1..(Len(s) - 1) : t[i] = s[i]
  BY <1>1, SubSeqProperties, LenProperties
<1> HIDE DEF t
<1>3. Len(s) \in DOMAIN s /\ s[Len(s)] \in S /\ \A i \in DOMAIN t : i \in DOMAIN s /\ t[i] = s[i]
  BY <1>1, <1>2
<1>4. \A i \in DOMAIN s : i = Len(s) \/ i \in DOMAIN t
  BY <1>1, <1>2
<1>5. Nums(s) = Nums(t) \cup {s[Len(s)].num}
  BY <1>3, <1>4 DEF Nums
<1>6. Unique(s) => Unique(t) /\ s[Len(s)].num \notin Nums(t)
  <2>1. Len(s) \notin DOMAIN t
    BY <1>1, <1>2
  <2>2. QED
    BY <2>1, <1>3 DEF Unique, Nums
<1>7. QED
  BY <1>1, <1>2, <1>3, <1>5, <1>6 DEF t

LEMMA ReplaceNums ==
    ASSUME NEW S, NEW s \in Seq(S), NEW n \in DOMAIN s, NEW e \in S, e.num = s[n].num
    PROVE  LET t == [s EXCEPT ![n] = e] IN
           /\ t \in Seq(S) /\ Len(t) = Len(s) /\ DOMAIN t = DOMAIN s /\ t[n] = e
           /\ \A i \in DOMAIN s : i # n => t[i] = s[i]
           /\ Nums(t) = Nums(s)
           /\ Unique(s) => Unique(t)
<1> DEFINE t == [s EXCEPT ![n] = e]
<1>1. DOMAIN t = DOMAIN s /\ t[n] = e /\ \A i \in DOMAIN s : i # n => t[i] = s[i]
  OBVIOUS
<1>2. t \in Seq(S) /\ Len(t) = Len(s)
  BY ExceptSeq, LenProperties
<1> HIDE DEF t
<1>3. \A i \in DOMAIN s : t[i].num = s[i].num
  BY <1>1
<1>4. QED
  BY <1>1, <1>2, <1>3 DEF t, Nums, Unique

-----------------------------------------------------------------------------
(* How a request leaves: it is answered, counted as malformed, left to the  *)
(* exception, or ignored; one that is owed an answer gets it or threw.      *)

Leaves(n) ==
    \/ /\ \E k \in {"ack", "error", "abort", "reject", "i-am"}, rs \in Seq(Entry) : Send(n, k, rs)
       /\ UNCHANGED <<malformed, thrown>>
    \/ n \notin owed /\ malformed' = malformed \cup {n} /\ UNCHANGED <<answers, thrown>>
    \/ thrown' = thrown \cup {n} /\ UNCHANGED <<answers, malformed>>
    \/ n \notin owed /\ UNCHANGED <<answers, malformed, thrown>>

LEMMA LeavesOnce ==
    ASSUME TypeOK, Unique(answers), Nums(answers) \cap (malformed \cup thrown) = {},
           Nums(answers) \subseteq 1..arrivals,
           NEW n \in 1..arrivals, n \notin malformed \cup thrown \cup Nums(answers), Leaves(n)
    PROVE  /\ answers' \in Seq(Answer) /\ malformed' \cup thrown' \subseteq 1..arrivals
           /\ Unique(answers') /\ Nums(answers') \cap (malformed' \cup thrown') = {}
           /\ Nums(answers') \subseteq 1..arrivals
           /\ malformed' \cup thrown' \cup Nums(answers')
                \subseteq malformed \cup thrown \cup Nums(answers) \cup {n}
           /\ Nums(answers) \cup thrown \subseteq Nums(answers') \cup thrown'
           /\ n \in owed => n \in Nums(answers') \cup thrown'
<1>1. answers \in Seq(Answer) /\ malformed \cup thrown \subseteq 1..arrivals /\ arrivals \in Nat
  BY DEF TypeOK
<1>3. ASSUME NEW k \in {"ack", "error", "abort", "reject", "i-am"}, NEW rs \in Seq(Entry), Send(n, k, rs),
             UNCHANGED <<malformed, thrown>>
      PROVE  /\ answers' \in Seq(Answer) /\ Nums(answers') = Nums(answers) \cup {n} /\ Unique(answers')
  <2> DEFINE a == [num |-> n, kind |-> k, results |-> rs]
  <2>1. a \in Answer /\ a.num = n
    BY <1>1 DEF Answer
  <2>2. answers' = Append(answers, a)
    BY <1>3 DEF Send
  <2> HIDE DEF a
  <2>3. QED
    BY <1>1, <2>1, <2>2, AppendNums
<1>4. CASE (\E k \in {"ack", "error", "abort", "reject", "i-am"}, rs \in Seq(Entry) : Send(n, k, rs))
           /\ UNCHANGED <<malformed, thrown>>
  <2>1. answers' \in Seq(Answer) /\ Nums(answers') = Nums(answers) \cup {n} /\ Unique(answers')
    BY <1>3, <1>4
  <2>2. QED
    BY <1>1, <1>4, <2>1
<1>5. CASE n \notin owed /\ malformed' = malformed \cup {n} /\ UNCHANGED <<answers, thrown>>
  BY <1>1, <1>5
<1>6. CASE thrown' = thrown \cup {n} /\ UNCHANGED <<answers, malformed>>
  BY <1>1, <1>6
<1>7. CASE n \notin owed /\ UNCHANGED <<answers, malformed, thrown>>
  BY <1>1, <1>7
<1>8. QED
  BY <1>4, <1>5, <1>6, <1>7 DEF Leaves

-----------------------------------------------------------------------------
(* A poll() takes the oldest request.                                       *)

(* The polls are the same and the request leaves at once.                   *)
LEMMA TakenAndGone ==
    ASSUME IInv, CanPoll, Leaves(Head(socket).num), UNCHANGED <<registry, polls, owed, arrivals, changes>>
    PROVE  IInv'
<1> DEFINE n == Head(socket).num
           T == [num : Nat, request : Requests]
<1>1. TypeOK /\ socket \in Seq(T) /\ socket # <<>> /\ socket' = Tail(socket) /\ polls \in Seq(Poll)
      /\ NumsOK /\ NoneForgotten
  BY DEF IInv, TypeOK, CanPoll
<1>2. /\ socket' \in Seq(T) /\ Nums(socket) = Nums(socket') \cup {n}
      /\ Unique(socket') /\ n \notin Nums(socket')
      /\ \A i \in DOMAIN socket' : i + 1 \in DOMAIN socket /\ socket'[i] = socket[i + 1]
  BY <1>1, TailNums DEF NumsOK
<1> HIDE DEF n
<1>3. n \in 1..arrivals /\ n \notin malformed \cup thrown \cup Nums(answers) /\ n \notin Nums(polls)
  BY <1>1, <1>2 DEF NumsOK
<1>4. /\ answers' \in Seq(Answer) /\ malformed' \cup thrown' \subseteq 1..arrivals
      /\ Unique(answers') /\ Nums(answers') \cap (malformed' \cup thrown') = {}
      /\ Nums(answers') \subseteq 1..arrivals
      /\ malformed' \cup thrown' \cup Nums(answers')
           \subseteq malformed \cup thrown \cup Nums(answers) \cup {n}
      /\ Nums(answers) \cup thrown \subseteq Nums(answers') \cup thrown'
      /\ n \in owed => n \in Nums(answers') \cup thrown'
  <2>1. Leaves(n)
    BY DEF n
  <2>2. QED
    BY <1>1, <1>3, <2>1, LeavesOnce DEF NumsOK
<1>5. UNCHANGED <<local_objects, read_handler_set, auto_iam, polls, owed, arrivals, changes>>
  BY DEF registry
<1>6. TypeOK'
  BY <1>1, <1>2, <1>4, <1>5 DEF TypeOK
<1>7. (\A i \in DOMAIN polls : PollOK(polls[i]))'
  BY <1>5 DEF IInv, PollOK, Sound
<1>8. (\A i \in DOMAIN socket : Sound(socket[i].num, socket[i].request))'
  BY <1>2, <1>5 DEF IInv, Sound
<1>9. NumsOK'
  <2>1. /\ Nums(socket') \cup Nums(polls) \cup Nums(answers') \subseteq 1..arrivals
        /\ Unique(socket') /\ Unique(polls) /\ Unique(answers')
        /\ Nums(socket') \cap Nums(polls) = {}
        /\ (Nums(socket') \cup Nums(polls)) \cap (malformed' \cup thrown' \cup Nums(answers')) = {}
        /\ Nums(answers') \cap (malformed' \cup thrown') = {}
    BY <1>1, <1>2, <1>3, <1>4 DEF NumsOK
  <2>2. QED
    BY <2>1, <1>5 DEF NumsOK
<1>10. NoneForgotten'
  <2>1. owed \subseteq Nums(socket') \cup Nums(polls) \cup Nums(answers') \cup thrown'
    BY <1>1, <1>2, <1>4 DEF NoneForgotten
  <2>2. QED
    BY <2>1, <1>5 DEF NoneForgotten
<1>11. QED
  BY <1>6, <1>7, <1>8, <1>9, <1>10 DEF IInv

LEMMA PollReadKeeps ==
    ASSUME IInv, PollRead
    PROVE  IInv'
<1> DEFINE q == Head(socket)
           f == [num |-> q.num, request |-> q.request, results |-> <<>>, calling |-> FALSE, threw |-> FALSE]
           T == [num : Nat, request : Requests]
<1>1. TypeOK /\ socket \in Seq(T) /\ socket # <<>> /\ socket' = Tail(socket) /\ polls \in Seq(Poll)
      /\ NumsOK /\ NoneForgotten
  BY DEF IInv, TypeOK, PollRead, CanPoll
<1>2. /\ socket' \in Seq(T) /\ Nums(socket) = Nums(socket') \cup {q.num}
      /\ Unique(socket') /\ q.num \notin Nums(socket') /\ q \in T /\ q = socket[1] /\ 1 \in DOMAIN socket
      /\ \A i \in DOMAIN socket' : i + 1 \in DOMAIN socket /\ socket'[i] = socket[i + 1]
  <2>1. Unique(socket)
    BY <1>1 DEF NumsOK
  <2> HIDE DEF T
  <2>2. QED
    BY <1>1, <2>1, TailNums
<1>3. q.num \in Nat /\ q.request \in Request
  BY <1>2, RequestsAssumption
<1>4. f \in Poll /\ f.num = q.num /\ f.request = q.request /\ f.results = <<>> /\ f.calling = FALSE
  BY <1>3, EmptySeq DEF Poll
<1>5. UNCHANGED <<local_objects, read_handler_set, auto_iam, answers, malformed, thrown, owed, arrivals, changes>>
  BY DEF PollRead, registry, outcome
<1>6. polls' = Append(polls, f)
  BY DEF PollRead
<1>7. q.num \in 1..arrivals /\ q.num \notin malformed \cup thrown \cup Nums(answers) /\ q.num \notin Nums(polls)
  BY <1>1, <1>2 DEF NumsOK
<1>8. Sound(q.num, q.request)
  BY <1>2 DEF IInv
<1> HIDE DEF q, f
<1>9. /\ polls' \in Seq(Poll) /\ Len(polls') = Len(polls) + 1
      /\ \A i \in DOMAIN polls : i \in DOMAIN polls' /\ polls'[i] = polls[i]
      /\ \A i \in DOMAIN polls' : i = Len(polls) + 1 \/ i \in DOMAIN polls
      /\ polls'[Len(polls) + 1] = f
      /\ Nums(polls') = Nums(polls) \cup {q.num} /\ Unique(polls')
  BY <1>1, <1>4, <1>6, <1>7, AppendNums DEF NumsOK
<1>10. TypeOK'
  <2>1. Len(polls) \in Nat /\ DOMAIN polls = 1..Len(polls) /\ (polls = <<>> => Len(polls) = 0)
    BY <1>1, LenProperties
  <2>2. \A i \in 1..Len(polls) : polls[i].calling
    <3>1. polls = <<>> \/ polls[Len(polls)].calling
      BY DEF PollRead, CanPoll, Script, Serving, Top
    <3>2. \A i \in 1..(Len(polls) - 1) : polls[i].calling
      BY <1>1 DEF TypeOK
    <3>3. QED
      BY <2>1, <3>1, <3>2
  <2>3. \A i \in 1..(Len(polls') - 1) : polls'[i].calling
    BY <1>9, <2>1, <2>2
  <2>4. \A i \in DOMAIN polls' : Len(polls'[i].results) <= Len(polls'[i].request.refs)
    <3>1. f.request.refs \in Seq(Ref)
      BY <1>3, <1>4 DEF Request
    <3>2. Len(f.results) <= Len(f.request.refs)
      BY <3>1, <1>4, LenProperties
    <3>3. QED
      BY <1>1, <1>9, <3>2 DEF TypeOK
  <2>5. QED
    BY <1>1, <1>2, <1>5, <1>9, <2>3, <2>4 DEF TypeOK
<1>11. (\A i \in DOMAIN polls : PollOK(polls[i]))'
  <2>1. PollOK(f)
    <3>1. f.request.kind = "read" => ~f.request.broken
      BY <1>4 DEF PollRead, q
    <3>2. QED
      BY <1>4, <1>8, <3>1 DEF PollOK
  <2>2. \A i \in DOMAIN polls' : PollOK(polls'[i])
    BY <1>9, <2>1 DEF IInv
  <2>3. QED
    BY <2>2, <1>5 DEF PollOK, Sound
<1>12. (\A i \in DOMAIN socket : Sound(socket[i].num, socket[i].request))'
  BY <1>2, <1>5 DEF IInv, Sound
<1>13. NumsOK'
  <2>1. /\ Nums(socket') \cup Nums(polls') \cup Nums(answers) \subseteq 1..arrivals
        /\ Unique(socket') /\ Unique(polls') /\ Unique(answers)
        /\ Nums(socket') \cap Nums(polls') = {}
        /\ (Nums(socket') \cup Nums(polls')) \cap (malformed \cup thrown \cup Nums(answers)) = {}
        /\ Nums(answers) \cap (malformed \cup thrown) = {}
    BY <1>1, <1>2, <1>7, <1>9 DEF NumsOK
  <2>2. QED
    BY <2>1, <1>5 DEF NumsOK
<1>14. NoneForgotten'
  <2>1. owed \subseteq Nums(socket') \cup Nums(polls') \cup Nums(answers) \cup thrown
    BY <1>1, <1>2, <1>9 DEF NoneForgotten
  <2>2. QED
    BY <2>1, <1>5 DEF NoneForgotten
<1>15. QED
  BY <1>10, <1>11, <1>12, <1>13, <1>14 DEF IInv

LEMMA HeadIsSound ==
    ASSUME IInv, CanPoll
    PROVE  Sound(Head(socket).num, Head(socket).request)
<1> DEFINE T == [num : Nat, request : Requests]
<1>1. socket \in Seq(T) /\ socket # <<>>
  BY DEF IInv, TypeOK, CanPoll
<1> HIDE DEF T
<1>2. Head(socket) = socket[1] /\ 1 \in DOMAIN socket
  BY <1>1, TailNums
<1>3. QED
  BY <1>2 DEF IInv

LEMMA TakeRequestKeeps ==
    ASSUME IInv, TakeRequest
    PROVE  IInv'
<1> DEFINE q == Head(socket)
<1>1. <<>> \in Seq(Entry)
  BY EmptySeq
<1>2. CanPoll => Sound(q.num, q.request)
  BY HeadIsSound
<1> HIDE DEF q
<1>3. CASE PollMalformed
  <2>1. q.request.broken /\ malformed' = malformed \cup {q.num} /\ UNCHANGED <<answers, thrown>>
    BY <1>3 DEF PollMalformed, q
  <2>2. Leaves(q.num)
    BY <1>2, <1>3, <2>1 DEF Leaves, Sound, PollMalformed
  <2>3. QED
    BY <1>3, <2>2, TakenAndGone DEF PollMalformed, q
<1>4. CASE PollWhoIs
  <2>1. q.request.kind \in {"who-is", "who-is-elsewhere"} /\ UNCHANGED <<malformed, thrown>>
        /\ (Send(q.num, "i-am", <<>>) \/ UNCHANGED answers)
    BY <1>4 DEF PollWhoIs, q
  <2>2. q.num \notin owed
    BY <1>2, <1>4, <2>1 DEF Sound, PollWhoIs
  <2>3. Leaves(q.num)
    BY <1>1, <2>1, <2>2 DEF Leaves
  <2>4. QED
    BY <1>4, <2>3, TakenAndGone DEF PollWhoIs, q
<1>5. CASE PollUnrecognized
  <2>1. Send(q.num, "reject", <<>>) /\ UNCHANGED <<malformed, thrown>>
    BY <1>5 DEF PollUnrecognized, q
  <2>2. Leaves(q.num)
    BY <1>1, <2>1 DEF Leaves
  <2>3. QED
    BY <1>5, <2>2, TakenAndGone DEF PollUnrecognized, q
<1>6. CASE PollRead
  BY <1>6, PollReadKeeps
<1>7. QED
  BY <1>3, <1>4, <1>5, <1>6 DEF TakeRequest

-----------------------------------------------------------------------------
(* The running poll() goes on.                                              *)

LEMMA TopIsLast ==
    ASSUME IInv, polls # <<>>
    PROVE  /\ polls \in Seq(Poll) /\ Len(polls) \in DOMAIN polls /\ Top = polls[Len(polls)]
           /\ Top \in Poll /\ PollOK(Top) /\ Len(Top.results) <= Len(Top.request.refs)
           /\ Top.results \in Seq(Entry) /\ Top.request.refs \in Seq(Ref)
           /\ Len(polls) \in Nat /\ DOMAIN polls = 1..Len(polls)
<1>1. polls \in Seq(Poll)
  BY DEF IInv, TypeOK
<1>2. Len(polls) \in DOMAIN polls /\ Top = polls[Len(polls)] /\ Top \in Poll
  BY <1>1, FrontNums DEF Top
<1>3. PollOK(Top) /\ Len(Top.results) <= Len(Top.request.refs)
  BY <1>2 DEF IInv, TypeOK
<1>4. Top.results \in Seq(Entry) /\ Top.request \in Request
  BY <1>2 DEF Poll
<1>5. Top.request.refs \in Seq(Ref)
  BY <1>4 DEF Request
<1>6. QED
  BY <1>1, <1>2, <1>3, <1>4, <1>5, LenProperties

LEMMA TopChanges ==
    ASSUME IInv, polls # <<>>, NEW f \in Poll, polls' = [polls EXCEPT ![Len(polls)] = f],
           f.num = Top.num, f.request = Top.request, PollOK(f), Fits(f), Resolved
    PROVE  IInv'
<1>1. TypeOK /\ polls \in Seq(Poll) /\ Len(polls) \in DOMAIN polls /\ Top = polls[Len(polls)]
      /\ Len(polls) \in Nat /\ DOMAIN polls = 1..Len(polls)
  BY TopIsLast DEF IInv
<1>2. UNCHANGED <<local_objects, read_handler_set, auto_iam, socket, answers, malformed, thrown, owed, arrivals, changes>>
  BY DEF Resolved, registry, outcome
<1>3. /\ polls' \in Seq(Poll) /\ Len(polls') = Len(polls) /\ DOMAIN polls' = DOMAIN polls /\ polls'[Len(polls)] = f
      /\ \A i \in DOMAIN polls : i # Len(polls) => polls'[i] = polls[i]
      /\ Nums(polls') = Nums(polls) /\ (Unique(polls) => Unique(polls'))
  <2> DEFINE n == Len(polls)
             t == [polls EXCEPT ![n] = f]
  <2>1. n \in DOMAIN polls /\ f.num = polls[n].num
    BY <1>1
  <2> HIDE DEF n
  <2>2. /\ t \in Seq(Poll) /\ Len(t) = Len(polls) /\ DOMAIN t = DOMAIN polls /\ t[n] = f
        /\ \A i \in DOMAIN polls : i # n => t[i] = polls[i]
        /\ Nums(t) = Nums(polls) /\ (Unique(polls) => Unique(t))
    BY <1>1, <2>1, ReplaceNums
  <2>3. polls' = t
    BY DEF n
  <2> HIDE DEF t
  <2>4. QED
    BY <2>2, <2>3 DEF n
<1>4. TypeOK'
  <2>1. \A i \in 1..(Len(polls') - 1) : polls'[i].calling
    <3>1. \A i \in 1..(Len(polls) - 1) : polls[i].calling /\ i \in DOMAIN polls /\ i # Len(polls)
      <4>1. \A i \in 1..(Len(polls) - 1) : i \in DOMAIN polls /\ i # Len(polls)
        BY <1>1, Indices
      <4>2. QED
        BY <1>1, <4>1 DEF TypeOK
    <3>2. QED
      BY <1>3, <3>1
  <2>2. \A i \in DOMAIN polls' : Len(polls'[i].results) <= Len(polls'[i].request.refs)
    BY <1>1, <1>3 DEF TypeOK, Fits
  <2>3. QED
    BY <1>1, <1>2, <1>3, <2>1, <2>2 DEF TypeOK
<1>5. (\A i \in DOMAIN polls : PollOK(polls[i]))'
  <2>1. \A i \in DOMAIN polls' : PollOK(polls'[i])
    BY <1>3 DEF IInv
  <2>2. QED
    BY <2>1, <1>2 DEF PollOK, Sound
<1>6. (\A i \in DOMAIN socket : Sound(socket[i].num, socket[i].request))'
  BY <1>2 DEF IInv, Sound
<1>7. NumsOK' /\ NoneForgotten'
  BY <1>2, <1>3 DEF IInv, NumsOK, NoneForgotten
<1>8. QED
  BY <1>4, <1>5, <1>6, <1>7 DEF IInv

\* A poll after it has resolved an entry.
Updated(f, results, threw) == [f EXCEPT !.results = results, !.calling = FALSE, !.threw = threw]

LEMMA PollUpdated ==
    \A g \in Poll, s \in Seq(Entry), b \in BOOLEAN :
        /\ Updated(g, s, b) \in Poll /\ Updated(g, s, b).num = g.num
        /\ Updated(g, s, b).request = g.request /\ Updated(g, s, b).results = s /\ ~Updated(g, s, b).calling
BY DEF Poll, Updated

LEMMA OneMore ==
    \A s \in Seq(Entry), x \in Entry :
        /\ Append(s, x) \in Seq(Entry) /\ Len(Append(s, x)) = Len(s) + 1
        /\ \A k \in 1..Len(s) : Append(s, x)[k] = s[k]
        /\ Append(s, x)[Len(s) + 1] = x
BY AppendProperties

LEMMA AddKeeps ==
    ASSUME IInv, polls # <<>>, More(Top),
           NEW result \in {"value", "unknown-object", "unknown-property", "invalid-index", "datatype"},
           NEW said \in {"value", "null", "unencodable", "threw", "not asked", "refused"},
           Add(result, said), Resolved
    PROVE  IInv'
<1> DEFINE e == [ref |-> NextRef, result |-> result, said |-> said]
           f == Updated(Top, Append(Top.results, e), Top.threw \/ said = "threw")
<1>1. /\ polls \in Seq(Poll) /\ Len(polls) \in DOMAIN polls /\ Top = polls[Len(polls)]
      /\ Top \in Poll /\ PollOK(Top)
      /\ Top.results \in Seq(Entry) /\ Top.request.refs \in Seq(Ref)
  BY TopIsLast
<1> DEFINE rs == Top.results
           refs == Top.request.refs
           n == Len(rs) + 1
<1>2. Len(rs) \in Nat /\ Len(refs) \in Nat /\ DOMAIN rs = 1..Len(rs) /\ rs \in Seq(Entry) /\ refs \in Seq(Ref)
      /\ Len(rs) < Len(refs)
  BY <1>1, LenProperties DEF More
<1>3. NextRef \in Ref /\ NextRef = refs[n]
  <2>1. NextRef = refs[n]
    BY DEF NextRef
  <2>2. n \in 1..Len(refs)
    BY <1>2, Indices
  <2>3. QED
    BY <1>2, <2>1, <2>2, ElementOfSeq
<1>4. e \in Entry /\ e.ref = NextRef
  BY <1>3 DEF Entry
<1> HIDE DEF e
<1>5. polls' = [polls EXCEPT ![Len(polls)] = f]
  BY <1>1 DEF Add, Updated, e
<1>6. /\ Append(rs, e) \in Seq(Entry) /\ Len(Append(rs, e)) = n
      /\ DOMAIN Append(rs, e) = 1..n
      /\ \A k \in 1..Len(rs) : Append(rs, e)[k] = rs[k]
      /\ Append(rs, e)[n] = e
  <2>1. rs \in Seq(Entry) /\ e \in Entry
    BY <1>2, <1>4
  <2> HIDE DEF rs
  <2>2. /\ Append(rs, e) \in Seq(Entry) /\ Len(Append(rs, e)) = Len(rs) + 1
        /\ \A k \in 1..Len(rs) : Append(rs, e)[k] = rs[k]
        /\ Append(rs, e)[Len(rs) + 1] = e
    BY <2>1, OneMore
  <2>3. DOMAIN Append(rs, e) = 1..Len(Append(rs, e))
    BY <2>2, LenProperties
  <2>4. QED
    BY <2>2, <2>3
<1>7. f \in Poll /\ f.num = Top.num /\ f.request = Top.request /\ f.results = Append(rs, e) /\ ~f.calling
  <2>1. (Top.threw \/ said = "threw") \in BOOLEAN
    BY <1>1 DEF Poll
  <2> DEFINE r == Append(rs, e)
             b == Top.threw \/ said = "threw"
  <2>2. Top \in Poll /\ r \in Seq(Entry) /\ b \in BOOLEAN
    BY <1>1, <1>6, <2>1
  <2>3. f = Updated(Top, r, b)
    OBVIOUS
  <2> HIDE DEF f, r, b
  <2>4. f \in Poll /\ f.num = Top.num /\ f.request = Top.request /\ f.results = r /\ ~f.calling
    BY <2>2, <2>3, PollUpdated
  <2>5. QED
    BY <2>4 DEF r
<1> HIDE DEF f
<1>8. PollOK(f)
  <2>1. Sound(f.num, f.request)
    BY <1>1, <1>7 DEF PollOK
  <2>2. \A k \in 1..Len(rs) : rs[k].ref = refs[k]
    BY <1>1, <1>2 DEF PollOK
  <2>3. f.request.refs = refs
    BY <1>7
  <2>4. \A k \in DOMAIN f.results : f.results[k].ref = f.request.refs[k]
    <3>1. \A k \in 1..n : k = n \/ k \in 1..Len(rs)
      BY <1>2, Indices
    <3> HIDE DEF rs, refs
    <3>2. QED
      BY <1>3, <1>4, <1>6, <1>7, <2>2, <2>3, <3>1
  <2>5. f.request.kind = "read" => ~f.request.broken
    BY <1>1, <1>7 DEF PollOK
  <2>6. QED
    BY <1>7, <2>1, <2>4, <2>5 DEF PollOK
<1>9. Fits(f)
  <2>1. f.request.refs = refs
    BY <1>7
  <2>2. n <= Len(refs)
    BY <1>2, Indices
  <2>3. QED
    BY <1>6, <1>7, <2>1, <2>2 DEF Fits
<1>10. QED
  BY <1>5, <1>7, <1>8, <1>9, TopChanges

LEMMA CallHandlerKeeps ==
    ASSUME IInv, CallHandler
    PROVE  IInv'
<1> DEFINE f == [Top EXCEPT !.calling = TRUE]
<1>1. polls # <<>> /\ More(Top)
  BY DEF CallHandler, AskHandler, Resolving, Serving, More
<1>2. Top \in Poll /\ PollOK(Top) /\ Len(polls) \in DOMAIN polls /\ Top = polls[Len(polls)]
      /\ Len(Top.results) <= Len(Top.request.refs)
  BY <1>1, TopIsLast
<1>3. f \in Poll /\ f.num = Top.num /\ f.request = Top.request /\ f.results = Top.results
  BY <1>2 DEF Poll
<1>4. polls' = [polls EXCEPT ![Len(polls)] = f]
  BY <1>2 DEF CallHandler
<1> HIDE DEF f
<1>5. PollOK(f) /\ Fits(f)
  BY <1>1, <1>2, <1>3 DEF PollOK, More, Fits
<1>6. QED
  BY <1>1, <1>3, <1>4, <1>5, TopChanges DEF CallHandler

LEMMA ResolveAdds ==
    ASSUME IInv,
           \/ ResolveObjectList \/ ResolveUnknownObject \/ ResolveDefault \/ HandlerRefused
           \/ HandlerEnds
    PROVE  /\ polls # <<>> /\ More(Top) /\ Resolved
           /\ \E result \in {"value", "unknown-object", "unknown-property", "invalid-index", "datatype"},
                 said \in {"value", "null", "unencodable", "threw", "not asked", "refused"} : Add(result, said)
<1>1. polls # <<>> /\ More(Top)
  <2>1. CASE Resolving
    BY <2>1 DEF Resolving, Serving, More
  <2>2. CASE InHandler
    BY <2>2, TopIsLast DEF InHandler, PollOK
  <2>3. QED
    BY <2>1, <2>2 DEF ResolveObjectList, ResolveUnknownObject, ResolveDefault, HandlerRefused, AskHandler,
       HandlerEnds, HandlerThrows, HandlerReturns
<1>2. Resolved
  BY DEF ResolveObjectList, ResolveUnknownObject, ResolveDefault, HandlerRefused, HandlerEnds,
     HandlerThrows, HandlerReturns
<1>3. \E result \in {"value", "unknown-object", "unknown-property", "invalid-index", "datatype"},
         said \in {"value", "null", "unencodable", "threw", "not asked", "refused"} : Add(result, said)
  <2>1. CASE ResolveObjectList
    BY <2>1 DEF ResolveObjectList
  <2>2. CASE ResolveUnknownObject
    BY <2>2 DEF ResolveUnknownObject
  <2>3. CASE ResolveDefault
    BY <2>3 DEF ResolveDefault, Default
  <2>4. CASE HandlerRefused
    BY <2>4 DEF HandlerRefused
  <2>5. CASE HandlerThrows
    BY <2>5 DEF HandlerThrows
  <2>6. ASSUME NEW said \in {"value", "null", "unencodable"}, HandlerReturns(said)
        PROVE  \E result \in {"value", "unknown-object", "unknown-property", "invalid-index", "datatype"} :
                   Add(result, said)
    <3>1. CASE said = "value"
      BY <2>6, <3>1 DEF HandlerReturns
    <3>2. CASE said = "null"
      BY <2>6, <3>2 DEF HandlerReturns, Default
    <3>3. CASE said = "unencodable"
      BY <2>6, <3>3 DEF HandlerReturns
    <3>4. QED
      BY <3>1, <3>2, <3>3
  <2>7. QED
    BY <2>1, <2>2, <2>3, <2>4, <2>5, <2>6 DEF HandlerEnds
<1>4. QED
  BY <1>1, <1>2, <1>3

LEMMA ResolveKeeps ==
    ASSUME IInv,
           \/ ResolveObjectList \/ ResolveUnknownObject \/ ResolveDefault \/ HandlerRefused
           \/ HandlerEnds
    PROVE  IInv'
BY ResolveAdds, AddKeeps

-----------------------------------------------------------------------------
(* The running poll() ends.                                                 *)

LEMMA PopKeeps ==
    ASSUME IInv, polls # <<>>, Pop, Leaves(Top.num), Answered
    PROVE  IInv'
<1> DEFINE n == Top.num
<1>1. TypeOK /\ polls \in Seq(Poll) /\ Top = polls[Len(polls)] /\ NumsOK /\ NoneForgotten /\ Unique(polls)
      /\ Len(polls) \in Nat
  BY TopIsLast DEF IInv, NumsOK
<1>2. /\ polls' \in Seq(Poll) /\ Len(polls') = Len(polls) - 1
      /\ \A i \in DOMAIN polls' : i \in DOMAIN polls /\ polls'[i] = polls[i] /\ i \in 1..(Len(polls) - 1)
      /\ Nums(polls) = Nums(polls') \cup {n} /\ Unique(polls') /\ n \notin Nums(polls')
  BY <1>1, FrontNums DEF Pop
<1> HIDE DEF n
<1>3. n \in 1..arrivals /\ n \notin malformed \cup thrown \cup Nums(answers) /\ n \notin Nums(socket)
  BY <1>1, <1>2 DEF NumsOK
<1>4. /\ answers' \in Seq(Answer) /\ malformed' \cup thrown' \subseteq 1..arrivals
      /\ Unique(answers') /\ Nums(answers') \cap (malformed' \cup thrown') = {}
      /\ Nums(answers') \subseteq 1..arrivals
      /\ malformed' \cup thrown' \cup Nums(answers')
           \subseteq malformed \cup thrown \cup Nums(answers) \cup {n}
      /\ Nums(answers) \cup thrown \subseteq Nums(answers') \cup thrown'
      /\ n \in owed => n \in Nums(answers') \cup thrown'
  <2>1. Leaves(n)
    BY DEF n
  <2>2. QED
    BY <1>1, <1>3, <2>1, LeavesOnce DEF NumsOK
<1>5. UNCHANGED <<local_objects, read_handler_set, auto_iam, socket, owed, arrivals, changes>>
  BY DEF Answered, registry
<1>6. TypeOK'
  <2>1. \A i \in 1..(Len(polls') - 1) : polls'[i].calling
    <3>1. DOMAIN polls' = 1..Len(polls')
      BY <1>2, LenProperties
    <3>2. \A i \in 1..(Len(polls') - 1) : i \in DOMAIN polls'
      BY <1>1, <1>2, <3>1
    <3>3. QED
      BY <1>1, <1>2, <3>2 DEF TypeOK
  <2>2. \A i \in DOMAIN polls' : Len(polls'[i].results) <= Len(polls'[i].request.refs)
    BY <1>1, <1>2 DEF TypeOK
  <2>3. QED
    BY <1>1, <1>2, <1>4, <1>5, <2>1, <2>2 DEF TypeOK
<1>7. (\A i \in DOMAIN polls : PollOK(polls[i]))'
  <2>1. \A i \in DOMAIN polls' : PollOK(polls'[i])
    BY <1>2 DEF IInv
  <2>2. QED
    BY <2>1, <1>5 DEF PollOK, Sound
<1>8. (\A i \in DOMAIN socket : Sound(socket[i].num, socket[i].request))'
  BY <1>5 DEF IInv, Sound
<1>9. NumsOK'
  <2>1. /\ Nums(socket) \cup Nums(polls') \cup Nums(answers') \subseteq 1..arrivals
        /\ Unique(socket) /\ Unique(polls') /\ Unique(answers')
        /\ Nums(socket) \cap Nums(polls') = {}
        /\ (Nums(socket) \cup Nums(polls')) \cap (malformed' \cup thrown' \cup Nums(answers')) = {}
        /\ Nums(answers') \cap (malformed' \cup thrown') = {}
    BY <1>1, <1>2, <1>3, <1>4 DEF NumsOK
  <2>2. QED
    BY <2>1, <1>5 DEF NumsOK
<1>10. NoneForgotten'
  <2>1. owed \subseteq Nums(socket) \cup Nums(polls') \cup Nums(answers') \cup thrown'
    BY <1>1, <1>2, <1>4 DEF NoneForgotten
  <2>2. QED
    BY <2>1, <1>5 DEF NoneForgotten
<1>11. QED
  BY <1>6, <1>7, <1>8, <1>9, <1>10 DEF IInv

LEMMA AnswerKeeps ==
    ASSUME IInv, AnswerRead \/ AnswerMultiple \/ AnswerAbort
    PROVE  IInv'
<1>1. polls # <<>> /\ Pop /\ Answered
  BY DEF AnswerRead, AnswerMultiple, AnswerAbort, Complete, Serving
<1>2. Top.results \in Seq(Entry) /\ <<>> \in Seq(Entry) /\ Sound(Top.num, Top.request)
  BY <1>1, TopIsLast, EmptySeq DEF PollOK
<1>3. Leaves(Top.num)
  <2>1. CASE AnswerRead
    BY <2>1, <1>2 DEF AnswerRead, Leaves
  <2>2. CASE AnswerMultiple
    BY <2>2, <1>2 DEF AnswerMultiple, Leaves, Sound
  <2>3. CASE AnswerAbort
    BY <2>3, <1>2 DEF AnswerAbort, Leaves
  <2>4. QED
    BY <2>1, <2>2, <2>3
<1>4. QED
  BY <1>1, <1>3, PopKeeps

-----------------------------------------------------------------------------
(* The script and the network.                                              *)

LEMMA ChangeKeeps ==
    ASSUME IInv, Change
    PROVE  IInv'
<1>1. UNCHANGED <<socket, polls, answers, malformed, thrown, owed, arrivals>>
  BY DEF Change, outcome
<1>2. TypeOK
  BY DEF IInv
<1>3. local_objects' \subseteq Objects /\ {read_handler_set', auto_iam'} \subseteq BOOLEAN /\ changes' \in Nat
  <2>1. local_objects \subseteq Objects /\ read_handler_set \in BOOLEAN /\ auto_iam \in BOOLEAN /\ changes \in Nat
    BY <1>2 DEF TypeOK
  <2>2. changes' \in Nat
    BY <2>1 DEF Change
  <2>3. local_objects' \subseteq Objects /\ read_handler_set' \in BOOLEAN /\ auto_iam' \in BOOLEAN
    BY <2>1 DEF Change
  <2>4. QED
    BY <2>2, <2>3
<1>4. TypeOK'
  BY <1>1, <1>2, <1>3 DEF TypeOK
<1>5. QED
  BY <1>1, <1>4 DEF IInv, PollOK, Sound, NumsOK, NoneForgotten

LEMMA ArriveKeeps ==
    ASSUME IInv, NEW r \in Requests, Arrive(r)
    PROVE  IInv'
<1> DEFINE T == [num : Nat, request : Requests]
           n == arrivals + 1
           q == [num |-> n, request |-> r]
<1>1. TypeOK /\ socket \in Seq(T) /\ NumsOK /\ NoneForgotten /\ arrivals \in Nat
      /\ malformed \cup thrown \cup owed \subseteq 1..arrivals
  BY DEF IInv, TypeOK
<1>2. q \in T /\ q.num = n /\ q.request = r
  BY <1>1
<1>3. UNCHANGED <<local_objects, read_handler_set, auto_iam, polls, answers, malformed, thrown, changes>>
      /\ arrivals' = n /\ socket' = Append(socket, q)
  BY DEF Arrive, registry, outcome
<1>4. n \in 1..arrivals' /\ n \notin 1..arrivals /\ 1..arrivals \subseteq 1..arrivals' /\ n \in Nat
  BY <1>1, <1>3
<1>5. owed' \in {owed, owed \cup {n}}
      /\ (n \in owed' => ~r.broken /\ ~r.empty /\ r.kind \in {"read", "multiple"})
  BY <1>1, <1>4 DEF Arrive
<1> HIDE DEF q, T
<1>6. /\ socket' \in Seq(T)
      /\ \A i \in DOMAIN socket : i \in DOMAIN socket' /\ socket'[i] = socket[i]
      /\ \A i \in DOMAIN socket' : i = Len(socket) + 1 \/ i \in DOMAIN socket
      /\ socket'[Len(socket) + 1] = q
      /\ Nums(socket') = Nums(socket) \cup {n}
      /\ Unique(socket) /\ n \notin Nums(socket) => Unique(socket')
  BY <1>1, <1>2, <1>3, AppendNums
<1>7. n \notin Nums(socket) \cup Nums(polls) \cup Nums(answers) \cup malformed \cup thrown
  BY <1>1, <1>4 DEF NumsOK
<1> HIDE DEF n
<1>8. TypeOK'
  <2>1. malformed' \cup thrown' \cup owed' \subseteq 1..arrivals'
    BY <1>1, <1>3, <1>4, <1>5
  <2>2. socket' \in Seq([num : Nat, request : Requests])
    BY <1>6 DEF T
  <2>3. {arrivals', changes'} \subseteq Nat
    BY <1>1, <1>3, <1>4 DEF TypeOK
  <2>4. QED
    BY <1>1, <1>3, <2>1, <2>2, <2>3 DEF TypeOK
<1>9. (\A i \in DOMAIN polls : PollOK(polls[i]))'
  <2> SUFFICES ASSUME NEW i \in DOMAIN polls PROVE PollOK(polls[i])'
    BY <1>3
  <2>1. PollOK(polls[i]) /\ polls[i].num \in Nums(polls)
    BY DEF IInv, Nums
  <2>2. polls[i].num # n
    BY <2>1, <1>7
  <2>3. QED
    BY <2>1, <2>2, <1>3, <1>5 DEF PollOK, Sound
<1>10. (\A i \in DOMAIN socket : Sound(socket[i].num, socket[i].request))'
  <2>1. ASSUME NEW i \in DOMAIN socket PROVE socket[i].num \in owed' => socket[i].num \in owed
    <3>1. socket[i].num \in Nums(socket)
      BY DEF Nums
    <3>2. QED
      BY <3>1, <1>5, <1>7
  <2>2. \A i \in DOMAIN socket' : socket'[i].num \in owed' =>
          /\ ~socket'[i].request.broken /\ ~socket'[i].request.empty
          /\ socket'[i].request.kind \in {"read", "multiple"}
    BY <2>1, <1>2, <1>5, <1>6 DEF IInv, Sound
  <2>3. QED
    BY <2>2 DEF Sound
<1>11. NumsOK'
  <2>1. /\ Nums(socket') \cup Nums(polls) \cup Nums(answers) \subseteq 1..arrivals'
        /\ Unique(socket') /\ Unique(polls) /\ Unique(answers)
        /\ Nums(socket') \cap Nums(polls) = {}
        /\ (Nums(socket') \cup Nums(polls)) \cap (malformed \cup thrown \cup Nums(answers)) = {}
        /\ Nums(answers) \cap (malformed \cup thrown) = {}
    BY <1>1, <1>4, <1>6, <1>7 DEF NumsOK
  <2>2. QED
    BY <2>1, <1>3 DEF NumsOK
<1>12. NoneForgotten'
  <2>1. owed' \subseteq Nums(socket') \cup Nums(polls) \cup Nums(answers) \cup thrown
    BY <1>1, <1>5, <1>6 DEF NoneForgotten
  <2>2. QED
    BY <2>1, <1>3 DEF NoneForgotten
<1>13. QED
  BY <1>8, <1>9, <1>10, <1>11, <1>12 DEF IInv

-----------------------------------------------------------------------------
(* Every step keeps the invariant.                                          *)

LEMMA InitHolds == Init => IInv
<1> SUFFICES ASSUME Init PROVE IInv
  OBVIOUS
<1>1. DOMAIN <<>> = {} /\ \A S : <<>> \in Seq(S)
  BY EmptySeq
<1>2. TypeOK
  <2>1. /\ local_objects = {} /\ read_handler_set = FALSE /\ auto_iam = TRUE
        /\ socket = <<>> /\ polls = <<>> /\ answers = <<>>
        /\ malformed = {} /\ thrown = {} /\ owed = {} /\ arrivals = 0 /\ changes = 0
    BY DEF Init
  <2>2. Len(polls) = 0 /\ 1..(Len(polls) - 1) = {}
    BY <2>1, EmptySeq
  <2>3. {arrivals, changes} \subseteq Nat /\ {read_handler_set, auto_iam} \subseteq BOOLEAN
    <3>1. arrivals \in Nat /\ changes \in Nat
      BY <2>1
    <3>2. read_handler_set \in BOOLEAN /\ auto_iam \in BOOLEAN
      BY <2>1
    <3>3. QED
      BY <3>1, <3>2
  <2>4. QED
    BY <1>1, <2>1, <2>2, <2>3 DEF TypeOK
<1>3. Nums(<<>>) = {} /\ Unique(<<>>)
  BY <1>1 DEF Nums, Unique
<1>4. QED
  BY <1>1, <1>2, <1>3 DEF Init, IInv, NumsOK, NoneForgotten

LEMMA NextKeeps == IInv /\ [Next]_vars => IInv'
<1> SUFFICES ASSUME IInv, [Next]_vars PROVE IInv'
  OBVIOUS
<1>1. CASE TakeRequest
  BY <1>1, TakeRequestKeeps
<1>2. CASE Step
  BY <1>2, CallHandlerKeeps, ResolveKeeps, AnswerKeeps DEF Step
<1>3. CASE Change
  BY <1>3, ChangeKeeps
<1>4. ASSUME NEW r \in Requests, Arrive(r) PROVE IInv'
  BY <1>4, ArriveKeeps
<1>5. CASE UNCHANGED vars
  BY <1>5 DEF vars, registry, outcome, IInv, TypeOK, PollOK, Sound, NumsOK, NoneForgotten
<1>6. QED
  BY <1>1, <1>2, <1>3, <1>4, <1>5 DEF Next

LEMMA Invariant == Spec => []IInv
BY InitHolds, NextKeeps, PTL DEF Spec

-----------------------------------------------------------------------------
(* The refinement: what the network sees of a state, entry by entry.        *)

LEMMA FrontIs ==
    ASSUME NEW S, NEW s \in Seq(S), s # <<>>
    PROVE  LET t == SubSeq(s, 1, Len(s) - 1) IN
           t \in Seq(S) /\ Len(t) = Len(s) - 1 /\ \A i \in 1..(Len(s) - 1) : t[i] = s[i]
<1> DEFINE n == Len(s) - 1
<1>1. n \in Nat /\ \A i \in 1..n : s[i] \in S
  <2>1. Len(s) \in Nat /\ Len(s) > 0
    BY LenProperties, EmptySeq
  <2>2. QED
    BY <2>1, LenProperties
<1> HIDE DEF n
<1>2. /\ SubSeq(s, 1, n) \in Seq(S)
      /\ Len(SubSeq(s, 1, n)) = IF 1 <= n THEN n - 1 + 1 ELSE 0
      /\ \A i \in 1..(n - 1 + 1) : SubSeq(s, 1, n)[i] = s[1 + i - 1]
  BY <1>1, SubSeqProperties
<1>3. Len(SubSeq(s, 1, n)) = n
  BY <1>1, <1>2
<1>4. ASSUME NEW i \in 1..n PROVE SubSeq(s, 1, n)[i] = s[i]
  <2>1. 1 + i - 1 = i /\ n - 1 + 1 = n
    BY <1>1
  <2>2. QED
    BY <1>2, <2>1
<1>5. QED
  BY <1>2, <1>3, <1>4 DEF n

BegunIn(s) == [i \in DOMAIN s |-> Begun(s[i])]
BegunInSet == { Begun(x) : x \in Poll }

LEMMA BegunInTyped ==
    \A s \in Seq(Poll) :
        /\ BegunIn(s) \in Seq(BegunInSet) /\ Len(BegunIn(s)) = Len(s)
        /\ \A i \in 1..Len(s) : BegunIn(s)[i] = Begun(s[i])
<1> SUFFICES ASSUME NEW s \in Seq(Poll)
             PROVE  /\ BegunIn(s) \in Seq(BegunInSet) /\ Len(BegunIn(s)) = Len(s)
                    /\ \A i \in 1..Len(s) : BegunIn(s)[i] = Begun(s[i])
  OBVIOUS
<1> DEFINE n == Len(s)
           m == BegunIn(s)
<1>1. n \in Nat /\ DOMAIN s = 1..n /\ \A i \in 1..n : s[i] \in Poll
  BY LenProperties, ElementOfSeq
<1>2. DOMAIN m = 1..n /\ \A i \in 1..n : m[i] = Begun(s[i])
  BY <1>1 DEF BegunIn
<1>3. \A i \in 1..n : Begun(s[i]) \in BegunInSet
  BY <1>1 DEF BegunInSet
<1>4. m = [i \in 1..n |-> Begun(s[i])]
  BY <1>1 DEF BegunIn
<1>5. m \in [1..n -> BegunInSet]
  BY <1>3, <1>4
<1> HIDE DEF m, n
<1>6. m \in Seq(BegunInSet)
  BY <1>1, <1>5, SeqDef
<1>7. Len(m) = n
  BY <1>1, <1>2, <1>6, LenProperties
<1>8. QED
  BY <1>2, <1>6, <1>7 DEF m, n

LEMMA BegunInAppend ==
    ASSUME NEW s \in Seq(Poll), NEW e \in Poll
    PROVE  BegunIn(Append(s, e)) = Append(BegunIn(s), Begun(e))
<1> DEFINE t == Append(s, e)
           n == Len(s)
           m == BegunIn(s)
           d == Begun(e)
<1>1. n \in Nat /\ d \in BegunInSet
  BY LenProperties DEF BegunInSet
<1>2. t \in Seq(Poll) /\ Len(t) = n + 1 /\ t[n + 1] = e /\ \A i \in 1..n : t[i] = s[i]
  BY AppendProperties
<1>3. m \in Seq(BegunInSet) /\ Len(m) = n /\ \A i \in 1..n : m[i] = Begun(s[i])
  BY BegunInTyped
<1> HIDE DEF t, n, m
<1> DEFINE u == BegunIn(t)
           v == Append(m, d)
<1>4. u \in Seq(BegunInSet) /\ Len(u) = n + 1 /\ \A i \in 1..(n + 1) : u[i] = Begun(t[i])
  BY <1>2, BegunInTyped
<1> HIDE DEF u, d
<1>5. v \in Seq(BegunInSet) /\ Len(v) = n + 1 /\ v[n + 1] = d /\ \A i \in 1..n : v[i] = m[i]
  BY <1>1, <1>3, AppendProperties
<1> HIDE DEF v
<1>6. ASSUME NEW i \in 1..(n + 1) PROVE u[i] = v[i]
  <2>1. CASE i = n + 1
    BY <2>1, <1>2, <1>4, <1>5 DEF d
  <2>2. CASE i \in 1..n
    BY <2>2, <1>2, <1>3, <1>4, <1>5
  <2>3. QED
    BY <2>1, <2>2, <1>1, Indices
<1>7. u = v
  BY <1>4, <1>5, <1>6, SeqEqual
<1>8. QED
  BY <1>7 DEF u, v, t, m, d

OutlineIn(s) == [i \in DOMAIN s |-> Outline(s[i])]
OutlineInSet == { Outline(x) : x \in Answer }

LEMMA OutlineInTyped ==
    \A s \in Seq(Answer) :
        /\ OutlineIn(s) \in Seq(OutlineInSet) /\ Len(OutlineIn(s)) = Len(s)
        /\ \A i \in 1..Len(s) : OutlineIn(s)[i] = Outline(s[i])
<1> SUFFICES ASSUME NEW s \in Seq(Answer)
             PROVE  /\ OutlineIn(s) \in Seq(OutlineInSet) /\ Len(OutlineIn(s)) = Len(s)
                    /\ \A i \in 1..Len(s) : OutlineIn(s)[i] = Outline(s[i])
  OBVIOUS
<1> DEFINE n == Len(s)
           m == OutlineIn(s)
<1>1. n \in Nat /\ DOMAIN s = 1..n /\ \A i \in 1..n : s[i] \in Answer
  BY LenProperties, ElementOfSeq
<1>2. DOMAIN m = 1..n /\ \A i \in 1..n : m[i] = Outline(s[i])
  BY <1>1 DEF OutlineIn
<1>3. \A i \in 1..n : Outline(s[i]) \in OutlineInSet
  BY <1>1 DEF OutlineInSet
<1>4. m = [i \in 1..n |-> Outline(s[i])]
  BY <1>1 DEF OutlineIn
<1>5. m \in [1..n -> OutlineInSet]
  BY <1>3, <1>4
<1> HIDE DEF m, n
<1>6. m \in Seq(OutlineInSet)
  BY <1>1, <1>5, SeqDef
<1>7. Len(m) = n
  BY <1>1, <1>2, <1>6, LenProperties
<1>8. QED
  BY <1>2, <1>6, <1>7 DEF m, n

LEMMA OutlineInAppend ==
    ASSUME NEW s \in Seq(Answer), NEW e \in Answer
    PROVE  OutlineIn(Append(s, e)) = Append(OutlineIn(s), Outline(e))
<1> DEFINE t == Append(s, e)
           n == Len(s)
           m == OutlineIn(s)
           d == Outline(e)
<1>1. n \in Nat /\ d \in OutlineInSet
  BY LenProperties DEF OutlineInSet
<1>2. t \in Seq(Answer) /\ Len(t) = n + 1 /\ t[n + 1] = e /\ \A i \in 1..n : t[i] = s[i]
  BY AppendProperties
<1>3. m \in Seq(OutlineInSet) /\ Len(m) = n /\ \A i \in 1..n : m[i] = Outline(s[i])
  BY OutlineInTyped
<1> HIDE DEF t, n, m
<1> DEFINE u == OutlineIn(t)
           v == Append(m, d)
<1>4. u \in Seq(OutlineInSet) /\ Len(u) = n + 1 /\ \A i \in 1..(n + 1) : u[i] = Outline(t[i])
  BY <1>2, OutlineInTyped
<1> HIDE DEF u, d
<1>5. v \in Seq(OutlineInSet) /\ Len(v) = n + 1 /\ v[n + 1] = d /\ \A i \in 1..n : v[i] = m[i]
  BY <1>1, <1>3, AppendProperties
<1> HIDE DEF v
<1>6. ASSUME NEW i \in 1..(n + 1) PROVE u[i] = v[i]
  <2>1. CASE i = n + 1
    BY <2>1, <1>2, <1>4, <1>5 DEF d
  <2>2. CASE i \in 1..n
    BY <2>2, <1>2, <1>3, <1>4, <1>5
  <2>3. QED
    BY <2>1, <2>2, <1>1, Indices
<1>7. u = v
  BY <1>4, <1>5, <1>6, SeqEqual
<1>8. QED
  BY <1>7 DEF u, v, t, m, d

LEMMA BegunInFront ==
    ASSUME NEW s \in Seq(Poll), s # <<>>
    PROVE  /\ BegunIn(s) # <<>> /\ BegunIn(s)[Len(BegunIn(s))] = Begun(s[Len(s)])
           /\ BegunIn(SubSeq(s, 1, Len(s) - 1)) = SubSeq(BegunIn(s), 1, Len(BegunIn(s)) - 1)
<1> DEFINE n == Len(s)
           t == SubSeq(s, 1, n - 1)
           m == BegunIn(s)
<1>1. n \in Nat /\ n > 0
  BY LenProperties, EmptySeq
<1>2. t \in Seq(Poll) /\ Len(t) = n - 1 /\ \A i \in 1..(n - 1) : t[i] = s[i]
  BY FrontIs
<1>3. m \in Seq(BegunInSet) /\ Len(m) = n /\ \A i \in 1..n : m[i] = Begun(s[i])
  BY BegunInTyped
<1> HIDE DEF t, n, m
<1>4. m # <<>>
  BY <1>1, <1>3, EmptySeq
<1> DEFINE u == BegunIn(t)
           v == SubSeq(m, 1, n - 1)
<1>5. v \in Seq(BegunInSet) /\ Len(v) = n - 1 /\ \A i \in 1..(n - 1) : v[i] = m[i]
  BY <1>3, <1>4, FrontIs
<1>6. u \in Seq(BegunInSet) /\ Len(u) = n - 1 /\ \A i \in 1..(n - 1) : u[i] = Begun(t[i])
  BY <1>2, BegunInTyped
<1> HIDE DEF u, v
<1>7. ASSUME NEW i \in 1..(n - 1) PROVE u[i] = v[i]
  <2>1. i \in 1..n
    BY <1>1, Indices
  <2>2. QED
    BY <2>1, <1>2, <1>3, <1>5, <1>6
<1>8. u = v
  BY <1>5, <1>6, <1>7, SeqEqual
<1>9. m[n] = Begun(s[n])
  BY <1>1, <1>3
<1>10. QED
  BY <1>3, <1>4, <1>8, <1>9 DEF u, v, t, m, n

LEMMA PollBegins ==
    ASSUME polls \in Seq(Poll), NEW f \in Poll, polls' = Append(polls, f)
    PROVE  BegunPolls' = Append(BegunPolls, Begun(f))
<1>1. BegunPolls = BegunIn(polls) /\ BegunPolls' = BegunIn(polls')
  BY DEF BegunPolls, BegunIn
<1>2. QED
  BY <1>1, BegunInAppend

LEMMA PollEnds ==
    ASSUME polls \in Seq(Poll), polls # <<>>, Pop
    PROVE  /\ BegunPolls # <<>> /\ BegunPolls[Len(BegunPolls)] = Begun(Top)
           /\ BegunPolls' = SubSeq(BegunPolls, 1, Len(BegunPolls) - 1)
<1>1. BegunPolls = BegunIn(polls) /\ BegunPolls' = BegunIn(polls')
  BY DEF BegunPolls, BegunIn
<1>2. polls' = SubSeq(polls, 1, Len(polls) - 1) /\ Top = polls[Len(polls)]
  BY DEF Pop, Top
<1>3. QED
  BY <1>1, <1>2, BegunInFront

(* A poll that goes on shows nothing.                                       *)
LEMMA PollGoesOn ==
    ASSUME polls \in Seq(Poll), polls # <<>>, NEW f, polls' = [polls EXCEPT ![Len(polls)] = f],
           f.num = Top.num, f.request = Top.request
    PROVE  BegunPolls' = BegunPolls
<1>1. Begun(f) = Begun(Top) /\ Top = polls[Len(polls)]
  BY DEF Begun, Top
<1>2. DOMAIN polls' = DOMAIN polls
  OBVIOUS
<1>3. ASSUME NEW i \in DOMAIN polls PROVE Begun(polls'[i]) = Begun(polls[i])
  <2>1. CASE i = Len(polls)
    <3>1. polls'[i] = f
      BY <2>1
    <3>2. QED
      BY <2>1, <3>1, <1>1
  <2>2. CASE i # Len(polls)
    <3>1. polls'[i] = polls[i]
      BY <2>2
    <3>2. QED
      BY <3>1
  <2>3. QED
    BY <2>1, <2>2
<1>4. [i \in DOMAIN polls' |-> Begun(polls'[i])] = [i \in DOMAIN polls |-> Begun(polls[i])]
  BY <1>2, <1>3
<1>5. QED
  BY <1>4 DEF BegunPolls

LEMMA AnswerShows ==
    ASSUME answers \in Seq(Answer), NEW n \in Nat, NEW k \in {"ack", "error", "abort", "reject", "i-am"},
           NEW rs \in Seq(Entry), Send(n, k, rs)
    PROVE  Outlines' = Append(Outlines, [num |-> n, kind |-> k, refs |-> [i \in DOMAIN rs |-> rs[i].ref]])
<1> DEFINE a == [num |-> n, kind |-> k, results |-> rs]
<1>1. a \in Answer /\ Outline(a) = [num |-> n, kind |-> k, refs |-> [i \in DOMAIN rs |-> rs[i].ref]]
  BY DEF Answer, Outline
<1>2. answers' = Append(answers, a)
  BY DEF Send
<1> HIDE DEF a
<1>3. Outlines = OutlineIn(answers) /\ Outlines' = OutlineIn(answers')
  BY DEF Outlines, OutlineIn
<1>4. QED
  BY <1>1, <1>2, <1>3, OutlineInAppend

LEMMA EmptyRefs == [i \in DOMAIN <<>> |-> (<<>>)[i].ref] = <<>> /\ <<>> \in Seq(Entry)
<1> DEFINE f == [i \in DOMAIN <<>> |-> (<<>>)[i].ref]
<1>1. DOMAIN <<>> = {} /\ <<>> \in Seq(Entry)
  BY EmptySeq
<1>2. f \in [1..0 -> Ref] /\ DOMAIN f = 1..0
  BY <1>1
<1> HIDE DEF f
<1>3. f \in Seq(Ref)
  BY <1>2, SeqDef
<1>4. Len(f) = 0
  BY <1>2, <1>3, LenProperties
<1>5. f = <<>>
  BY <1>3, <1>4, EmptySeq
<1>6. QED
  BY <1>1, <1>5 DEF f

\* The entries of a complete poll are about just the properties asked for.
LEMMA RefsMatch ==
    ASSUME NEW f \in Poll, PollOK(f), Len(f.results) = Len(f.request.refs)
    PROVE  [i \in DOMAIN f.results |-> f.results[i].ref] = f.request.refs
<1> DEFINE rs == f.results
           refs == f.request.refs
           n == Len(rs)
<1>1. rs \in Seq(Entry) /\ f.request \in Request
  BY DEF Poll
<1>2. refs \in Seq(Ref) /\ \A k \in DOMAIN rs : rs[k].ref = refs[k]
  BY <1>1 DEF Request, PollOK
<1>3. Len(refs) = n
  OBVIOUS
<1> HIDE DEF rs, refs
<1>4. DOMAIN rs = 1..n /\ refs \in [1..n -> Ref]
  BY <1>1, <1>2, <1>3, LenProperties
<1>5. [i \in DOMAIN rs |-> rs[i].ref] = [i \in 1..n |-> refs[i]]
  BY <1>2, <1>4
<1>6. [i \in 1..n |-> refs[i]] = refs
  BY <1>4
<1>7. QED
  BY <1>5, <1>6 DEF rs, refs

LEMMA ArriveArrives ==
    ASSUME NEW r \in Requests, Arrive(r)
    PROVE  Service!Arrive(r)
<1>1. UNCHANGED <<polls, answers>> /\ arrivals' = arrivals + 1
      /\ socket' = Append(socket, [num |-> arrivals + 1, request |-> r])
  BY DEF Arrive, outcome
<1>2. UNCHANGED <<BegunPolls, Outlines>>
  BY <1>1 DEF BegunPolls, Outlines
<1>3. QED
  BY <1>1, <1>2 DEF Service!Arrive

LEMMA PollTakesUp ==
    ASSUME IInv, CanPoll
    PROVE  /\ socket # <<>> /\ socket' = Tail(socket) /\ answers \in Seq(Answer) /\ polls \in Seq(Poll)
           /\ Head(socket).num \in Nat /\ Head(socket).request \in Request
           /\ Head(socket) = [num |-> Head(socket).num, request |-> Head(socket).request]
<1> DEFINE T == [num : Nat, request : Requests]
           q == Head(socket)
<1>1. socket \in Seq(T) /\ socket # <<>> /\ socket' = Tail(socket) /\ answers \in Seq(Answer) /\ polls \in Seq(Poll)
  BY DEF IInv, TypeOK, CanPoll
<1> HIDE DEF T
<1>2. q \in T
  BY <1>1, TailNums
<1> HIDE DEF q
<1>3. q.num \in Nat /\ q.request \in Requests /\ q = [num |-> q.num, request |-> q.request]
  BY <1>2 DEF T
<1>4. q.request \in Request
  BY <1>3, RequestsAssumption
<1>5. QED
  BY <1>1, <1>3, <1>4 DEF q

LEMMA OthersSettleAtOnce ==
    ASSUME IInv, PollMalformed \/ PollWhoIs \/ PollUnrecognized
    PROVE  Service!SettleAtOnce
<1> DEFINE q == Head(socket)
           r == q.request
<1>1. CanPoll /\ UNCHANGED <<polls, arrivals>>
  BY DEF PollMalformed, PollWhoIs, PollUnrecognized
<1>2. socket # <<>> /\ socket' = Tail(socket) /\ answers \in Seq(Answer) /\ q.num \in Nat
  BY <1>1, PollTakesUp
<1>3. Service!TakeUp
  BY <1>1, <1>2 DEF Service!TakeUp
<1> HIDE DEF q
<1>4. ASSUME NEW k \in {"reject", "i-am"}, Send(q.num, k, <<>>) PROVE Service!Send(q, k, <<>>)
  <2>1. Outlines' = Append(Outlines, [num |-> q.num, kind |-> k, refs |-> <<>>])
    <3> DEFINE rs == <<>>
    <3>1. rs \in Seq(Entry) /\ [i \in DOMAIN rs |-> rs[i].ref] = <<>> /\ Send(q.num, k, rs)
      BY <1>4, EmptyRefs
    <3> HIDE DEF rs
    <3>2. q.num \in Nat /\ k \in {"ack", "error", "abort", "reject", "i-am"} /\ answers \in Seq(Answer)
      BY <1>2
    <3>3. Outlines' = Append(Outlines, [num |-> q.num, kind |-> k, refs |-> [i \in DOMAIN rs |-> rs[i].ref]])
      BY <3>1, <3>2, AnswerShows
    <3>4. QED
      BY <3>1, <3>3
  <2>2. QED
    BY <2>1 DEF Service!Send
<1>5. UNCHANGED answers => UNCHANGED Outlines
  BY DEF Outlines
<1>6. ~Service!Readable(r) /\ Service!Settle(q)
  <2>1. CASE PollMalformed
    <3>1. r.broken /\ r.kind \in {"read", "who-is"} /\ UNCHANGED answers
      BY <2>1 DEF PollMalformed, q
    <3>2. ~Service!Readable(r) /\ Service!MayBeSilent(r)
      BY <3>1 DEF Service!Readable, Service!MayBeSilent
    <3>3. QED
      BY <1>5, <3>1, <3>2 DEF Service!Settle
  <2>2. CASE PollWhoIs
    <3>1. r.kind \in {"who-is", "who-is-elsewhere"} /\ ~(r.broken /\ auto_iam)
          /\ IF auto_iam /\ r.kind = "who-is" THEN Send(q.num, "i-am", <<>>) ELSE UNCHANGED answers
      BY <2>2 DEF PollWhoIs, q
    <3>2. ~Service!Readable(r) /\ Service!MayBeSilent(r)
      BY <3>1 DEF Service!Readable, Service!MayBeSilent
    <3>3. CASE UNCHANGED answers
      BY <1>5, <3>2, <3>3 DEF Service!Settle
    <3>4. CASE r.kind = "who-is" /\ ~r.broken /\ Send(q.num, "i-am", <<>>)
      BY <1>4, <3>2, <3>4 DEF Service!Settle
    <3>5. QED
      BY <3>1, <3>3, <3>4
  <2>3. CASE PollUnrecognized
    <3>1. r.kind = "other" /\ Send(q.num, "reject", <<>>)
      BY <2>3 DEF PollUnrecognized, q
    <3>2. Service!Send(q, "reject", <<>>)
      BY <1>4, <3>1
    <3>3. QED
      BY <3>1, <3>2 DEF Service!Settle, Service!Readable
  <2>4. QED
    BY <2>1, <2>2, <2>3
<1>7. UNCHANGED BegunPolls
  BY <1>1 DEF BegunPolls
<1>8. QED
  BY <1>3, <1>6, <1>7 DEF Service!SettleAtOnce, q

LEMMA PollReadBegins ==
    ASSUME IInv, PollRead
    PROVE  Service!Begin
<1> DEFINE q == Head(socket)
           f == [num |-> q.num, request |-> q.request, results |-> <<>>, calling |-> FALSE, threw |-> FALSE]
<1>1. CanPoll /\ UNCHANGED <<answers, arrivals>>
  BY DEF PollRead, outcome
<1>2. /\ socket # <<>> /\ socket' = Tail(socket) /\ polls \in Seq(Poll)
      /\ q.num \in Nat /\ q.request \in Request /\ q = [num |-> q.num, request |-> q.request]
  BY <1>1, PollTakesUp
<1>3. q.request.kind \in {"read", "multiple"} /\ (q.request.kind = "read" => ~q.request.broken)
      /\ polls' = Append(polls, f)
  BY DEF PollRead
<1> HIDE DEF q
<1>4. f \in Poll /\ Begun(f) = q
  BY <1>2, EmptySeq DEF Poll, Begun
<1> HIDE DEF f
<1>5. BegunPolls' = Append(BegunPolls, q)
  BY <1>2, <1>3, <1>4, PollBegins
<1>6. UNCHANGED Outlines
  BY <1>1 DEF Outlines
<1>7. Service!TakeUp /\ Service!Readable(q.request)
  BY <1>1, <1>2, <1>3 DEF Service!TakeUp, Service!Readable
<1>8. QED
  BY <1>5, <1>6, <1>7 DEF Service!Begin, q

LEMMA ReadingStutters ==
    ASSUME IInv, Resolved, polls # <<>>,
           \/ CallHandler
           \/ \E result, said : Add(result, said)
    PROVE  UNCHANGED Service!vars
<1>1. UNCHANGED <<socket, answers, arrivals>>
  BY DEF Resolved, outcome
<1>2. polls \in Seq(Poll) /\ Len(polls) \in DOMAIN polls /\ Top = polls[Len(polls)] /\ Top \in Poll
      /\ Top.results \in Seq(Entry)
  BY TopIsLast
<1>3. UNCHANGED BegunPolls
  <2>1. CASE CallHandler
    <3> DEFINE f == [Top EXCEPT !.calling = TRUE]
    <3>1. f \in Poll /\ f.num = Top.num /\ f.request = Top.request
      BY <1>2 DEF Poll
    <3>2. polls' = [polls EXCEPT ![Len(polls)] = f]
      BY <1>2, <2>1 DEF CallHandler
    <3> HIDE DEF f
    <3>3. QED
      BY <1>2, <3>1, <3>2, PollGoesOn
  <2>2. ASSUME NEW result, NEW said, Add(result, said) PROVE UNCHANGED BegunPolls
    <3> DEFINE e == [ref |-> NextRef, result |-> result, said |-> said]
               f == Updated(Top, Append(Top.results, e), Top.threw \/ said = "threw")
    <3>1. polls' = [polls EXCEPT ![Len(polls)] = f]
      BY <1>2, <2>2 DEF Add, Updated
    <3>2. f.num = Top.num /\ f.request = Top.request
      BY <1>2 DEF Updated, Poll
    <3> HIDE DEF f
    <3>3. QED
      BY <1>2, <3>1, <3>2, PollGoesOn
  <2>3. QED
    BY <2>1, <2>2
<1>4. UNCHANGED Outlines
  BY <1>1 DEF Outlines
<1>5. QED
  BY <1>1, <1>3, <1>4 DEF Service!vars

LEMMA AnswerFinishes ==
    ASSUME IInv, AnswerRead \/ AnswerMultiple \/ AnswerAbort
    PROVE  Service!Finish
<1> DEFINE f == Top
           q == Begun(f)
           r == f.request
<1>1. polls # <<>> /\ Pop /\ UNCHANGED <<socket, arrivals>>
  BY DEF AnswerRead, AnswerMultiple, AnswerAbort, Complete, Serving, Answered
<1>2. polls \in Seq(Poll) /\ f \in Poll /\ PollOK(f) /\ f.results \in Seq(Entry)
  BY <1>1, TopIsLast
<1>3. answers \in Seq(Answer)
  BY DEF IInv, TypeOK
<1>4. /\ BegunPolls # <<>> /\ BegunPolls[Len(BegunPolls)] = q
      /\ BegunPolls' = SubSeq(BegunPolls, 1, Len(BegunPolls) - 1)
  BY <1>1, <1>2, PollEnds
<1>5. f.num \in Nat /\ q.num = f.num /\ q.request = r
  BY <1>2 DEF Poll, Begun
<1>6. UNCHANGED answers => UNCHANGED Outlines
  BY DEF Outlines
<1>7. ASSUME Complete PROVE [i \in DOMAIN f.results |-> f.results[i].ref] = r.refs
  <2>1. Len(f.results) = Len(f.request.refs)
    BY <1>7 DEF Complete
  <2> HIDE DEF f
  <2>2. QED
    BY <1>2, <2>1, RefsMatch
<1> HIDE DEF f, q
<1>8. ASSUME Complete, NEW k \in {"ack", "error"}, Send(f.num, k, f.results)
      PROVE  Service!Send(q, k, r.refs)
  <2>1. Outlines' = Append(Outlines, [num |-> f.num, kind |-> k,
                                      refs |-> [i \in DOMAIN f.results |-> f.results[i].ref]])
    BY <1>2, <1>3, <1>5, <1>8, AnswerShows
  <2>2. QED
    BY <1>5, <1>7, <1>8, <2>1 DEF Service!Send
<1>9. ASSUME Send(f.num, "abort", <<>>) PROVE Service!Send(q, "abort", <<>>)
  <2> DEFINE rs == <<>>
  <2>1. rs \in Seq(Entry) /\ [i \in DOMAIN rs |-> rs[i].ref] = <<>> /\ Send(f.num, "abort", rs)
    BY <1>9, EmptyRefs
  <2> HIDE DEF rs
  <2>2. Outlines' = Append(Outlines, [num |-> f.num, kind |-> "abort", refs |-> [i \in DOMAIN rs |-> rs[i].ref]])
    BY <1>3, <1>5, <2>1, AnswerShows
  <2>3. QED
    BY <1>5, <2>1, <2>2 DEF Service!Send
<1>10. Service!Settle(q)
  <2>1. CASE AnswerRead
    <3>1. Complete /\ r.kind = "read"
          /\ \/ \E k \in {"ack", "error"} : Send(f.num, k, f.results)
             \/ UNCHANGED answers
      BY <2>1 DEF AnswerRead, f
    <3>2. CASE UNCHANGED answers
      BY <1>5, <1>6, <3>1, <3>2 DEF Service!Settle, Service!MayBeSilent
    <3>3. ASSUME NEW k \in {"ack", "error"}, Send(f.num, k, f.results) PROVE Service!Settle(q)
      <4>1. ~r.broken
        BY <1>2, <3>1 DEF PollOK
      <4>2. Service!Send(q, k, r.refs)
        BY <1>8, <3>1, <3>3
      <4>3. QED
        BY <1>5, <3>1, <4>1, <4>2 DEF Service!Settle
    <3>4. QED
      BY <3>1, <3>2, <3>3
  <2>2. CASE AnswerMultiple
    <3>1. Complete /\ r.kind = "multiple"
          /\ \/ (r.broken \/ r.empty) /\ UNCHANGED answers
             \/ ~r.broken /\ ~r.empty /\ Send(f.num, "ack", f.results)
      BY <2>2 DEF AnswerMultiple, f
    <3>2. CASE (r.broken \/ r.empty) /\ UNCHANGED answers
      BY <1>5, <1>6, <3>2 DEF Service!Settle, Service!MayBeSilent
    <3>3. CASE ~r.broken /\ ~r.empty /\ Send(f.num, "ack", f.results)
      BY <1>5, <1>8, <3>1, <3>3 DEF Service!Settle
    <3>4. QED
      BY <3>1, <3>2, <3>3
  <2>3. CASE AnswerAbort
    <3>1. r.kind = "multiple" /\ Send(f.num, "abort", <<>>)
      BY <2>3 DEF AnswerAbort, Aborted, f
    <3>2. QED
      BY <1>5, <1>9, <3>1 DEF Service!Settle
  <2>4. QED
    BY <2>1, <2>2, <2>3
<1>11. QED
  BY <1>1, <1>4, <1>10 DEF Service!Finish

LEMMA StepShows ==
    ASSUME IInv, Step
    PROVE  Service!Finish \/ UNCHANGED Service!vars
<1>1. CASE CallHandler
  <2>1. polls # <<>> /\ Resolved
    BY <1>1 DEF CallHandler, AskHandler, Resolving, Serving
  <2>2. QED
    BY <1>1, <2>1, ReadingStutters
<1>2. CASE ResolveObjectList \/ ResolveUnknownObject \/ ResolveDefault \/ HandlerRefused \/ HandlerEnds
  BY <1>2, ResolveAdds, ReadingStutters
<1>3. CASE AnswerRead \/ AnswerMultiple \/ AnswerAbort
  BY <1>3, AnswerFinishes
<1>4. QED
  BY <1>1, <1>2, <1>3 DEF Step

-----------------------------------------------------------------------------
(* The theorems.                                                            *)

\* Every variable keeps its type, however deep poll() calls nest in the read
\* handler: all running polls but the last are inside it (Server::poll).
THEOREM TypeCorrect == Spec => []TypeOK
<1>1. IInv => TypeOK
  BY DEF IInv
<1>2. QED
  BY <1>1, Invariant, PTL

\* An answer is built from the properties of its own request, in order, whatever
\* nested polls serve meanwhile (php_bacnet_server_resolve_property).
THEOREM AnswersMatchRequests == Spec => []AckCoversRequest
<1>1. IInv => AckCoversRequest
  BY DEF IInv, AckCoversRequest, PollOK
<1>2. QED
  BY <1>1, Invariant, PTL

\* A well-formed read that is no longer in service was answered, or the handler
\* threw for its only property (php_bacnet_server_handle_rp and _rpm).
THEOREM ReadsAreAnswered == Spec => []ReadsAnswered
<1>1. IInv => ReadsAnswered
  BY DEF IInv, NoneForgotten, Nums, ReadsAnswered, InService, Waiting
<1>2. QED
  BY <1>1, Invariant, PTL

\* No request is answered, counted as malformed or given up twice, in whichever
\* order nested polls end.
THEOREM RequestsSettleOnce == Spec => []SettledOnce
<1>1. IInv => SettledOnce
  <2> SUFFICES ASSUME IInv PROVE SettledOnce
    OBVIOUS
  <2>1. NumsOK
    BY DEF IInv
  <2>2. Settled = malformed \cup thrown \cup Nums(answers) /\ InService = Nums(polls) /\ Waiting = Nums(socket)
    BY DEF Settled, InService, Waiting, Nums
  <2>3. Settled \cap (InService \cup Waiting) = {}
    BY <2>1, <2>2 DEF NumsOK
  <2>4. QED
    BY <2>1, <2>3 DEF NumsOK, Nums, Unique, SettledOnce
<1>2. QED
  BY <1>1, Invariant, PTL
\* However polls nest, handlers throw and the registry changes, what the network
\* sees is the service of RequestService: requests taken up in order, each one
\* settled once by an answer about just what it asked for (Server::poll).
THEOREM Refinement == Spec => ServiceSpec
<1>1. Init => Service!Init
  <2> SUFFICES ASSUME Init PROVE Service!Init
    OBVIOUS
  <2>1. arrivals = 0 /\ socket = <<>> /\ polls = <<>> /\ answers = <<>>
    BY DEF Init
  <2>2. \A S : <<>> \in Seq(S)
    BY EmptySeq
  <2>3. BegunPolls = BegunIn(<<>>) /\ Outlines = OutlineIn(<<>>)
    BY <2>1 DEF BegunPolls, BegunIn, Outlines, OutlineIn
  <2>4. BegunIn(<<>>) = <<>> /\ OutlineIn(<<>>) = <<>>
    <3> DEFINE b == BegunIn(<<>>)
               o == OutlineIn(<<>>)
    <3>1. b \in Seq(BegunInSet) /\ Len(b) = 0 /\ o \in Seq(OutlineInSet) /\ Len(o) = 0
      BY <2>2, EmptySeq, BegunInTyped, OutlineInTyped
    <3> HIDE DEF b, o
    <3>2. b = <<>> /\ o = <<>>
      BY <3>1, EmptySeq
    <3>3. QED
      BY <3>2 DEF b, o
  <2>5. QED
    BY <2>1, <2>3, <2>4 DEF Service!Init
<1>2. IInv /\ [Next]_vars => [Service!Next]_(Service!vars)
  <2> SUFFICES ASSUME IInv, [Next]_vars PROVE [Service!Next]_(Service!vars)
    OBVIOUS
  <2>1. CASE TakeRequest
    <3>1. Service!SettleAtOnce \/ Service!Begin
      BY <2>1, OthersSettleAtOnce, PollReadBegins DEF TakeRequest
    <3>2. QED
      BY <3>1 DEF Service!Next
  <2>2. CASE Step
    BY <2>2, StepShows DEF Service!Next
  <2>3. CASE Change \/ UNCHANGED vars
    <3>1. UNCHANGED <<arrivals, socket, polls, answers>>
      BY <2>3 DEF Change, outcome, vars
    <3>2. QED
      BY <3>1 DEF Service!vars, BegunPolls, Outlines
  <2>4. ASSUME NEW r \in Requests, Arrive(r) PROVE Service!Next
    BY <2>4, ArriveArrives DEF Service!Next
  <2>5. QED
    BY <2>1, <2>2, <2>3, <2>4 DEF Next
<1>3. QED
  BY <1>1, <1>2, Invariant, PTL DEF Spec, ServiceSpec, Service!Spec
=============================================================================
