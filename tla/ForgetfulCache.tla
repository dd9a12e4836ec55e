--------------------------- MODULE ForgetfulCache ---------------------------
(***************************************************************************)
(* What a cache of remote properties promises: it may forget anything at   *)
(* any time, but what it knows of a property is what the device gave for   *)
(* this very property, at the time it says, and nothing is known longer    *)
(* than its age allows.  What it has forgotten only the device can bring   *)
(* back.                                                                   *)
(***************************************************************************)
EXTENDS Integers

CONSTANTS
    Keys,
    MaxAge   \* of what is known of a key

VARIABLES
    now,
    device,  \* version of each property
    known    \* [key, version, at]: what may be served, and when the device gave it

vars == <<now, device, known>>

Init == now = 0 /\ device = [k \in Keys |-> 0] /\ known = {}

Forget == known' \subseteq known /\ UNCHANGED <<now, device>>

Change(k) ==
    /\ device' = [device EXCEPT ![k] = @ + 1]
    /\ known' \subseteq known
    /\ UNCHANGED now

Learn(k) ==
    /\ known' \subseteq known \cup {[key |-> k, version |-> device[k], at |-> now]}
    /\ UNCHANGED <<now, device>>

Tick ==
    /\ now' = now + 1
    /\ known' \subseteq {f \in known : now' - f.at < MaxAge[f.key]}
    /\ UNCHANGED device

Next == Forget \/ Tick \/ \E k \in Keys : Change(k) \/ Learn(k)

Spec == Init /\ [][Next]_vars
=============================================================================
