----------------------------- MODULE RpcAbstract -----------------------------
(***************************************************************************)
(* What Dendrite.call promises, whatever the broker does: "RPC request to  *)
(* service, returns result or raises RequestError or RequestTimeout".  A   *)
(* call ends once; what it returns or raises is what the service answered  *)
(* to this very call; a timeout says nothing: the service may have run, may *)
(* run later, and may run twice.                                           *)
(***************************************************************************)
CONSTANTS
    RpcCall,    \* calls
    Answer      \* what a service may answer, results and errors

VARIABLES
    asked,      \* calls that were made
    ran,        \* pairs of a call and an answer the service gave to it
    outcome     \* how each call ended: an answer, "timeout", or "pending"

Init ==
    /\ asked = {} /\ ran = {}
    /\ outcome = [c \in RpcCall |-> "pending"]

Ask(c) ==
    /\ c \notin asked
    /\ asked' = asked \cup {c}
    /\ UNCHANGED <<ran, outcome>>

Run(c, a) ==
    /\ c \in asked
    /\ ran' = ran \cup {<<c, a>>}
    /\ UNCHANGED <<asked, outcome>>

End(c, o) ==
    /\ c \in asked /\ outcome[c] = "pending"
    /\ o = "timeout" \/ <<c, o>> \in ran
    /\ outcome' = [outcome EXCEPT ![c] = o]
    /\ UNCHANGED <<asked, ran>>

Next ==
    \E c \in RpcCall :
       \/ Ask(c)
       \/ \E a \in Answer : Run(c, a)
       \/ \E o \in Answer \cup {"timeout"} : End(c, o)

Spec == Init /\ [][Next]_<<asked, ran, outcome>>
=============================================================================
