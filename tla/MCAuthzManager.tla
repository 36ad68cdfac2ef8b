---------------------------- MODULE MCAuthzManager ----------------------------
(* Small instances of AuthzManager. *)
EXTENDS AuthzManager, TLC

CONSTANTS v1, v2

\* Devices are alike, and so are threads.
ThreadSymmetry == Permutations(Thread)
MacSymmetry == Permutations(Mac)

On(vs) == {"mac_on_vlan"} \X vs
To(vs) == {"mac_to_vlan"} \X vs

\* Authentications: 802.1X lasts till disconnect, a guest's till a date, a
\* visitor's till whichever comes first.
Dot1x == [source |-> "dot1x", till_disconnect |-> TRUE, till |-> MaxTime + 1]
Guest == [source |-> "guest", till_disconnect |-> FALSE, till |-> 1]
Visit == [source |-> "portal", till_disconnect |-> TRUE, till |-> 1]

MCSource == {"dot1x", "guest", "portal"}
TwoAuths == {Dot1x, Guest}
OnlyDot1x == {Dot1x}
OnlyVisit == {Visit}

Full == [assign_vlan |-> v1, rules |-> On({v1}) \cup To({v2}), till_disconnect |-> TRUE, till |-> MaxTime + 1]
Limited == [assign_vlan |-> v1, rules |-> On({v1, v2}), till_disconnect |-> FALSE, till |-> 1]
Narrow == [assign_vlan |-> v1, rules |-> On({v1}), till_disconnect |-> TRUE, till |-> 1]
Waiting == [assign_vlan |-> v1, rules |-> {}, till_disconnect |-> FALSE, till |-> 1]
Quarantine == [assign_vlan |-> v1, rules |-> {}, till_disconnect |-> FALSE, till |-> MaxTime + 1]

\* Policies of CC.  802.1X gives full access, a guest a limited and dated one.
Policy(snap) ==
    IF Dot1x \in snap THEN {Full} ELSE IF Guest \in snap THEN {Limited} ELSE {None}

\* A visitor is let in, on both vlans or on one, and nobody else.
WidePolicy(snap) == IF snap = {} THEN {None} ELSE {Limited}
NarrowPolicy(snap) == IF snap = {} THEN {None} ELSE {Narrow}

\* A guest waits without access, till a date.
OnlyGuest == {Guest}
WaitingPolicy(snap) == IF snap = {} THEN {None} ELSE {Waiting}

\* Whoever is not authenticated is put in quarantine.
QuarantinePolicy(snap) == IF snap = {} THEN {Quarantine} ELSE {Full}
=============================================================================
