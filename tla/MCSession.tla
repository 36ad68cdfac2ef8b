------------------------------ MODULE MCSession ------------------------------
(* Small instances of Session. *)
EXTENDS Session, TLC

CONSTANTS d1, d2, i1, s1

\* Devices and processes are alike.
Symmetry == Permutations(Mac) \cup Permutations(Proc)

PortOf(d, i, s) == [local_id |-> d, interface |-> i, ssid |-> s]

\* Two interfaces of a switch are not told apart by RADIUS alone: the
\* interface, or the SSID of an access point, may be missing.
MCPort == {PortOf(d1, i1, None), PortOf(d1, None, None), PortOf(d2, None, s1)}

\* Calls of seen and end alone.
CallsSpec == Init /\ [][\E p \in Proc : Start(p) \/ Step(p)]_vars
=============================================================================
