---------------------------- MODULE SessionObjects ----------------------------
(* The keys of src/elan/session.py: a session of a device, of a device on a  *)
(* vlan, or of an IP of a device on a vlan, as the triples that              *)
(* field_to_mac_vlan_ip returns.                                             *)

CONSTANTS
    Mac, Vlan, Ip,
    None            \* absent

ASSUME ObjectsAssumption == None \notin Vlan \cup Ip

MacObj(m) == <<m, None, None>>
VlanObj(m, v) == <<m, v, None>>
IpObj(m, v, i) == <<m, v, i>>
MacObjs == {MacObj(m) : m \in Mac}
VlanObjs == {VlanObj(m, v) : m \in Mac, v \in Vlan}
IpObjs == {IpObj(m, v, i) : m \in Mac, v \in Vlan, i \in Ip}
Obj == MacObjs \cup VlanObjs \cup IpObjs

\* The sessions that o lies in, itself included.
Around(o) == {MacObj(o[1]), VlanObj(o[1], o[2]), o}
=============================================================================
