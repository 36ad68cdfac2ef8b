-------------------------------- MODULE MCSnmp --------------------------------
(***************************************************************************)
(* A small network for the SNMP cache: two switches, a card that moves     *)
(* from one to the other, and requests for each way to find a port.        *)
(***************************************************************************)
EXTENDS FindPort

Card(interface, mac, index) ==
    [interface |-> interface, mac |-> mac, index |-> index, names |-> {interface}, ssids |-> {}]

Radio(interface, index) == [Card(interface, NoPort, index) EXCEPT !.ssids = {"wifi"}]

MCReading ==
    [ip \in SwitchIp |->
       CASE ip = "s1" -> {{Card("e1", "m1", "1"), Card("e2", "m2", "2")}, {Card("e1", "m3", "1"), Radio("e3", "3")}}
         [] ip = "s2" -> {{Card("f1", "m2", "1")}}]

Ask(nas, client) ==
    [nas |-> nas, client |-> client, called |-> NoPort, ssid |-> NoPort,
     nas_port_id |-> NoPort, nas_port |-> "1"]

MCRequest ==
    {Ask(NoPort, "s1"), Ask("s2", "s1"),
     [Ask("s1", "s1") EXCEPT !.called = "m1", !.ssid = "wifi", !.nas_port_id = "e1", !.nas_port = NoPort]}

MCIfIndexes == [n \in {"1"} |-> {<<>>, <<"1", "2">>}]
=============================================================================
