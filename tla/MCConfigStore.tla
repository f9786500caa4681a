----------------------------- MODULE MCConfigStore -----------------------------
(* Two valid wirings, the unset one and one with a pin twice; WiFi bodies    *)
(* with and without DHCP and softAP, with the masked, a new and the empty    *)
(* password, and two that are refused.                                       *)
EXTENDS ConfigStore

MCUartBodies ==
    {[rx_pin |-> p[1], tx_pin |-> p[2], baud |-> p[3]] :
        p \in {<<4, 5, 9600>>, <<5, 4, 115200>>, <<-1, -1, 0>>, <<4, 4, 9600>>}}

Wifi(ssid, pass, dhcp, ap, ip) ==
    [ssid |-> ssid, pass |-> pass, dhcp |-> dhcp, accesspoint |-> ap,
     ip |-> ip, gw |-> ip, subnet |-> ip, dns |-> ip]

MCWifiBodies ==
    {Wifi("home", "secret", TRUE, FALSE, "0.0.0.0"),
     Wifi("home", "*", FALSE, TRUE, "10.0.0.1"),
     Wifi("cafe", "", TRUE, TRUE, "0.0.0.0"),
     Wifi("home", "secret", FALSE, FALSE, "0.0.0.0"),
     Wifi("", "secret", TRUE, TRUE, "0.0.0.0"),
     Wifi("home", "secret", FALSE, TRUE, "bad")}

MCBuiltIn == Wifi("CHANGE_ME", "CHANGE_ME", FALSE, TRUE, "192.168.1.200")
================================================================================
