------------------------------ MODULE MCGnssOutPath ------------------------------
(* Small buffers that fill under a chunk or two, and peers that come back:      *)
(* every reset can meet bytes in the path.  Peers of one kind come at a time:   *)
(* the mirrors share only task_uart_rx, which waits for neither.  With a phone  *)
(* BleSum bounds the bytes and the connections and subscriptions together.      *)
EXTENDS GnssOutPath

CONSTANTS BleSize, TcpSize, BleSum

VARIABLE comes

MCCapacity == [ble |-> BleSize, tcp |-> TcpSize]

MCInit == Init /\ comes \in Output

MCNext ==
    /\ Next /\ UNCHANGED comes
    /\ comes = "ble" => ~client' /\ read' + links' <= BleSum
    /\ comes = "tcp" => link' = "off"

MCSpec == MCInit /\ [][MCNext]_<<vars, comes>>
================================================================================
