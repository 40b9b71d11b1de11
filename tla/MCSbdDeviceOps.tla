--------------------------- MODULE MCSbdDeviceOps ---------------------------
(* Three devices, so that "create" can fail on any of up to three; one     *)
(* node and one message type for set_message; one watchdog name with two *)
(* records of different info, so that a repeated name is listed.          *)
EXTENDS SbdDeviceOps

CONSTANTS d1, d2, d3, nodeA, w1, i1, i2

MCDevice == {d1, d2, d3}
=============================================================================
