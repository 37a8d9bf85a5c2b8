---------------------------- MODULE MCNetworkModule ---------------------------
(* OTA is off on ESP32, where the event task makes the interleavings, and    *)
(* allowed in prog mode on RP2040, which has the NTP client.                 *)
EXTENDS NetworkModule

MCOtaUpdate == [p \in Platforms |-> IF p = "ESP32" THEN 2 ELSE 0]
=============================================================================
