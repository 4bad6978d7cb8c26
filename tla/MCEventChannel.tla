---------------------------- MODULE MCEventChannel ----------------------------
(* A small instance of EventChannel.                                       *)
EXTENDS EventChannel

MCService == {"Mysql"}
MCSources == {"tick", "tray"}
===============================================================================
