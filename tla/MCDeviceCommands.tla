-------------------------- MODULE MCDeviceCommands --------------------------
(* Two callers and two peers; a prefix is one address or both.             *)
EXTENDS DeviceCommands

MCNet == {{1}, {2}, {1, 2}}
MCIpSets == {{}, {{1}}, {{2}}, {{1}, {1, 2}}}
=============================================================================
