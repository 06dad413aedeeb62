-------------------------- MODULE MCHealthMonitor --------------------------
(* Small instances of HealthMonitor.  The intervals keep the order they    *)
(* have in the code: jitter < grace < silence < switch = probe < reset =   *)
(* decay, in units of one health interval.                                 *)
EXTENDS HealthMonitor

CONSTANTS direct, relay1, relay2

MCRoutes == {direct, relay1, relay2}
MCLists == {<<direct, relay1, relay2>>, <<relay1, direct>>, <<direct>>}
=============================================================================
