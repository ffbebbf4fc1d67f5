------------------------- MODULE MCOnDeviceRefresh --------------------------
(* Two boots of a device without artifacts on /system.                     *)
EXTENDS OnDeviceRefresh

CONSTANTS isa, jar

MCJars == <<jar>>
MCSystems == {{}}
MCEnvs == {[art |-> 0, main |-> 0, ss |-> 0]}
MCConfigs == {[partial |-> TRUE, refresh |-> TRUE]}
=============================================================================
