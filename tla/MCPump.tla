-------------------------------- MODULE MCPump --------------------------------
(* Pump.tla on small instances: how the pump is started.                     *)
EXTENDS Pump

Started(detached, log) == [detached : {detached}, quiet : BOOLEAN, log : log]

AllModes == Started(TRUE, BOOLEAN) \cup Started(FALSE, BOOLEAN)
Detached == Started(TRUE, {TRUE})
===============================================================================
