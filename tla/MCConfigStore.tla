--------------------------- MODULE MCConfigStore -----------------------------
(* ConfigStore for TLC: two firmwares whose station structures differ. *)
EXTENDS ConfigStore

MCSizeOf ==
    [f \in Firmwares |-> [k \in Keys |->
        IF f = 2 /\ k = "sta" THEN 200 ELSE 100]]
==============================================================================
