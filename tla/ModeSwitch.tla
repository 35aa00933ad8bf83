----------------------------- MODULE ModeSwitch ------------------------------
(***************************************************************************)
(* What the device promises about its radio: it is a station, an access    *)
(* point, or neither; it goes from one to the other only through neither;  *)
(* and it restarts on its own only from neither.                           *)
(***************************************************************************)
VARIABLES
    role,     \* what the device is on the radio
    leaving   \* esp_restart has been decided

TypeOK == role \in {"none", "station", "access_point"} /\ leaving \in BOOLEAN

Init == role = "none" /\ leaving = FALSE

Become(r) ==
    /\ role = "none"
    /\ ~leaving
    /\ role' = r
    /\ UNCHANGED leaving

Leave ==
    /\ role # "none"
    /\ role' = "none"
    /\ UNCHANGED leaving

Restart ==
    /\ role = "none"
    /\ leaving' = TRUE
    /\ UNCHANGED role

\* A reboot, asked for or not.
Reset == role' = "none" /\ leaving' = FALSE

Next == Become("station") \/ Become("access_point") \/ Leave \/ Restart \/ Reset

Spec == Init /\ [][Next]_<<role, leaving>>
==============================================================================
