--------------------------- MODULE SessionHistory ----------------------------
(***************************************************************************)
(* What the failures of a station come to.  Two documented promises do not *)
(* hold of module Device: that FAILED_ATTEMPTS follows the full number of  *)
(* attempts, and that a station which failed to connect is announced.      *)
(* This module says exactly how far they do hold, with auxiliary variables *)
(* that record what happened to the session and constrain no step: what it *)
(* inherited from the one before, where main_init stood when second_loop   *)
(* discarded its event, and whether it began at all.                       *)
(***************************************************************************)
EXTENDS DeviceProperties

VARIABLES
    carried,  \* retries the session before this one left in retry_num
    lostAt,   \* the label of main when FAILED_ATTEMPTS was discarded, or "none"
    rejected  \* esp_wifi_set_config refused this session's configuration

historyVars == <<carried, lostAt, rejected>>

HistoryInit ==
    /\ carried = 0
    /\ lostAt = "none"
    /\ rejected = FALSE

\* aug_wifi_sta_disconnect leaves the counter to the next session, until an
\* address is assigned, or the attempts are exhausted, and it is reset.
RecordCarried ==
    carried' = IF StaReleaseStep THEN retry_num
               ELSE IF retry_num' = 0 THEN 0 ELSE carried

\* The session ends with aug_wifi_sta_disconnect or a restart.
RecordLost ==
    lostAt' = IF StaReleaseStep \/ Reboot THEN "none"
              ELSE IF EventLost /\ Head(queue) = "FAILED_ATTEMPTS"
                   THEN pc["main"] ELSE lostAt

RecordRejected ==
    rejected' = IF StaReleaseStep \/ Reboot THEN FALSE
                ELSE rejected \/ \E t \in Tasks : StaRejected(t)

HistoryNext == Next /\ RecordCarried /\ RecordLost /\ RecordRejected

HistorySpec ==
    /\ Init /\ HistoryInit
    /\ [][HistoryNext]_<<vars, historyVars>>
-----------------------------------------------------------------------------
\* event_handler gives a station up only when the failures of its session, and
\* the retries the session before it left behind, exceed the maximum: what
\* aug_wifi_sta.h:25 says, but for the retries inherited (aug_wifi_sta.c:45).
AttemptsCounted ==
    [][sysEvt = "idle" /\ sysEvt' = "post" => carried + failures' > MaxRetry]_
        <<sysEvt, carried, failures>>

\* A station that is down, with nothing left for event_handler to do, has its
\* event queued, whatever tore the sessions before it down.  It fails in silence in
\* three ways only: second_loop discarded the event before register_events
\* (main.c:202, 220), the driver refused the configuration (aug_wifi_sta.c:91), as
\* it may after /set_options and /init/sta, or esp_wifi_connect failed (42, 47).
SilenceExplained ==
    Resting /\ sta_netif /\ pc["main"] \notin {"sta_register", "sta_start"}
            /\ link = "down" /\ wifiEvents = <<>> /\ sysEvt = "idle"
        => Announced \/ lostAt \in BeforeRegister \/ rejected \/ refused

\* Nor does a station go without its MQTT client, which callback_init_sta stops
\* and starts again only if the connection succeeds (main.c:104 and 110): if the
\* client of a booted device does not run, the event that ends the station's mode
\* is queued, or the driver refused the configuration, which main.c:107 takes for
\* the failure that posted one.  Until it aborts, this holds inside
\* callback_init_mqtt too, whose client stops first.
StationPublishes ==
    Booted /\ panic = "none" /\ pc["loop"] \in {"idle", "set_uri"} /\ sta_netif
        => Running \/ Announced \/ rejected
=============================================================================
