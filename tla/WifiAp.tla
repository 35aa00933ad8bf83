------------------------------- MODULE WifiAp --------------------------------
(***************************************************************************)
(* aug_wifi_ap.c: the access point mode, its count of connected stations,  *)
(* kept by wifi_event_handler in sys_evt, and idle_check_task, which posts *)
(* IDLE when it wakes and the count is zero.  The idle time is not timed:  *)
(* the task may wake at any moment.                                        *)
(***************************************************************************)
EXTENDS EventLoop, WifiDriver

VARIABLES
    ap_netif,             \* ap_netif # NULL
    ap_handlers,          \* wifi_event_handler is registered
    current_connections,
    idle_handle,          \* idle_check_task_handle # NULL
    idleTask              \* idle_check_task: absent, asleep or posting

apVars == <<ap_netif, ap_handlers, current_connections, idle_handle, idleTask>>

ApTypeOK ==
    /\ ap_netif \in BOOLEAN
    /\ ap_handlers \in BOOLEAN
    /\ current_connections \in Int
    /\ idle_handle \in BOOLEAN
    /\ idleTask \in {"none", "sleep", "post"}

ApInit ==
    /\ ap_netif = FALSE
    /\ ap_handlers = FALSE
    /\ current_connections = 0
    /\ idle_handle = FALSE
    /\ idleTask = "none"

\* Mutant of ApReset: the count is not reset.
ApResetHandleOnly ==
    /\ idle_handle' = FALSE
    /\ UNCHANGED <<ap_netif, ap_handlers, current_connections, idleTask>>

\* aug_wifi_ap_start before the channel scan (60 to 62).
ApReset ==
    /\ current_connections' = 0
    /\ idle_handle' = FALSE
    /\ UNCHANGED <<ap_netif, ap_handlers, idleTask>>

\* The access point's interface and driver (67 to 70).
ApCreate ==
    /\ ap_netif' = TRUE
    /\ UNCHANGED <<ap_handlers, current_connections, idle_handle, idleTask>>

\* The registration (72 to 76) waits for the default loop's mutex.
ApRegister ==
    /\ LoopMutexFree
    /\ ap_handlers' = TRUE
    /\ UNCHANGED <<ap_netif, current_connections, idle_handle, idleTask>>

\* esp_wifi_start and xTaskCreate(idle_check_task) (78 to 89).
ApStart ==
    /\ StartAccessPoint
    /\ idle_handle' = TRUE
    /\ idleTask' = "sleep"
    /\ UNCHANGED <<ap_netif, ap_handlers, current_connections>>

\* aug_wifi_ap_stop zeroes the count first (97).
ApZero ==
    /\ current_connections' = 0
    /\ UNCHANGED <<ap_netif, ap_handlers, idle_handle, idleTask>>

\* Mutant of ApDeleteIdleTask: the handle is cleared, the task lives on.
ApForgetIdleTask ==
    /\ idle_handle' = FALSE
    /\ UNCHANGED <<ap_netif, ap_handlers, current_connections, idleTask>>

\* vTaskDelete and the handle (98, 99).
ApDeleteIdleTask ==
    /\ idleTask' = "none"
    /\ idle_handle' = FALSE
    /\ UNCHANGED <<ap_netif, ap_handlers, current_connections>>

\* The unregistration (100) waits for the default loop's mutex.
ApUnregister ==
    /\ LoopMutexFree
    /\ ap_handlers' = FALSE
    /\ UNCHANGED <<ap_netif, current_connections, idle_handle, idleTask>>

\* The rest of aug_wifi_ap_stop (101 to 108).
ApRelease ==
    /\ StopDriver
    /\ ap_netif' = FALSE
    /\ UNCHANGED <<ap_handlers, current_connections, idle_handle, idleTask>>

\* wifi_event_handler counts the stations in and out.
OnStationEvent ==
    /\ ap_handlers
    /\ \/ /\ Dispatch("AP_STACONNECTED")
          /\ current_connections' = current_connections + 1
       \/ /\ Dispatch("AP_STADISCONNECTED")
          /\ current_connections' = current_connections - 1
    /\ UNCHANGED <<mode, link, clients, sysEvt, refused, ap_netif, ap_handlers,
                   idle_handle, idleTask>>

\* idle_check_task wakes and finds nobody connected (49, 50).
IdleCheck ==
    /\ idleTask = "sleep"
    /\ current_connections = 0
    /\ idleTask' = "post"
    /\ UNCHANGED <<ap_netif, ap_handlers, current_connections, idle_handle>>

\* Its post of IDLE returns (51, 52).
PostIdle ==
    /\ idleTask = "post"
    /\ Post("IDLE")
    /\ idleTask' = "sleep"
    /\ UNCHANGED <<ap_netif, ap_handlers, current_connections, idle_handle>>
==============================================================================
