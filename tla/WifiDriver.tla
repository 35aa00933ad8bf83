----------------------------- MODULE WifiDriver ------------------------------
(***************************************************************************)
(* External: the ESP-IDF Wi-Fi driver and the default event loop (task     *)
(* sys_evt), as the firmware uses them.  The driver posts WIFI_EVENT and   *)
(* IP_EVENT events to the default loop; sys_evt runs the registered        *)
(* handlers of one event at a time and holds the loop's mutex meanwhile,   *)
(* so registering or unregistering a handler waits for LoopMutexFree.      *)
(***************************************************************************)
EXTENDS Integers, Sequences

CONSTANTS
    MaxClients,   \* CONFIG_MAX_STA_CONN: stations the access point accepts
    SysQueueSize  \* events waiting in the default loop (32 in sdkconfig)

ASSUME MaxClientsAssumption == MaxClients \in Nat
ASSUME SysQueueSizeAssumption == SysQueueSize \in Nat \ {0}

VARIABLES
    mode,        \* what esp_wifi_start() last started
    link,        \* the station's link to its access point
    clients,     \* stations associated with our access point
    wifiEvents,  \* events of the driver not yet dispatched by sys_evt
    sysEvt,      \* where sys_evt stands inside a handler
    refused      \* history: the last esp_wifi_connect returned an error

driverVars == <<mode, link, clients, wifiEvents, sysEvt, refused>>

WifiEvents == {"STA_START", "STA_DISCONNECTED", "GOT_IP",
               "AP_STACONNECTED", "AP_STADISCONNECTED"}

DriverTypeOK ==
    /\ mode \in {"off", "sta", "ap"}
    /\ link \in {"down", "joining", "up"}
    /\ clients \in 0..MaxClients
    /\ wifiEvents \in Seq(WifiEvents)
    /\ sysEvt \in {"idle", "post", "setbits"}
    /\ refused \in BOOLEAN

DriverInit ==
    /\ mode = "off"
    /\ link = "down"
    /\ clients = 0
    /\ wifiEvents = <<>>
    /\ sysEvt = "idle"
    /\ refused = FALSE

LoopMutexFree == sysEvt = "idle"

HasRoom == Len(wifiEvents) < SysQueueSize

Raise(event) ==
    /\ HasRoom
    /\ wifiEvents' = Append(wifiEvents, event)

\* sys_evt takes the oldest event out of the default loop.
Dispatch(event) ==
    /\ sysEvt = "idle"
    /\ wifiEvents # <<>>
    /\ event = Head(wifiEvents)
    /\ wifiEvents' = Tail(wifiEvents)

\* esp_wifi_start() after esp_wifi_set_mode(WIFI_MODE_STA).
StartStation ==
    /\ Raise("STA_START")
    /\ mode' = "sta"
    /\ UNCHANGED <<link, clients, sysEvt, refused>>

\* esp_wifi_start() after esp_wifi_set_mode(WIFI_MODE_AP).
StartAccessPoint ==
    /\ mode' = "ap"
    /\ UNCHANGED <<link, clients, wifiEvents, sysEvt, refused>>

\* esp_wifi_stop(), esp_wifi_restore() and esp_wifi_deinit().
StopDriver ==
    /\ mode' = "off"
    /\ link' = "down"
    /\ clients' = 0
    /\ refused' = FALSE
    /\ UNCHANGED <<wifiEvents, sysEvt>>

\* esp_wifi_connect().  The firmware ignores its result (aug_wifi_sta.c:42, 47):
\* after an error nothing joins, and no event will say so.
Connect ==
    \/ /\ mode = "sta"
       /\ link' = IF link = "down" THEN "joining" ELSE link
       /\ refused' = FALSE
    \/ /\ refused' = TRUE
       /\ UNCHANGED link

\* The access point accepts us and DHCP assigns an address.
LinkUp ==
    /\ link = "joining"
    /\ Raise("GOT_IP")
    /\ link' = "up"
    /\ UNCHANGED <<mode, clients, sysEvt, refused>>

\* An attempt to join fails, or an established link is lost.
LinkDown ==
    /\ link \in {"joining", "up"}
    /\ Raise("STA_DISCONNECTED")
    /\ link' = "down"
    /\ UNCHANGED <<mode, clients, sysEvt, refused>>

ClientJoins ==
    /\ mode = "ap"
    /\ clients < MaxClients
    /\ Raise("AP_STACONNECTED")
    /\ clients' = clients + 1
    /\ UNCHANGED <<mode, link, sysEvt, refused>>

ClientLeaves ==
    /\ clients > 0
    /\ Raise("AP_STADISCONNECTED")
    /\ clients' = clients - 1
    /\ UNCHANGED <<mode, link, sysEvt, refused>>
==============================================================================
