------------------------------- MODULE WifiSta -------------------------------
(***************************************************************************)
(* aug_wifi_sta.c: the station mode.  aug_wifi_sta_connect and             *)
(* aug_wifi_sta_disconnect are cut where another task can come in between; *)
(* the caller's program counter (module Device) puts the pieces in order.  *)
(* event_handler runs in sys_evt; giving up takes it three steps, because  *)
(* the post may block: the decision (lines 44 to 52, up to the call), the  *)
(* post itself, and the bits and the counter (53, 54).                     *)
(***************************************************************************)
EXTENDS EventLoop, WifiDriver

CONSTANT
    MaxRetry    \* sta_config.max_retry

ASSUME MaxRetryAssumption == MaxRetry \in Nat

VARIABLES
    sta_netif,     \* sta_netif # NULL
    sta_handlers,  \* event_handler is registered with the default loop
    sta_loop,      \* event_loop_handle # NULL
    group,         \* s_wifi_event_group exists
    bits,          \* the bits set in it
    retry_num,     \* retries made so far
    failures       \* history: disconnections since the last address or teardown

staVars == <<sta_netif, sta_handlers, sta_loop, group, bits, retry_num,
             failures>>

StaTypeOK ==
    /\ sta_netif \in BOOLEAN
    /\ sta_handlers \in BOOLEAN
    /\ sta_loop \in BOOLEAN
    /\ group \in BOOLEAN
    /\ bits \subseteq {"CONNECTED", "FAIL"}
    /\ retry_num \in 0..MaxRetry
    /\ failures \in 0..(MaxRetry + 1)

StaInit ==
    /\ sta_netif = FALSE
    /\ sta_handlers = FALSE
    /\ sta_loop = FALSE
    /\ group = FALSE
    /\ bits = {}
    /\ retry_num = 0
    /\ failures = 0

\* Mutant of StaCreate: the loop handle is left for later.
StaCreateNoLoop ==
    /\ sta_netif' = TRUE
    /\ group' = TRUE
    /\ bits' = {}
    /\ UNCHANGED <<sta_loop, sta_handlers, retry_num, failures>>

\* aug_wifi_sta_connect up to the event group (lines 69 to 78).
StaCreate ==
    /\ sta_loop' = TRUE
    /\ sta_netif' = TRUE
    /\ group' = TRUE
    /\ bits' = {}
    /\ UNCHANGED <<sta_handlers, retry_num, failures>>

\* Both registrations (79 to 88); each takes the default loop's mutex.
StaRegister ==
    /\ LoopMutexFree
    /\ sta_handlers' = TRUE
    /\ UNCHANGED <<sta_netif, sta_loop, group, bits, retry_num, failures>>

\* esp_wifi_start (90 to 92), the driver having accepted the configuration.
StaStart ==
    /\ StartStation
    /\ UNCHANGED staVars

\* xEventGroupWaitBits returns (97); the bits stay set.
StaWaitDone == bits # {}

\* What aug_wifi_sta_connect then returns (102 to 115).
StaConnectOK == "CONNECTED" \in bits

\* aug_wifi_sta_disconnect clears the loop handle before anything else (121).
StaForgetLoop ==
    /\ sta_loop' = FALSE
    /\ UNCHANGED <<sta_netif, sta_handlers, group, bits, retry_num, failures>>

\* Mutant of StaUnregister: does not wait for a handler in progress.
StaUnregisterAtOnce ==
    /\ sta_handlers' = FALSE
    /\ UNCHANGED <<sta_netif, sta_loop, group, bits, retry_num, failures>>

\* Both unregistrations (122, 123) wait for the default loop's mutex.
StaUnregister ==
    /\ LoopMutexFree
    /\ sta_handlers' = FALSE
    /\ UNCHANGED <<sta_netif, sta_loop, group, bits, retry_num, failures>>

\* Mutant of StaRelease: the interface is destroyed but not forgotten.
StaReleaseKeepsNetif ==
    /\ StopDriver
    /\ group' = FALSE
    /\ bits' = {}
    /\ failures' = 0
    /\ UNCHANGED <<sta_netif, sta_handlers, sta_loop, retry_num>>

\* The rest of aug_wifi_sta_disconnect (124 to 134).
StaRelease ==
    /\ StopDriver
    /\ group' = FALSE
    /\ bits' = {}
    /\ sta_netif' = FALSE
    /\ failures' = 0
    /\ UNCHANGED <<sta_handlers, sta_loop, retry_num>>

\* event_handler, WIFI_EVENT_STA_START.
OnStaStart ==
    /\ sta_handlers
    /\ Dispatch("STA_START")
    /\ Connect
    /\ UNCHANGED <<mode, clients, sysEvt, staVars>>

\* Mutant of OnDisconnectedRetry: counts the retry but does not connect.
OnDisconnectedCountOnly ==
    /\ sta_handlers
    /\ Dispatch("STA_DISCONNECTED")
    /\ retry_num < MaxRetry
    /\ retry_num' = retry_num + 1
    /\ failures' = IF failures <= MaxRetry THEN failures + 1 ELSE failures
    /\ UNCHANGED <<mode, link, clients, sysEvt, refused, sta_netif,
                   sta_handlers, sta_loop, group, bits>>

\* event_handler, WIFI_EVENT_STA_DISCONNECTED with retries left.
OnDisconnectedRetry ==
    /\ sta_handlers
    /\ Dispatch("STA_DISCONNECTED")
    /\ retry_num < MaxRetry
    /\ Connect
    /\ retry_num' = retry_num + 1
    /\ failures' = IF failures <= MaxRetry THEN failures + 1 ELSE failures
    /\ UNCHANGED <<mode, clients, sysEvt, sta_netif, sta_handlers, sta_loop,
                   group, bits>>

\* event_handler, WIFI_EVENT_STA_DISCONNECTED with none left: it is about to
\* read *event_loop_handle for the arguments of the post.
GivesUp ==
    /\ sta_handlers
    /\ sysEvt = "idle"
    /\ wifiEvents # <<>>
    /\ Head(wifiEvents) = "STA_DISCONNECTED"
    /\ retry_num >= MaxRetry

\* Mutant of OnDisconnectedGiveUp: the bit is set before the post.
GiveUpBitFirst ==
    /\ GivesUp
    /\ sta_loop
    /\ Dispatch("STA_DISCONNECTED")
    /\ sysEvt' = "post"
    /\ bits' = bits \cup {"FAIL"}
    /\ UNCHANGED <<mode, link, clients, refused, sta_netif, sta_handlers,
                   sta_loop, group, retry_num, failures>>

OnDisconnectedGiveUp ==
    /\ GivesUp
    /\ sta_loop
    /\ Dispatch("STA_DISCONNECTED")
    /\ sysEvt' = "post"
    /\ failures' = IF failures <= MaxRetry THEN failures + 1 ELSE failures
    /\ UNCHANGED <<mode, link, clients, refused, sta_netif, sta_handlers,
                   sta_loop, group, bits, retry_num>>

\* The post of FAILED_ATTEMPTS returns.
PostFailedAttempts ==
    /\ sysEvt = "post"
    /\ Post("FAILED_ATTEMPTS")
    /\ sysEvt' = "setbits"
    /\ UNCHANGED <<mode, link, clients, wifiEvents, refused, staVars>>

\* Mutant of SetFailBit: resets the counter only.
ResetCounterOnly ==
    /\ sysEvt = "setbits"
    /\ retry_num' = 0
    /\ sysEvt' = "idle"
    /\ UNCHANGED <<mode, link, clients, wifiEvents, refused, sta_netif,
                   sta_handlers, sta_loop, group, bits, failures>>

\* xEventGroupSetBits(WIFI_FAIL_BIT) and the counter, after the post.
SetFailBit ==
    /\ sysEvt = "setbits"
    /\ bits' = bits \cup {"FAIL"}
    /\ retry_num' = 0
    /\ sysEvt' = "idle"
    /\ UNCHANGED <<mode, link, clients, wifiEvents, refused, sta_netif,
                   sta_handlers, sta_loop, group, failures>>

\* Mutant of OnGotIp: the counter keeps the retries the connection took.
OnGotIpKeepsCounter ==
    /\ sta_handlers
    /\ Dispatch("GOT_IP")
    /\ bits' = bits \cup {"CONNECTED"}
    /\ failures' = 0
    /\ UNCHANGED <<mode, link, clients, sysEvt, refused, sta_netif,
                   sta_handlers, sta_loop, group, retry_num>>

\* event_handler, IP_EVENT_STA_GOT_IP.
OnGotIp ==
    /\ sta_handlers
    /\ Dispatch("GOT_IP")
    /\ retry_num' = 0
    /\ bits' = bits \cup {"CONNECTED"}
    /\ failures' = 0
    /\ UNCHANGED <<mode, link, clients, sysEvt, refused, sta_netif,
                   sta_handlers, sta_loop, group>>
==============================================================================
