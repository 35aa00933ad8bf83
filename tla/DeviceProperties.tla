-------------------------- MODULE DeviceProperties ---------------------------
(***************************************************************************)
(* What module Device is checked for: the invariants, the promise it       *)
(* implements (ModeSwitch), and the liveness of the boot.                  *)
(***************************************************************************)
EXTENDS Device, FiniteSets

\* main_init has ended, and had when the running callback began: a callback it
\* overlaps may find the server started behind its back.
Booted == pc["main"] = "done" /\ ~early
Resting == panic = "none" /\ pc["loop"] = "idle"

\* The station and the access point are never up together: every callback
\* tears the other mode down before it starts its own (deinit_modules).
ModesExclusive == ~(sta_netif /\ ap_netif)

\* The channel scan creates a station interface and starts the driver of its
\* own, so it must find neither mode up and the driver off, as the note in
\* aug_wifi_scan.h asks (aug_wifi_ap_start, line 65).
ScanAlone ==
    \A t \in Tasks : pc[t] = "ap_scan" =>
        /\ ~sta_netif /\ ~ap_netif
        /\ mode = "off"
        /\ ~sta_handlers /\ ~ap_handlers

\* event_handler sets bits only in an event group that exists: sys_evt may be
\* inside the handler while second_loop tears the station down, and what makes
\* this safe is that the group is created before the handlers are registered
\* and deleted after they are unregistered.
BitsTargetLive == sta_handlers \/ sysEvt \in {"post", "setbits"} => group

\* vTaskDelete(idle_check_task_handle) deletes the idle task and never, through
\* a NULL handle, the caller; and no idle task outlives its handle.
IdleTaskOwned ==
    /\ idleTask # "none" => idle_handle /\ ap_netif
    /\ pc["loop"] = "ap_delete_task" => idle_handle

\* Counted(k) is what current_connections will be once wifi_event_handler has had
\* the first k events queued.
Occurrences(event, k) == Cardinality({n \in 1..k : wifiEvents[n] = event})

Counted(k) == current_connections + Occurrences("AP_STACONNECTED", k)
                                  - Occurrences("AP_STADISCONNECTED", k)

\* While the idle task lives and aug_wifi_ap_stop has not begun.
Counting == idleTask # "none" /\ pc["loop"] # "ap_delete_task"

CountMatches == Counting => Counted(Len(wifiEvents)) = clients
CountInRange ==
    Counting => \A k \in 0..Len(wifiEvents) : Counted(k) \in 0..MaxClients

\* The count the idle task reads is exact but for the events still queued: nothing
\* is counted twice, missed, or left over from an earlier access point.  Nor does
\* it leave 0..MaxClients on the way there, below which the idle task, which
\* compares it with zero (aug_wifi_ap.c:50), would never post again.
CountExact == CountMatches /\ CountInRange

\* aug_wifi_sta_connect waits for a bit without a timeout (aug_wifi_sta.c:97).
\* It does so in vain only after an esp_wifi_connect that failed: else a bit is
\* set, event_handler is about to set one, the driver is trying to join, or an
\* event that makes it try again is queued.
StaEvents == {"STA_START", "STA_DISCONNECTED", "GOT_IP"}

WaitAlwaysFed ==
    \A t \in Tasks : pc[t] = "sta_wait" =>
        \/ bits # {}
        \/ sysEvt # "idle"
        \/ link = "joining"
        \/ refused
        \/ \E n \in 1..Len(wifiEvents) : wifiEvents[n] \in StaEvents

\* Once booted, the device is in exactly one mode whenever second_loop rests,
\* whichever callback ran last and however it ended.
OneModeAtRest == Booted /\ Resting => sta_netif # ap_netif

\* At most one mode at any time, and exactly one at rest: what deinit_modules
\* takes down is what was up, and every callback puts something in its place.
OneMode == ModesExclusive /\ OneModeAtRest

\* An access point at rest serves HTTP: otherwise nobody could configure it.
AccessPointServes == Booted /\ Resting /\ ap_netif => server /\ httpd # "off"

\* FAILED_ATTEMPTS is in the queue.
Announced == \E n \in 1..Len(queue) : queue[n] = "FAILED_ATTEMPTS"

\* A station whose connection failed has no server, so only an event can bring
\* the device back: FAILED_ATTEMPTS is always queued, because event_handler posts
\* it before it sets the bit callback_init_sta waits for.
FailedStationRecovers ==
    Booted /\ Resting /\ mode = "sta" /\ httpd = "off" => Announced

\* The handlers of /restart and /ota_update answer after they post, while the
\* restart is already under way in second_loop: the device never gets to
\* esp_restart with the answer unsent, because deinit_modules stops httpd first.
RestartAnswered ==
    Booted /\ pc["loop"] \in {"write_nvs", "restart"} => httpd = "off"

\* The /set_options handlers write the static configurations without a lock.
\* They never do so while second_loop reads them in aug_wifi_sta_connect or
\* saves them in write_nvs_data.
ConfigReadAlone ==
    Booted /\ pc["loop"] \in StaLabels \cup {"write_nvs"} => httpd # "write"

\* event_handler posts through event_loop_handle, which aug_wifi_sta_disconnect
\* clears before it unregisters the handler.  The NULL dereference this leads to
\* can happen there only: every session starts with the handle set before its
\* handlers are registered, also after sessions that were cut short.
NullLoopOnlyInTeardown ==
    panic = "null_loop" => pc["loop"] = "sta_unregister"

\* What event_handler works on is there whenever sys_evt may be inside it: the
\* event group always, the loop handle but for those two lines.
HandlerTargetsLive == BitsTargetLive /\ NullLoopOnlyInTeardown

\* The device implements ModeSwitch.
RadioRole == IF sta_netif THEN "station"
             ELSE IF ap_netif THEN "access_point" ELSE "none"

Radio == INSTANCE ModeSwitch WITH
           role <- RadioRole, leaving <- pc["loop"] = "restart"

ImplementsModeSwitch == Radio!Spec
-----------------------------------------------------------------------------
(***************************************************************************)
(* The inductive invariant behind the theorems of DeviceProofs.            *)
(***************************************************************************)
BeforeRegister == ConnectLabels \cup {"boot", "register"}
ApStopping == {"ap_zero", "ap_delete_task", "ap_unregister", "ap_release"}

\* A handler that posts has an event to post, and a callback that stops the
\* modules has something to do next.
HandlersKnow ==
    /\ httpd \in {"receive", "post"} => request \in Posting
    /\ pc["loop"] \in StopLabels => job \in {"init_sta", "init_ap", "esp_restart"}

\* The two tasks never run aug_wifi_sta_connect or aug_wifi_ap_start together:
\* main does before the events are registered, second_loop only after.
TurnsTaken ==
    /\ pc["main"] \in BeforeRegister => ~registered
    /\ ~registered => pc["loop"] = "idle"

\* What is up at each point of the two tasks.
ModeAt ==
    /\ pc["main"] = "boot" => ~sta_netif /\ ~ap_netif
    /\ \A t \in Tasks :
         /\ pc[t] \in {"sta_create", "ap_reset", "ap_scan", "ap_create"}
              => ~sta_netif /\ ~ap_netif
         /\ pc[t] \in {"sta_register", "sta_start"} => sta_netif /\ group
         /\ pc[t] \in {"ap_register", "ap_start"} => ap_netif
    /\ pc["loop"] \in ApStopping => ~sta_netif /\ ap_netif
    /\ pc["loop"] \in {"write_nvs", "restart"} => ~sta_netif /\ ~ap_netif

\* Who owns what: handlers and the driver belong to a mode that is up, sys_evt
\* is inside event_handler only while it is registered, and the idle task
\* belongs to an access point that has started and is not being stopped.
Owners ==
    /\ sta_handlers => sta_netif /\ group
    /\ ap_handlers => ap_netif
    /\ mode = "sta" => sta_netif
    /\ mode = "ap" => ap_netif
    /\ sysEvt # "idle" => sta_handlers
    /\ pc["loop"] = "sta_release" => ~sta_handlers
    /\ pc["loop"] = "ap_release" => ~ap_handlers
    /\ idleTask # "none" => idle_handle /\ ap_netif
    /\ pc["loop"] \in {"ap_unregister", "ap_release"} => idleTask = "none"
    /\ ap_netif => \/ idle_handle
                   \/ \E t \in Tasks : pc[t] \in {"ap_register", "ap_start"}
                   \/ pc["loop"] \in {"ap_unregister", "ap_release"}

IInv ==
    /\ TypeOK
    /\ HandlersKnow
    /\ TurnsTaken
    /\ ModeAt
    /\ ModesExclusive
    /\ Owners
-----------------------------------------------------------------------------
(***************************************************************************)
(* Fairness.  FreeRTOS runs every ready task in the end; the driver ends   *)
(* every attempt to join, one way or the other; a reboot takes place.      *)
(* Clients and the broker owe nothing, nor does the bus of the sensors:    *)
(* an upload may be received, and a sensor searched for, for ever.         *)
(* Two calls of second_loop wait for                                       *)
(* what others take and give back: httpd_stop for the handler in progress, *)
(* with finitely many sessions still to be served, and the unregistration  *)
(* for the mutex of the default loop, which second_loop, of the highest    *)
(* priority, is the first to get: strong fairness.                         *)
(***************************************************************************)
JoinEnds == link = "joining" /\ DriverStep
MainOwes == MainStep /\ pc["main"] # "sensors"
HandlerOwes == HttpStep /\ httpd # "receive"

FairSpec ==
    /\ Spec
    /\ WF_vars(MainOwes)
    /\ WF_vars(LoopStep)
    /\ WF_vars(SysEvtStep)
    /\ WF_vars(HandlerOwes)
    /\ WF_vars(JoinEnds)
    /\ WF_vars(Reboot)
    /\ SF_vars(HttpStopStep)
    /\ SF_vars(StaUnregisterStep)

\* Every boot whose search for sensors ends, ends: main_init, which waits without
\* a timeout inside aug_wifi_sta_connect, returns, or the device aborts or is
\* restarted first, whatever the access point answers, unless esp_wifi_connect
\* failed unnoticed.
BootEnds ==
    []<>(pc["main"] # "sensors")
        => (pc["main"] = "boot"
              ~> (\/ pc["main"] = "done" \/ refused
                  \/ panic # "none" \/ pc["loop"] = "restart"))

\* The wait of callback_init_sta, which has no timeout either, ends unless the
\* queue of second_loop is full, which can hold event_handler back from setting a
\* bit, or esp_wifi_connect failed: then no event comes.
WaitHeldOnlyByFullQueue ==
    pc["loop"] = "sta_wait"
        ~> (pc["loop"] # "sta_wait" \/ ~CanPost \/ refused \/ panic # "none")

\* deinit_modules waits without a timeout twice more: httpd_stop for a handler,
\* and esp_event_handler_instance_unregister for sys_evt to leave event_handler.
\* Both may be posting to second_loop itself: a full queue can hold them.  So can
\* an upload whose client falls silent; nothing else does.
StopsHeldOnlyByQueueOrUpload ==
    []<>(httpd # "receive")
        => \A label \in {"http_stop", "sta_unregister"} :
              pc["loop"] = label
                ~> (pc["loop"] # label \/ ~CanPost \/ panic # "none")
-----------------------------------------------------------------------------
(* What the documents say and the code does not keep. *)

\* aug_mqtt_is_connected() tells whether the client is connected
\* (aug_mqtt_client.h:90-94).
ConnectedFlagTruthful == is_connected => client = "connected"

\* POST /init/mqtt connects to the broker (README.md:62-63): it does not abort
\* the firmware of a booted device.
InitMqttServed == Booted => panic # "set_uri"

\* FAILED_ATTEMPTS is published when the attempts exceed the maximum
\* (aug_wifi_sta.h:25): event_handler gives a running station up only after
\* more than MaxRetry failures in its session, or since it had an address.
FailedAttemptsEarned ==
    [][sysEvt = "idle" /\ sysEvt' = "post" /\ mode = "sta"
         => failures' > MaxRetry]_<<sysEvt, mode, failures>>

\* The station sends an event if it failed to connect (aug_wifi_sta.h:3): a
\* booted device whose station is down, with nothing left for event_handler to
\* do, has that event queued, or is handling it.
FailureAnnounced ==
    Booted /\ Resting /\ mode = "sta" /\ link = "down" /\ wifiEvents = <<>>
           /\ sysEvt = "idle"
        => queue # <<>>

\* The bits aug_wifi_sta_connect waits for are set by event_handler
\* (aug_wifi_sta.c:95-96): once the handler has given up, the wait ends, also
\* when clients have asked for /init/sta again in the meantime.
WaitEnds ==
    (/\ pc["loop"] = "sta_wait"
     /\ sysEvt = "post"
     /\ \A i \in 1..Len(queue) : queue[i] = "INIT_STA")
        ~> (pc["loop"] # "sta_wait" \/ panic # "none")
==============================================================================
