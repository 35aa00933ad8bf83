------------------------------- MODULE Device --------------------------------
(***************************************************************************)
(* main.c: the whole device.  Two tasks run the procedures below: "main",  *)
(* which boots the device (main_init), and "loop", the task of the event   *)
(* loop, which runs one callback at a time.  pc says where each stands;    *)
(* the labels are the calls of main.c cut at the points where another task *)
(* can come in between.  sys_evt, httpd, idle_check_task and the MQTT task *)
(* act on their own.                                                       *)
(*                                                                         *)
(* A failed ESP_ERROR_CHECK and a NULL dereference set panic, after which  *)
(* only Reboot is possible.                                                *)
(***************************************************************************)
EXTENDS WifiSta, WifiAp, MqttClient, HttpServer

VARIABLES
    pc,        \* the call each task is about to make
    job,       \* the callback second_loop runs
    early,     \* history: that callback began before main_init had ended
    panic,     \* why the device is about to reboot
    staSaved   \* NVS holds a station configuration

taskVars == <<pc, job, early>>
vars == <<loopVars, driverVars, staVars, apVars, mqttVars, httpVars, taskVars,
          panic, staSaved>>

Tasks == {"main", "loop"}

StaLabels == {"sta_create", "sta_register", "sta_start", "sta_wait"}
ApLabels == {"ap_reset", "ap_scan", "ap_create", "ap_register", "ap_start"}
ConnectLabels == StaLabels \cup ApLabels
StopLabels == {"mqtt_stop", "http_stop", "sta_forget", "sta_unregister",
               "sta_release", "ap_zero", "ap_delete_task", "ap_unregister",
               "ap_release"}

MainLabels == ConnectLabels \cup
    {"boot", "register", "sensors", "http_start", "mqtt_init", "mqtt_start",
     "done"}
LoopLabels == ConnectLabels \cup StopLabels \cup
    {"idle", "set_uri", "http_start", "mqtt_start", "write_nvs", "restart"}

Panics == {"none", "mqtt_stop", "mqtt_start", "set_uri", "bad_uri", "null_loop",
           "sensors", "mqtt_init", "ota_begin"}

\* The callback registered for each event (register_events).
Callback(event) ==
    CASE event = "FAILED_ATTEMPTS"              -> "init_ap"
      [] event \in {"IDLE", "INIT_STA"}         -> "init_sta"
      [] event = "INIT_MQTT"                    -> "init_mqtt"
      [] event \in {"OTA_UPDATE", "RESTART"}    -> "esp_restart"

TaskTypeOK ==
    /\ pc \in [Tasks -> MainLabels \cup LoopLabels]
    /\ pc["main"] \in MainLabels
    /\ pc["loop"] \in LoopLabels
    /\ job \in {"none", "init_ap", "init_sta", "init_mqtt", "esp_restart"}
    /\ early \in BOOLEAN
    /\ panic \in Panics
    /\ staSaved \in BOOLEAN

TypeOK ==
    /\ LoopTypeOK
    /\ DriverTypeOK
    /\ StaTypeOK
    /\ ApTypeOK
    /\ MqttTypeOK
    /\ HttpTypeOK
    /\ TaskTypeOK

BootPc == [t \in Tasks |-> IF t = "main" THEN "boot" ELSE "idle"]

RamInit ==
    /\ LoopInit
    /\ DriverInit
    /\ StaInit
    /\ ApInit
    /\ MqttInitState
    /\ HttpInit
    /\ pc = BootPc
    /\ job = "none"
    /\ early = FALSE
    /\ panic = "none"

Init == RamInit /\ staSaved \in BOOLEAN

-----------------------------------------------------------------------------
(* Control flow of the two tasks. *)

At(t, label) == panic = "none" /\ pc[t] = label

Go(t, label) ==
    /\ pc' = [pc EXCEPT ![t] = label]
    /\ UNCHANGED <<job, early, panic, staSaved>>

\* The callback returns to the event loop.
Return ==
    /\ pc' = [pc EXCEPT !["loop"] = "idle"]
    /\ job' = "none"
    /\ early' = FALSE
    /\ UNCHANGED <<panic, staSaved>>

\* ESP_ERROR_CHECK fails, or a NULL pointer is dereferenced: abort.
Panic(reason) ==
    /\ panic' = reason
    /\ UNCHANGED <<loopVars, driverVars, staVars, apVars, mqttVars, httpVars,
                   taskVars, staSaved>>

\* Mutant of AfterConnect: the callback returns without starting the server.
AfterConnectReturns(t, ok) == IF t = "main" THEN Go(t, "register") ELSE Return

\* After aug_wifi_sta_connect (main.c lines 202 and 107) and aug_wifi_ap_start.
AfterConnect(t, ok) ==
    \/ t = "main" /\ Go(t, "register")
    \/ t = "loop" /\ ok /\ Go(t, "http_start")
    \/ t = "loop" /\ ~ok /\ Return

\* Where a callback goes once every module is stopped.
Stopped ==
    CASE job = "init_sta"    -> "sta_create"
      [] job = "init_ap"     -> "ap_reset"
      [] job = "esp_restart" -> "write_nvs"

\* Mutant of AfterSta: deinit_modules forgets the access point.
AfterStaSkipsAp == Stopped

\* deinit_modules asks the access point after the station.
AfterSta == IF ap_netif THEN "ap_zero" ELSE Stopped

\* Mutant of AfterHttp: deinit_modules forgets the station.
AfterHttpSkipsSta == AfterSta

\* deinit_modules asks the station after the server.
AfterHttp == IF sta_netif THEN "sta_forget" ELSE AfterSta
-----------------------------------------------------------------------------
(* aug_wifi_sta_connect and aug_wifi_ap_start, called by either task. *)

StaCreateStep(t) ==
    /\ At(t, "sta_create")
    /\ StaCreate
    /\ Go(t, "sta_register")
    /\ UNCHANGED <<loopVars, driverVars, apVars, mqttVars, httpVars>>

StaRegisterStep(t) ==
    /\ At(t, "sta_register")
    /\ StaRegister
    /\ Go(t, "sta_start")
    /\ UNCHANGED <<loopVars, driverVars, apVars, mqttVars, httpVars>>

StaStartStep(t) ==
    /\ At(t, "sta_start")
    /\ StaStart
    /\ Go(t, "sta_wait")
    /\ UNCHANGED <<loopVars, apVars, mqttVars, httpVars>>

\* esp_wifi_set_config rejects the configuration (aug_wifi_sta.c:91).
StaRejected(t) ==
    /\ At(t, "sta_start")
    /\ AfterConnect(t, FALSE)
    /\ UNCHANGED <<loopVars, driverVars, staVars, apVars, mqttVars, httpVars>>

StaWaitStep(t) ==
    /\ At(t, "sta_wait")
    /\ StaWaitDone
    /\ AfterConnect(t, StaConnectOK)
    /\ UNCHANGED <<loopVars, driverVars, staVars, apVars, mqttVars, httpVars>>

ApResetStep(t) ==
    /\ At(t, "ap_reset")
    /\ ApReset
    /\ Go(t, "ap_scan")
    /\ UNCHANGED <<loopVars, driverVars, staVars, mqttVars, httpVars>>

\* aug_get_least_freq_channel: a blocking scan of seconds, long enough for
\* sys_evt to dispatch what is left in the default loop.
ApScanStep(t) ==
    /\ At(t, "ap_scan")
    /\ wifiEvents = <<>>
    /\ LoopMutexFree
    /\ Go(t, "ap_create")
    /\ UNCHANGED <<loopVars, driverVars, staVars, apVars, mqttVars, httpVars>>

ApCreateStep(t) ==
    /\ At(t, "ap_create")
    /\ ApCreate
    /\ Go(t, "ap_register")
    /\ UNCHANGED <<loopVars, driverVars, staVars, mqttVars, httpVars>>

ApRegisterStep(t) ==
    /\ At(t, "ap_register")
    /\ ApRegister
    /\ Go(t, "ap_start")
    /\ UNCHANGED <<loopVars, driverVars, staVars, mqttVars, httpVars>>

ApStartStep(t) ==
    /\ At(t, "ap_start")
    /\ ApStart
    /\ AfterConnect(t, TRUE)
    /\ UNCHANGED <<loopVars, staVars, mqttVars, httpVars>>

HttpStartStep(t) ==
    /\ At(t, "http_start")
    /\ HttpStart
    /\ \/ t = "main" /\ Go(t, "mqtt_init")
       \/ t = "loop" /\ job = "init_sta" /\ Go(t, "mqtt_start")
       \/ t = "loop" /\ job # "init_sta" /\ Return
    /\ UNCHANGED <<loopVars, driverVars, staVars, apVars, mqttVars>>

MqttStartStep(t) ==
    /\ At(t, "mqtt_start")
    /\ MqttStart
    /\ IF t = "main" THEN Go(t, "done") ELSE Return
    /\ UNCHANGED <<loopVars, driverVars, staVars, apVars, httpVars>>

MqttStartFails(t) ==
    /\ At(t, "mqtt_start")
    /\ ~MqttStartOK
    /\ Panic("mqtt_start")

ConnectStep(t) ==
    \/ StaCreateStep(t) \/ StaRegisterStep(t) \/ StaStartStep(t)
    \/ StaRejected(t) \/ StaWaitStep(t)
    \/ ApResetStep(t) \/ ApScanStep(t) \/ ApCreateStep(t) \/ ApRegisterStep(t)
    \/ ApStartStep(t)
    \/ HttpStartStep(t) \/ MqttStartStep(t) \/ MqttStartFails(t)
-----------------------------------------------------------------------------
(* main_init. *)

\* A saved station configuration selects the mode (201 to 210).
Boot ==
    /\ At("main", "boot")
    /\ Go("main", IF staSaved THEN "sta_create" ELSE "ap_reset")
    /\ UNCHANGED <<loopVars, driverVars, staVars, apVars, mqttVars, httpVars>>

RegisterStep ==
    /\ At("main", "register")
    /\ RegisterEvents
    /\ Go("main", "sensors")
    /\ UNCHANGED <<driverVars, staVars, apVars, mqttVars, httpVars>>

\* aug_ds18b20_init returns: it fails when no sensor answers.  Its search retries
\* an error of the bus for ever (module Sensors), so the step may never come.
SensorsStep ==
    /\ At("main", "sensors")
    /\ \/ /\ Go("main", "http_start")
          /\ UNCHANGED <<loopVars, driverVars, staVars, apVars, mqttVars,
                         httpVars>>
       \/ Panic("sensors")

\* aug_mqtt_init, which fails on a URI the client cannot parse; then the test
\* of aug_wifi_sta_is_init (224).
MqttInitStep ==
    /\ At("main", "mqtt_init")
    /\ \/ /\ MqttInit
          /\ Go("main", IF sta_netif THEN "mqtt_start" ELSE "done")
          /\ UNCHANGED <<loopVars, driverVars, staVars, apVars, httpVars>>
       \/ Panic("mqtt_init")

MainStep ==
    \/ Boot \/ RegisterStep \/ SensorsStep \/ MqttInitStep
    \/ ConnectStep("main")
-----------------------------------------------------------------------------
(* The callbacks of second_loop. *)

\* No handler is registered yet: the event is lost.
EventLost ==
    /\ At("loop", "idle")
    /\ ~registered
    /\ \E event \in Events : Receive(event)
    /\ UNCHANGED <<driverVars, staVars, apVars, mqttVars, httpVars, taskVars,
                   panic, staSaved>>

\* The event's callback is called.
CallbackStarts ==
    /\ At("loop", "idle")
    /\ registered
    /\ \E event \in Events :
          /\ Receive(event)
          /\ job' = Callback(event)
          /\ early' = (pc["main"] # "done")
          /\ pc' = [pc EXCEPT !["loop"] =
                      IF event = "INIT_MQTT" THEN "set_uri" ELSE "mqtt_stop"]
    /\ UNCHANGED <<driverVars, staVars, apVars, mqttVars, httpVars, panic,
                   staSaved>>

\* callback_init_mqtt: ESP_ERROR_CHECK(aug_mqtt_set_uri()).
SetUriStep ==
    /\ At("loop", "set_uri")
    /\ \/ /\ MqttSetUri
          /\ Return
          /\ UNCHANGED <<loopVars, driverVars, staVars, apVars, httpVars>>
       \/ /\ MqttSetUriRejected
          /\ panic' = "bad_uri"
          /\ UNCHANGED <<loopVars, driverVars, staVars, apVars, httpVars,
                         taskVars, staSaved>>
       \/ /\ ~MqttStopOK
          /\ Panic("set_uri")

\* if (aug_mqtt_is_connected()) ESP_ERROR_CHECK(aug_mqtt_stop());
MqttStopStep ==
    /\ At("loop", "mqtt_stop")
    /\ \/ /\ is_connected
          /\ MqttStop
          /\ Go("loop", "http_stop")
          /\ UNCHANGED <<loopVars, driverVars, staVars, apVars, httpVars>>
       \/ /\ ~is_connected
          /\ Go("loop", "http_stop")
          /\ UNCHANGED <<loopVars, driverVars, staVars, apVars, mqttVars,
                         httpVars>>
       \/ /\ is_connected
          /\ ~MqttStopOK
          /\ Panic("mqtt_stop")

\* deinit_modules: the server first, if there is one.  While httpd_stop waits,
\* httpd may still serve the sessions its select() has already returned.
HttpStopStep ==
    /\ At("loop", "http_stop")
    /\ IF server THEN HttpStop ELSE UNCHANGED httpVars
    /\ Go("loop", AfterHttp)
    /\ UNCHANGED <<loopVars, driverVars, staVars, apVars, mqttVars>>

StaForgetStep ==
    /\ At("loop", "sta_forget")
    /\ StaForgetLoop
    /\ Go("loop", "sta_unregister")
    /\ UNCHANGED <<loopVars, driverVars, apVars, mqttVars, httpVars>>

StaUnregisterStep ==
    /\ At("loop", "sta_unregister")
    /\ StaUnregister
    /\ Go("loop", "sta_release")
    /\ UNCHANGED <<loopVars, driverVars, apVars, mqttVars, httpVars>>

StaReleaseStep ==
    /\ At("loop", "sta_release")
    /\ StaRelease
    /\ Go("loop", AfterSta)
    /\ UNCHANGED <<loopVars, apVars, mqttVars, httpVars>>

ApZeroStep ==
    /\ At("loop", "ap_zero")
    /\ ApZero
    /\ Go("loop", "ap_delete_task")
    /\ UNCHANGED <<loopVars, driverVars, staVars, mqttVars, httpVars>>

ApDeleteTaskStep ==
    /\ At("loop", "ap_delete_task")
    /\ ApDeleteIdleTask
    /\ Go("loop", "ap_unregister")
    /\ UNCHANGED <<loopVars, driverVars, staVars, mqttVars, httpVars>>

ApUnregisterStep ==
    /\ At("loop", "ap_unregister")
    /\ ApUnregister
    /\ Go("loop", "ap_release")
    /\ UNCHANGED <<loopVars, driverVars, staVars, mqttVars, httpVars>>

ApReleaseStep ==
    /\ At("loop", "ap_release")
    /\ ApRelease
    /\ Go("loop", Stopped)
    /\ UNCHANGED <<loopVars, staVars, mqttVars, httpVars>>

\* write_nvs_data saves every configuration, the station's included.
WriteNvsStep ==
    /\ At("loop", "write_nvs")
    /\ staSaved' = TRUE
    /\ pc' = [pc EXCEPT !["loop"] = "restart"]
    /\ UNCHANGED <<loopVars, driverVars, staVars, apVars, mqttVars, httpVars,
                   job, early, panic>>

LoopStep ==
    \/ EventLost \/ CallbackStarts \/ SetUriStep \/ MqttStopStep
    \/ HttpStopStep \/ StaForgetStep \/ StaUnregisterStep \/ StaReleaseStep
    \/ ApZeroStep \/ ApDeleteTaskStep \/ ApUnregisterStep \/ ApReleaseStep
    \/ WriteNvsStep \/ ConnectStep("loop")
-----------------------------------------------------------------------------
(* The other tasks. *)

Alive == panic = "none"
KeepTasks == UNCHANGED <<taskVars, panic, staSaved>>

\* event_handler of aug_wifi_sta.c in sys_evt.
StaEvent ==
    /\ Alive
    /\ OnStaStart \/ OnDisconnectedRetry \/ OnDisconnectedGiveUp
       \/ SetFailBit \/ OnGotIp
    /\ KeepTasks
    /\ UNCHANGED <<loopVars, apVars, mqttVars, httpVars>>

\* *event_loop_handle is read after aug_wifi_sta_disconnect has cleared it.
StaEventPanics ==
    /\ Alive
    /\ GivesUp
    /\ ~sta_loop
    /\ Panic("null_loop")

StaPost ==
    /\ Alive
    /\ PostFailedAttempts
    /\ KeepTasks
    /\ UNCHANGED <<apVars, mqttVars, httpVars>>

\* wifi_event_handler of aug_wifi_ap.c in sys_evt.
ApEvent ==
    /\ Alive
    /\ OnStationEvent
    /\ KeepTasks
    /\ UNCHANGED <<loopVars, staVars, mqttVars, httpVars>>

\* An event no registered handler has a branch for.
UnhandledEvent ==
    /\ Alive
    /\ \E event \in WifiEvents :
          /\ Dispatch(event)
          /\ IF event \in {"AP_STACONNECTED", "AP_STADISCONNECTED"}
               THEN ~ap_handlers ELSE ~sta_handlers
    /\ KeepTasks
    /\ UNCHANGED <<loopVars, mode, link, clients, sysEvt, refused, staVars,
                   apVars, mqttVars, httpVars>>

IdleStep ==
    /\ Alive
    /\ \/ IdleCheck /\ UNCHANGED loopVars
       \/ PostIdle
    /\ KeepTasks
    /\ UNCHANGED <<driverVars, staVars, mqttVars, httpVars>>

\* A client reaches the server over either interface.
RequestArrives ==
    /\ Alive
    /\ link = "up" \/ clients > 0
    /\ \E r \in Requests : HandlerStarts(r)
    /\ KeepTasks
    /\ UNCHANGED <<loopVars, driverVars, staVars, apVars, mqttVars>>

\* ESP_ERROR_CHECK(esp_ota_begin(..)), before the first piece is received.
UploadAborts ==
    /\ httpd = "receive"
    /\ Panic("ota_begin")

\* The handler in progress takes a step.
HandlerStep ==
    /\ \/ HandlerPosts
       \/ (OptionsWritten \/ UploadEnds \/ HandlerReplies) /\ UNCHANGED loopVars
    /\ KeepTasks
    /\ UNCHANGED <<driverVars, staVars, apVars, mqttVars>>

HttpStep == Alive /\ (HandlerStep \/ UploadAborts)

\* The broker is reached over the station's link.
MqttTaskStep ==
    /\ Alive
    /\ (link = "up" /\ MqttConnected) \/ MqttDisconnected
    /\ KeepTasks
    /\ UNCHANGED <<loopVars, driverVars, staVars, apVars, httpVars>>

DriverStep ==
    /\ Alive
    /\ LinkUp \/ LinkDown \/ ClientJoins \/ ClientLeaves
    /\ KeepTasks
    /\ UNCHANGED <<loopVars, staVars, apVars, mqttVars, httpVars>>

\* esp_restart or an abort: RAM is lost, NVS is kept.
Reboot ==
    /\ panic # "none" \/ pc["loop"] = "restart"
    /\ queue' = <<>> /\ registered' = FALSE
    /\ mode' = "off" /\ link' = "down" /\ clients' = 0
    /\ wifiEvents' = <<>> /\ sysEvt' = "idle" /\ refused' = FALSE
    /\ sta_netif' = FALSE /\ sta_handlers' = FALSE /\ sta_loop' = FALSE
    /\ group' = FALSE /\ bits' = {} /\ retry_num' = 0 /\ failures' = 0
    /\ ap_netif' = FALSE /\ ap_handlers' = FALSE /\ current_connections' = 0
    /\ idle_handle' = FALSE /\ idleTask' = "none"
    /\ client' = "null" /\ is_connected' = FALSE
    /\ server' = FALSE /\ httpd' = "off" /\ request' = "none"
    /\ pc' = BootPc
    /\ job' = "none"
    /\ early' = FALSE
    /\ panic' = "none"
    /\ UNCHANGED staSaved

SysEvtStep == StaEvent \/ StaEventPanics \/ StaPost \/ ApEvent \/ UnhandledEvent

Next ==
    \/ MainStep
    \/ LoopStep
    \/ SysEvtStep
    \/ IdleStep
    \/ RequestArrives
    \/ HttpStep
    \/ MqttTaskStep
    \/ DriverStep
    \/ Reboot

Spec == Init /\ [][Next]_vars
=============================================================================
