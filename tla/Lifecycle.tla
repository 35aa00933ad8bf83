------------------------------ MODULE Lifecycle -------------------------------
(***************************************************************************)
(* A device from reset to reset: the boot of app_main and main_init with   *)
(* the scan for a channel and the search for the sensors, then             *)
(* publish_task, an upload in httpd, and second_loop, whose callbacks wait *)
(* behind one another and one of which restarts the device.  A reset comes *)
(* from esp_restart, from a failed ESP_ERROR_CHECK or from the power; it   *)
(* loses RAM, keeps the flash and is a single step.  What brings the modes *)
(* up and down is in Device, what is saved in ConfigStore: here a boot     *)
(* starts either mode, and bringing one up is a single step, which need    *)
(* not come.                                                               *)
(***************************************************************************)
EXTENDS ChannelScan, Publisher, Ota

CONSTANT
    Others   \* bound: the events posted besides OTA_UPDATE

ASSUME OthersAssumption == Others \subseteq Events \ {"OTA_UPDATE"}

VARIABLES
    phase,     \* where main stands
    station,   \* sta_netif # NULL: the mode is, or is to be, the station's
    callback,  \* where the callback of second_loop stands
    job        \* which callback that is

bootVars == <<phase, station, callback, job>>
ramVars == <<scanVars, sensorVars, publishVars, mqttVars>>
vars == <<ramVars, otaVars, loopVars, bootVars>>

Callbacks == {"idle", "http_stop", "connect", "mqtt_start", "write_nvs"}
Jobs == {"none", "init_ap", "init_sta", "esp_restart"}
Phases == {"app_main", "connect", "scan", "register", "sensors", "http_start",
           "mqtt_init", "mqtt_start", "main_loop"}

TypeOK ==
    /\ ScanTypeOK
    /\ SensorsTypeOK
    /\ PublishTypeOK
    /\ MqttTypeOK
    /\ OtaTypeOK
    /\ LoopTypeOK
    /\ phase \in Phases
    /\ station \in BOOLEAN
    /\ callback \in Callbacks
    /\ job \in Jobs

BootInit ==
    /\ phase = "app_main"
    /\ station = FALSE
    /\ callback = "idle"
    /\ job = "none"

Init ==
    /\ ScanInit /\ SensorsInit /\ PublishInit /\ MqttInitState /\ LoopInit
    /\ OtaInit
    /\ BootInit

\* RAM is as app_main finds it, and the bootloader has chosen a partition.
Reset ==
    /\ scanStep' = "idle" /\ found' = <<>> /\ count' = NoCount /\ i' = 0
    /\ min_elem' = 0 /\ min_count' = 255
    /\ search' = "off" /\ unseen' = {} /\ ds18b20s' = <<>> /\ resolved' = 0
    /\ busFails' = FALSE /\ missed' = {}
    /\ publish' = "off" /\ index' = 1 /\ sensors_number' = 0
    /\ client' = "null" /\ is_connected' = FALSE
    /\ queue' = <<>> /\ registered' = FALSE
    /\ httpd' = "off" /\ left' = 0 /\ file' = "none"
    /\ phase' = "app_main" /\ station' = FALSE
    /\ callback' = "idle" /\ job' = "none"
    /\ running' = BootPartition
    /\ UNCHANGED <<flashVars, promised>>

Main(from, to) ==
    /\ phase = from
    /\ phase' = to
    /\ UNCHANGED <<station, callback, job>>

\* aug_http_start: httpd_start fails while a server holds the port.
HttpStart ==
    /\ httpd' = IF httpd = "off" THEN "wait" ELSE httpd
    /\ UNCHANGED <<flashVars, running, left, file, promised>>
-----------------------------------------------------------------------------
(* main: app_main and main_init. *)

\* The configurations, and the choice of the mode.
StartStation ==
    /\ phase = "app_main"
    /\ phase' = "connect"
    /\ station' = TRUE
    /\ UNCHANGED <<ramVars, otaVars, loopVars, callback, job>>

\* aug_wifi_sta_connect returns, if it ever does; its result is ignored (202).
StationReturns ==
    /\ Main("connect", "register")
    /\ UNCHANGED <<ramVars, otaVars, loopVars>>

\* aug_nvs_init and aug_wifi_init, both under ESP_ERROR_CHECK.
AppInitFails == phase = "app_main" /\ Reset

\* aug_wifi_ap_start calls aug_get_least_freq_channel.
StartAccessPoint ==
    /\ Main("app_main", "scan")
    /\ ScanStarts
    /\ UNCHANGED <<sensorVars, publishVars, mqttVars, otaVars, loopVars>>

Scan ==
    /\ phase = "scan"
    /\ CountRecord \/ AllCounted \/ CompareChannel \/ AllCompared
    /\ UNCHANGED <<sensorVars, publishVars, mqttVars, otaVars, loopVars, bootVars>>

ScanEnds ==
    /\ Main("scan", "register")
    /\ ScanReturns
    /\ UNCHANGED <<sensorVars, publishVars, mqttVars, otaVars, loopVars>>

Register ==
    /\ Main("register", "sensors")
    /\ RegisterEvents
    /\ UNCHANGED <<ramVars, otaVars>>

\* aug_ds18b20_init.
InitSensors ==
    /\ phase = "sensors"
    /\ SearchStarts \/ NextDevice \/ NoMoreDevices \/ SearchReturns
       \/ SetResolution \/ SensorsReady
    /\ phase' = IF search' = "ready" THEN "http_start" ELSE phase
    /\ UNCHANGED <<scanVars, publishVars, mqttVars, otaVars, loopVars, station,
                   callback, job>>

BusError ==
    /\ phase = "sensors"
    /\ SearchError
    /\ UNCHANGED <<scanVars, publishVars, mqttVars, otaVars, loopVars, bootVars>>

InitSensorsFails ==
    /\ phase = "sensors"
    /\ SensorsFail
    /\ Reset

StartHttp ==
    /\ Main("http_start", "mqtt_init")
    /\ HttpStart
    /\ UNCHANGED <<ramVars, loopVars>>

\* xTaskCreate(publish_task) comes at once when there is no client to start.
InitMqtt ==
    /\ IF station THEN Main("mqtt_init", "mqtt_start") /\ UNCHANGED publishVars
                  ELSE Main("mqtt_init", "main_loop") /\ PublisherStarts
    /\ MqttInit
    /\ UNCHANGED <<scanVars, sensorVars, otaVars, loopVars>>

InitMqttFails == phase = "mqtt_init" /\ Reset

StartMqtt ==
    /\ Main("mqtt_start", "main_loop")
    /\ MqttStart
    /\ PublisherStarts
    /\ UNCHANGED <<scanVars, sensorVars, otaVars, loopVars>>

StartMqttFails == phase = "mqtt_start" /\ ~MqttStartOK /\ Reset

MainStep ==
    \/ AppInitFails \/ StartStation \/ StartAccessPoint \/ Scan \/ ScanEnds
    \/ Register
    \/ InitSensors \/ BusError \/ InitSensorsFails
    \/ StartHttp \/ InitMqtt \/ InitMqttFails \/ StartMqtt \/ StartMqttFails
-----------------------------------------------------------------------------
(* second_loop: one callback at a time. *)

\* The callback registered for each event (register_events).
Callback(event) ==
    CASE event = "FAILED_ATTEMPTS"              -> "init_ap"
      [] event \in {"IDLE", "INIT_STA"}         -> "init_sta"
      [] event = "INIT_MQTT"                    -> "init_mqtt"
      [] event \in {"OTA_UPDATE", "RESTART"}    -> "esp_restart"

Goes(from, to) ==
    /\ callback = from
    /\ callback' = to
    /\ UNCHANGED <<phase, job>>

Returns(from) ==
    /\ callback = from
    /\ callback' = "idle"
    /\ job' = "none"
    /\ UNCHANGED <<phase, station>>

\* No handler is registered yet.
EventLost ==
    /\ callback = "idle"
    /\ ~registered
    /\ \E event \in Events : Receive(event)
    /\ UNCHANGED <<ramVars, otaVars, bootVars>>

Free == callback = "idle" /\ registered

ModeEvents == Events \ {"INIT_MQTT"}

\* Their callbacks all begin with
\* if (aug_mqtt_is_connected()) ESP_ERROR_CHECK(aug_mqtt_stop());
CallbackStarts ==
    /\ Free
    /\ \E event \in ModeEvents : Receive(event) /\ job' = Callback(event)
    /\ callback' = "http_stop"
    /\ IF is_connected THEN MqttStop ELSE UNCHANGED mqttVars
    /\ UNCHANGED <<scanVars, sensorVars, publishVars, otaVars, phase, station>>

StopMqttFails ==
    /\ Free
    /\ queue # <<>> /\ Head(queue) \in ModeEvents
    /\ is_connected /\ ~MqttStopOK
    /\ Reset

\* callback_init_mqtt: ESP_ERROR_CHECK(aug_mqtt_set_uri()).
SetUri ==
    /\ Free
    /\ Receive("INIT_MQTT")
    /\ MqttSetUri
    /\ UNCHANGED <<scanVars, sensorVars, publishVars, otaVars, bootVars>>

\* The client does not run, or rejects the URI once stopped.
SetUriFails ==
    /\ Free
    /\ queue # <<>> /\ Head(queue) = "INIT_MQTT"
    /\ Reset

AfterStop == IF job = "esp_restart" THEN "write_nvs" ELSE "connect"

\* Mutant of StopHttp: does not wait for the handler in progress.
StopHttpAtOnce ==
    /\ Goes("http_stop", AfterStop)
    /\ httpd' = "off"
    /\ station' = (job = "init_sta")
    /\ UNCHANGED <<ramVars, flashVars, running, left, file, promised, loopVars>>

\* deinit_modules: httpd_stop returns when no handler runs; until then httpd may
\* still call the handlers of the sessions its select() has already returned.
\* With it goes the mode before, and the next one begins.
StopHttp ==
    /\ Goes("http_stop", AfterStop)
    /\ httpd \in {"off", "wait"}
    /\ httpd' = "off"
    /\ station' = (job = "init_sta")
    /\ UNCHANGED <<ramVars, flashVars, running, left, file, promised, loopVars>>

\* aug_wifi_sta_connect or aug_wifi_ap_start returns, if it ever does: the station
\* waits for an event group without a timeout.  The server is started, after which
\* an access point needs no more; a station that has failed gets none.
ConnectReturns ==
    /\ \/ /\ HttpStart
          /\ IF job = "init_sta"
               THEN Goes("connect", "mqtt_start") /\ UNCHANGED station
               ELSE Returns("connect")
       \/ job = "init_sta" /\ Returns("connect") /\ UNCHANGED otaVars
    /\ UNCHANGED <<ramVars, loopVars>>

StartMqttAgain ==
    /\ Returns("mqtt_start")
    /\ MqttStart
    /\ UNCHANGED <<scanVars, sensorVars, publishVars, otaVars, loopVars>>

StartMqttAgainFails == callback = "mqtt_start" /\ ~MqttStartOK /\ Reset

\* write_nvs_data, which aborts when a save fails, and esp_restart.
EspRestart == callback = "write_nvs" /\ Reset

\* The steps that wait for no other task.
LoopStep ==
    \/ EventLost \/ CallbackStarts \/ StopMqttFails \/ SetUri \/ SetUriFails
    \/ StartMqttAgain \/ StartMqttAgainFails \/ EspRestart
-----------------------------------------------------------------------------
(* publish_task, httpd, the MQTT task, the bus and the power. *)

PublishStep ==
    /\ ReadTemperature \/ PublishMeta \/ PublishValue \/ LoopEnds \/ DelayEnds
    /\ UNCHANGED <<scanVars, sensorVars, mqttVars, otaVars, loopVars, bootVars>>

SensorSilent == ReadFails /\ Reset

UploadByHandler == HandlerStep /\ UNCHANGED <<ramVars, bootVars>>
UploadByClient == ClientStep /\ UNCHANGED <<ramVars, bootVars>>

\* ESP_ERROR_CHECK(esp_ota_begin(..)): no memory for a handle, or the flash fails.
UploadAborts == httpd = "wait" /\ Reset

\* The handlers that post another event.
HandlerEvents == Others \cap {"INIT_STA", "INIT_MQTT", "RESTART"}

OtherRequest ==
    /\ httpd = "wait"
    /\ HandlerEvents # {}
    /\ httpd' = "other"
    /\ UNCHANGED <<ramVars, flashVars, running, left, file, promised, loopVars,
                   bootVars>>

OtherPosts ==
    /\ httpd = "other"
    /\ \E event \in HandlerEvents : Post(event)
    /\ httpd' = "wait"
    /\ UNCHANGED <<ramVars, flashVars, running, left, file, promised, bootVars>>

\* sys_evt and idle_check_task give up on the mode that is up.
ModeEvent ==
    IF station THEN "FAILED_ATTEMPTS" ELSE "IDLE"

EventArrives ==
    /\ phase \notin {"app_main", "scan"}
    /\ station \/ callback \notin {"connect", "write_nvs"}
    /\ ModeEvent \in Others
    /\ Post(ModeEvent)
    /\ UNCHANGED <<ramVars, otaVars, bootVars>>

BrokerStep ==
    /\ (station /\ MqttConnected) \/ MqttDisconnected
    /\ UNCHANGED <<scanVars, sensorVars, publishVars, otaVars, loopVars, bootVars>>

BusStep ==
    /\ BusChanges
    /\ UNCHANGED <<scanVars, publishVars, mqttVars, otaVars, loopVars, bootVars>>

PowerFails == Reset

Next ==
    \/ MainStep \/ StationReturns
    \/ LoopStep \/ StopHttp \/ ConnectReturns
    \/ PublishStep \/ SensorSilent
    \/ UploadByHandler \/ UploadByClient \/ UploadAborts
    \/ OtherRequest \/ OtherPosts \/ EventArrives
    \/ BrokerStep \/ BusStep
    \/ PowerFails

Spec == Init /\ [][Next]_vars
==============================================================================
