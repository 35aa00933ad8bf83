------------------------- MODULE LifecycleProperties --------------------------
(***************************************************************************)
(* What module Lifecycle is checked for.  LeastBusy is in ChannelScan.     *)
(***************************************************************************)
EXTENDS Lifecycle

\* The table stays within its array and has the sensors in the order of the bus,
\* each once, whatever else is on it: the numbers publish_task gives them in its
\* topics are the same after every boot that finds them all.  The search leaves a
\* sensor out only when the table is full or the bus failed as the iterator came
\* to it.
SensorTable ==
    /\ Len(ds18b20s) <= MaxSensors
    /\ \A m, n \in DOMAIN ds18b20s : m < n => ds18b20s[m] < ds18b20s[n]
    /\ search \in {"found", "resolution"} /\ Len(ds18b20s) < MaxSensors
          => \A s \in Ds18b20s \ missed : Sensor(s)

\* publish_task counts the sensors once and reads the table without a lock or a
\* check: at every call the sensors are initialised and the index is in the
\* table, at a sensor whose resolution was set.
SensorsReadable ==
    publish \in {"meta", "value"} =>
        search = "ready" /\ index <= Len(ds18b20s) /\ index <= resolved

\* A client that was told "Loading firmware complete" gets that firmware: until
\* somebody begins another upload, every boot, after a restart, an abort or a
\* power failure, finds it complete in the partition the bootloader takes.
PromisedImageBoots ==
    promised # "none" =>
        Bootable(BootPartition) /\ flash[BootPartition].file = promised

\* No upload, nor a second one before the restart, nor one that breaks off, touches
\* the firmware that runs; and every reset finds a partition that boots.
RunningIntact == Bootable(running)

\* Nor is that client forgotten: as long as the firmware before it runs, the
\* event that restarts the device is queued, behind whatever else, or
\* callback_esp_restart is under way.
UpdateUnderWay ==
    promised # "none" /\ running # boot =>
        job = "esp_restart" \/ \E n \in 1..Len(queue) : queue[n] = "OTA_UPDATE"

\* The upload, cut here into the calls of ota_update_handler, is one request of
\* module HttpServer, on which Device is built: its handler receives the image,
\* posts once the partition is selected, and answers.  Another endpoint's handler
\* shows nothing, and a reset stops the server whatever it is doing.
Upload == INSTANCE HttpServer WITH
            server   <- httpd # "off",
            httpd    <- CASE httpd = "select" -> "receive"
                          [] httpd = "other"  -> "wait"
                          [] OTHER            -> httpd,
            request  <- IF httpd \in {"off", "wait", "other"} THEN "none"
                                                            ELSE "OTA_UPDATE",
            Requests <- {"OTA_UPDATE"}

UploadServed ==
    \/ Upload!HttpStart \/ Upload!HttpStop
    \/ Upload!HandlerStarts("OTA_UPDATE") \/ Upload!UploadEnds
    \/ Upload!HandlerPosts \/ Upload!HandlerReplies
    \/ Reset

UploadImplementsHttpServer ==
    Upload!HttpInit /\ [][UploadServed]_(Upload!httpVars)
-----------------------------------------------------------------------------
(***************************************************************************)
(* Fairness: FreeRTOS runs every ready task in the end.  httpd_stop is     *)
(* asked about again and again, while httpd may serve a few more sessions, *)
(* of which there are finitely many: strong fairness.  Clients, the        *)
(* broker, the bus and the power owe nothing, nor does                     *)
(* aug_wifi_sta_connect owe its return.                                    *)
(***************************************************************************)
FairSpec ==
    /\ Spec
    /\ WF_vars(MainStep)
    /\ WF_vars(LoopStep)
    /\ SF_vars(StopHttp)
    /\ WF_vars(UploadByHandler)
    /\ WF_vars(OtherPosts)
    /\ WF_vars(PublishStep)

\* aug_ds18b20_init retries an error of the bus for ever, with the rest of
\* main_init behind it: if the bus comes to work, every search ends.
SearchEnds ==
    <>[]~busFails => [](phase = "sensors" => <>(phase # "sensors"))

\* While the client stays connected, every sensor found publishes again and
\* again: no round leaves one out for good, however the rounds before it ended.
EverySensorPublishes ==
    \A n \in 1..MaxSensors :
        <>[](client = "connected" /\ n \in DOMAIN ds18b20s)
            => []<><<ValueReceived(n)>>_vars

\* An update that was answered 200 restarts the device into it, unless another
\* upload is begun first or second_loop never comes to the event: callbacks before
\* it may wait for the station for ever (main.c:107), or for a handler that waits
\* for a place in the queue.
UpdateTakesEffect ==
    []<>(callback # "connect") /\ []<>CanPost =>
        (promised # "none" ~> running = boot \/ promised = "none")

\* A callback waits for uploads in progress without a timeout: it goes on if their
\* clients all finish or go, unless a handler finds the queue full.
StopHeldOnlyByUploads ==
    []<>(httpd # "receive" \/ left = 0) =>
        [](callback = "http_stop"
              => <>(callback # "http_stop" \/ ~CanPost))
==============================================================================
