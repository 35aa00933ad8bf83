----------------------------- MODULE MqttClient ------------------------------
(***************************************************************************)
(* aug_mqtt_client.c over the esp-mqtt client.  The client itself is       *)
(* external: it is created by init, runs between start and stop, and while *)
(* it runs its task alternates between "waiting" (to connect again) and    *)
(* "connected".  Calls made in the wrong state return an error and change  *)
(* nothing.  Start, stop and a connection attempt exclude one another (the *)
(* client's API lock), so each is one step.                                *)
(*                                                                         *)
(* The firmware's own copy of the connection state is is_connected, which  *)
(* only mqtt_event_handler and aug_mqtt_deinit (never called) write.       *)
(* Stopping the client dispatches no event.                                *)
(***************************************************************************)
VARIABLES
    client,       \* state of the esp-mqtt client behind mqtt_client_handle
    is_connected  \* the static flag of aug_mqtt_client.c

mqttVars == <<client, is_connected>>

ClientStates == {"null", "stopped", "waiting", "connected"}

MqttTypeOK ==
    /\ client \in ClientStates
    /\ is_connected \in BOOLEAN

MqttInitState ==
    /\ client = "null"
    /\ is_connected = FALSE

Running == client \in {"waiting", "connected"}

\* aug_mqtt_init() with a URI esp_mqtt_client_init accepts.
MqttInit ==
    /\ client' = "stopped"
    /\ UNCHANGED is_connected

\* What aug_mqtt_start() returns: ESP_ERR_INVALID_ARG for a NULL handle,
\* ESP_FAIL when the client runs already, ESP_OK otherwise.
MqttStartOK == client = "stopped"

MqttStart ==
    /\ MqttStartOK
    /\ client' = "waiting"
    /\ UNCHANGED is_connected

\* aug_mqtt_stop() returns ESP_OK only for a running client.
MqttStopOK == Running

MqttStop ==
    /\ MqttStopOK
    /\ client' = "stopped"
    /\ UNCHANGED is_connected

\* Mutant of MqttSetUri: the client is not started again, and ESP_OK returned.
MqttSetUriOnly ==
    /\ MqttStopOK
    /\ client' = "stopped"
    /\ UNCHANGED is_connected

\* aug_mqtt_set_uri() stops the client, gives it the URI and starts it again; the
\* first failure is returned, which is that of the stop when ~MqttStopOK.
MqttSetUri ==
    /\ MqttStopOK
    /\ client' = "waiting"
    /\ UNCHANGED is_connected

\* esp_mqtt_client_set_uri refuses a URI it cannot parse (110): the client has
\* been stopped and is not started again.
MqttSetUriRejected ==
    /\ MqttStopOK
    /\ client' = "stopped"
    /\ UNCHANGED is_connected

\* The client's task reaches the broker, and dispatches MQTT_EVENT_CONNECTED.
MqttConnected ==
    /\ client = "waiting"
    /\ client' = "connected"
    /\ is_connected' = TRUE

\* An attempt fails or an established connection breaks: MQTT_EVENT_DISCONNECTED.
MqttDisconnected ==
    /\ Running
    /\ client' = "waiting"
    /\ is_connected' = FALSE
==============================================================================
