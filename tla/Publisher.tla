------------------------------ MODULE Publisher -------------------------------
(***************************************************************************)
(* publish_task of main.c: while the MQTT client is connected it reads     *)
(* each sensor in turn and publishes three messages for it.  They are sent *)
(* with quality of service 0: one published while the client is not        *)
(* connected is lost.                                                      *)
(***************************************************************************)
EXTENDS Sensors, MqttClient

VARIABLES
    publish,         \* where publish_task stands
    index,           \* the sensor the loop is at, from 1
    sensors_number   \* aug_get_sensors_number(), read once

publishVars == <<publish, index, sensors_number>>

PublishSteps == {"off", "loop", "meta", "value", "delay"}

PublishTypeOK ==
    /\ publish \in PublishSteps
    /\ index \in 1..(MaxSensors + 1)
    /\ sensors_number \in 0..MaxSensors

PublishInit ==
    /\ publish = "off"
    /\ index = 1
    /\ sensors_number = 0

\* xTaskCreate(publish_task)
PublisherStarts ==
    /\ publish = "off"
    /\ publish' = "loop"
    /\ sensors_number' = Len(ds18b20s)
    /\ UNCHANGED index

\* Mutant of LoopContinues: the sensors are numbered from 1.
LoopContinuesPast == index <= sensors_number + 1 /\ is_connected

LoopContinues == index <= sensors_number /\ is_connected

\* aug_get_temperature returns.
ReadTemperature ==
    /\ publish = "loop"
    /\ LoopContinues
    /\ publish' = "meta"
    /\ UNCHANGED <<index, sensors_number>>

\* aug_get_temperature aborts when the sensor does not answer.
ReadFails ==
    /\ publish = "loop"
    /\ LoopContinues

\* aug_mqtt_publish_str of meta/type and of meta/readonly.
PublishMeta ==
    /\ publish = "meta"
    /\ publish' = "value"
    /\ UNCHANGED <<index, sensors_number>>

\* aug_mqtt_publish_str of the temperature; ++i.
PublishValue ==
    /\ publish = "value"
    /\ publish' = "loop"
    /\ index' = index + 1
    /\ UNCHANGED sensors_number

LoopEnds ==
    /\ publish = "loop"
    /\ ~LoopContinues
    /\ publish' = "delay"
    /\ UNCHANGED <<index, sensors_number>>

\* Mutant of DelayEnds: the next round goes on from where the last one ended.
DelayEndsAtIndex ==
    /\ publish = "delay"
    /\ publish' = "loop"
    /\ UNCHANGED <<index, sensors_number>>

\* vTaskDelay returns, and the loop starts with the first sensor.
DelayEnds ==
    /\ publish = "delay"
    /\ publish' = "loop"
    /\ index' = 1
    /\ UNCHANGED sensors_number

\* The broker receives the temperature of sensor n.
ValueReceived(n) == PublishValue /\ index = n /\ client = "connected"
==============================================================================
