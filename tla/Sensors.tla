------------------------------- MODULE Sensors --------------------------------
(***************************************************************************)
(* aug_ds18b20.c: the search of the 1-Wire bus for DS18B20 sensors, their  *)
(* table, and the reading of a temperature.  The bus is external: the      *)
(* iterator yields each device once, in the order of the addresses, then   *)
(* ESP_ERR_NOT_FOUND; while the bus fails every call returns another error *)
(* and may pass a device over.  aug_ds18b20_deinit is never called.        *)
(***************************************************************************)
EXTENDS Integers, Sequences, FiniteSets

CONSTANTS
    Devices,     \* the addresses of the devices on the bus
    Ds18b20s,    \* those of sensors; the others are of other families
    MaxSensors,  \* CONFIG_ONEWIRE_MAX_DS18B20
    MaxMissed    \* bound: the devices passed over in one search

\* A table without a slot would be written past its end by the first sensor.
ASSUME SensorsAssumption ==
    /\ MaxSensors \in Nat \ {0}
    /\ Devices \in SUBSET Nat /\ IsFiniteSet(Devices)
    /\ Ds18b20s \subseteq Devices
    /\ MaxMissed \in Nat

VARIABLES
    search,     \* where aug_ds18b20_init stands; "ready": is_initialized
    unseen,     \* the devices the iterator has still to yield
    ds18b20s,   \* the table of sensors; its length is ds18b20_device_num
    resolved,   \* how many of them have had their resolution set
    busFails,   \* the bus answers no call
    missed      \* history: devices the iterator passed over in this search

sensorVars == <<search, unseen, ds18b20s, resolved, busFails, missed>>

SensorsTypeOK ==
    /\ search \in {"off", "next", "found", "resolution", "ready"}
    /\ unseen \subseteq Devices
    /\ ds18b20s \in Seq(Ds18b20s)
    /\ resolved \in 0..Len(ds18b20s)
    /\ busFails \in BOOLEAN
    /\ missed \subseteq Devices

SensorsInit ==
    /\ search = "off"
    /\ unseen = {}
    /\ ds18b20s = <<>>
    /\ resolved = 0
    /\ busFails = FALSE
    /\ missed = {}

\* initialize_onewire_bus and onewire_new_device_iter.
SearchStarts ==
    /\ search = "off"
    /\ search' = "next"
    /\ unseen' = Devices
    /\ ds18b20s' = <<>>
    /\ UNCHANGED <<resolved, busFails, missed>>

IsNext(d) == d \in unseen /\ \A e \in unseen : d <= e

\* Mutant of TableFull: the test comes one sensor too late.
TablePastFull(n) == n > MaxSensors

\* ds18b20_device_num >= DEFAULT_ONEWIRE_MAX_DS18B20 ends the search.
TableFull(n) == n >= MaxSensors

\* ds18b20_new_device accepts the device.
FindSensor(d) ==
    /\ d \in Ds18b20s
    /\ ds18b20s' = Append(ds18b20s, d)
    /\ search' = IF TableFull(Len(ds18b20s) + 1) THEN "found" ELSE "next"

\* ds18b20_new_device refuses a device of another family.
FindOther(d) ==
    /\ d \notin Ds18b20s
    /\ UNCHANGED <<search, ds18b20s>>

NextDevice ==
    /\ search = "next"
    /\ ~busFails
    /\ \E d \in unseen :
          /\ IsNext(d)
          /\ unseen' = unseen \ {d}
          /\ FindSensor(d) \/ FindOther(d)
    /\ UNCHANGED <<resolved, busFails, missed>>

\* Mutant of NoMoreDevices: only a full table ends the search.
NoMoreDevicesIgnored ==
    /\ search = "next"
    /\ ~busFails
    /\ unseen = {}
    /\ UNCHANGED sensorVars

\* ESP_ERR_NOT_FOUND.
NoMoreDevices ==
    /\ search = "next"
    /\ ~busFails
    /\ unseen = {}
    /\ search' = "found"
    /\ UNCHANGED <<unseen, ds18b20s, resolved, busFails, missed>>

\* Any other error: the loop goes on, with or without the device it was at.
SearchError ==
    /\ search = "next"
    /\ busFails
    /\ Cardinality(missed) < MaxMissed
    /\ \E d \in unseen :
          /\ IsNext(d)
          /\ unseen' = unseen \ {d}
          /\ missed' = missed \cup {d}
    /\ UNCHANGED <<search, ds18b20s, resolved, busFails>>

\* search_ds18b20_devices returns ESP_FAIL when the table is empty.
SearchOK == ds18b20s # <<>>

SearchReturns ==
    /\ search = "found"
    /\ SearchOK
    /\ search' = "resolution"
    /\ UNCHANGED <<unseen, ds18b20s, resolved, busFails, missed>>

\* set_resolution_for_devices, and is_initialized at its end.
SetResolution ==
    /\ search = "resolution"
    /\ resolved < Len(ds18b20s)
    /\ resolved' = resolved + 1
    /\ UNCHANGED <<search, unseen, ds18b20s, busFails, missed>>

SensorsReady ==
    /\ search = "resolution"
    /\ resolved = Len(ds18b20s)
    /\ search' = "ready"
    /\ unseen' = {}
    /\ missed' = {}
    /\ UNCHANGED <<ds18b20s, resolved, busFails>>

\* aug_ds18b20_init returns an error: the bus or the iterator cannot be created,
\* the iterator not deleted, no sensor was found, or one takes no resolution.
SensorsFail ==
    \/ search = "off"
    \/ search = "found"
    \/ search = "resolution" /\ resolved < Len(ds18b20s)

\* The bus breaks down, or works again, during the search.
BusChanges ==
    /\ search = "next"
    /\ busFails' = ~busFails
    /\ UNCHANGED <<search, unseen, ds18b20s, resolved, missed>>

\* s is in the table.
Sensor(s) == \E n \in DOMAIN ds18b20s : ds18b20s[n] = s
==============================================================================
