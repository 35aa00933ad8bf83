---------------------------- MODULE ConfigStore ------------------------------
(***************************************************************************)
(* The life of the three configurations (aug_nvs.c and its callers): the   *)
(* copies in RAM that the handlers of /set_options write, the blobs in     *)
(* NVS, main_init loading them and write_nvs_data saving them one after    *)
(* the other before a restart.  Power may fail at any step, a save may     *)
(* fail, and an update may start a firmware whose structures have other    *)
(* sizes.                                                                  *)
(*                                                                         *)
(* A configuration is a blob: its size and its data.  The access point's   *)
(* data is its channel, the only part of it the firmware ever changes.     *)
(***************************************************************************)
EXTENDS Integers

CONSTANTS
    Firmwares,  \* the firmware images
    WithInfo,   \* those built with CONFIG_WIFI_INFO
    SizeOf,     \* SizeOf[f][k]: the size of configuration k in firmware f
    Channels,   \* what the channel scan may return
    StaOptions, \* station settings a client may give
    GoodUris,   \* broker URIs esp_mqtt_client_init accepts
    BadUris     \* broker URIs it rejects

Keys == {"ap", "sta", "mqtt"}

ASSUME SizeOfAssumption == SizeOf \in [Firmwares -> [Keys -> Nat]]

\* "none" stands for a blob that is not there.
ASSUME DataAssumption ==
    "none" \notin Channels \cup StaOptions \cup GoodUris \cup BadUris

VARIABLES
    ram,       \* the static configurations
    nvs,       \* the blobs saved, or None
    phase,     \* where the device stands
    firmware,  \* the image that runs
    image,     \* the image of the boot partition
    bootedAs,  \* the mode main_init chose
    provided,  \* history: a client has ever given station settings
    target,    \* history: ram when write_nvs_data last began
    before,    \* history: nvs at that moment
    clean      \* history: this boot follows a complete save, in equal sizes

vars == <<ram, nvs, phase, firmware, image, bootedAs, provided, target, before,
          clean>>

None == [size |-> 0, data |-> "none"]
Blob(k, d) == [size |-> SizeOf[firmware][k], data |-> d]

Data(k) == CASE k = "ap"   -> Channels \cup {"unset"}
             [] k = "sta"  -> StaOptions \cup {"zero", "default"}
             [] k = "mqtt" -> GoodUris \cup BadUris \cup {"default", "empty"}

Phases == {"load_sta", "load_ap", "start", "load_mqtt", "mqtt_init", "running",
           "save_ap", "save_sta", "save_mqtt", "restart", "abort"}

TypeOK ==
    /\ \A k \in Keys : ram[k].data \in Data(k) /\ ram[k].size \in Nat
    /\ \A k \in Keys : nvs[k] = None \/ nvs[k].data \in Data(k)
    /\ phase \in Phases
    /\ firmware \in Firmwares /\ image \in Firmwares
    /\ bootedAs \in {"unknown", "station", "access_point"}
    /\ provided \in BOOLEAN /\ clean \in BOOLEAN

\* The zero-initialised statics of a firmware f.
Zeroed(f) == [k \in Keys |-> [size |-> SizeOf[f][k],
                data |-> CASE k = "ap" -> "unset" [] k = "sta" -> "zero"
                           [] k = "mqtt" -> "empty"]]

Init ==
    /\ firmware \in Firmwares
    /\ image = firmware
    /\ ram = Zeroed(firmware)
    /\ nvs = [k \in Keys |-> None]
    /\ phase = "load_sta"
    /\ bootedAs = "unknown"
    /\ provided = FALSE
    /\ target = ram
    /\ before = nvs
    /\ clean = FALSE

Histories == <<target, before, provided>>
-----------------------------------------------------------------------------
(* Boot. *)

\* Mutant of Found: the size is not compared.
FoundAnySize(k) == nvs[k] # None

\* Mutant of Found: the result of nvs_get_blob is ignored.
FoundAlways(k) == k \in Keys

\* get_blob returns ESP_OK: there is a blob, and it has the buffer's size.
Found(k) == nvs[k] # None /\ nvs[k].size = SizeOf[firmware][k]

\* aug_nvs_init erases a partition it cannot use.
EraseNvs ==
    /\ phase = "load_sta"
    /\ nvs' = [k \in Keys |-> None]
    /\ before' = nvs'
    /\ clean' = FALSE
    /\ UNCHANGED <<ram, phase, firmware, image, bootedAs, provided, target>>

\* Load k, or else the default d, and go to the phase next.
Load(k, d, next) ==
    /\ ram' = [ram EXCEPT ![k] = IF Found(k) THEN nvs[k] ELSE Blob(k, d)]
    /\ phase' = next
    /\ UNCHANGED <<nvs, firmware, image, clean, Histories>>

\* The build may hold settings for the station; otherwise it is zeroed.
DefaultSta == IF firmware \in WithInfo THEN "default" ELSE "zero"

\* The default access point has no channel: Kconfig's manual one is not built.
DefaultAp == "unset"

LoadSta ==
    /\ phase = "load_sta"
    /\ Load("sta", DefaultSta, "load_ap")
    /\ bootedAs' = IF Found("sta") \/ firmware \in WithInfo
                      THEN "station" ELSE "access_point"

LoadAp ==
    /\ phase = "load_ap"
    /\ Load("ap", DefaultAp, "start")
    /\ UNCHANGED bootedAs

\* aug_wifi_ap_start stores the scanned channel in the configuration.
SetChannel ==
    \E c \in Channels : ram' = [ram EXCEPT !["ap"] = Blob("ap", c)]

\* aug_wifi_sta_connect or aug_wifi_ap_start.
StartMode ==
    /\ phase = "start"
    /\ IF bootedAs = "access_point" THEN SetChannel ELSE UNCHANGED ram
    /\ phase' = "load_mqtt"
    /\ UNCHANGED <<nvs, firmware, image, bootedAs, clean, Histories>>

LoadMqtt ==
    /\ phase = "load_mqtt"
    /\ Load("mqtt", "default", "mqtt_init")
    /\ UNCHANGED bootedAs

\* aug_mqtt_init, under ESP_ERROR_CHECK.
MqttInit ==
    /\ phase = "mqtt_init"
    /\ phase' = IF ram["mqtt"].data \in GoodUris \cup {"default"}
                  THEN "running" ELSE "abort"
    /\ UNCHANGED <<ram, nvs, firmware, image, bootedAs, clean, Histories>>
-----------------------------------------------------------------------------
(* Operation. *)

\* The handlers of /set_options.  A station request that is refused half-way
\* keeps what it has already copied, so any setting may result.
SetOptions ==
    /\ phase = "running"
    /\ \/ \E s \in StaOptions : /\ ram' = [ram EXCEPT !["sta"] = Blob("sta", s)]
                                /\ provided' = TRUE
       \/ \E u \in GoodUris \cup BadUris :
            /\ ram' = [ram EXCEPT !["mqtt"] = Blob("mqtt", u)]
            /\ UNCHANGED provided
    /\ UNCHANGED <<nvs, phase, firmware, image, bootedAs, target, before, clean>>

\* callback_init_ap.
BecomeAccessPoint ==
    /\ phase = "running"
    /\ SetChannel
    /\ UNCHANGED <<nvs, phase, firmware, image, bootedAs, clean, Histories>>

\* ota_update_handler sets the boot partition.
Update ==
    /\ phase = "running"
    /\ image' \in Firmwares
    /\ UNCHANGED <<ram, nvs, phase, firmware, bootedAs, clean, Histories>>

\* callback_esp_restart reaches write_nvs_data.
BeginSave ==
    /\ phase = "running"
    /\ phase' = "save_ap"
    /\ target' = ram
    /\ before' = nvs
    /\ UNCHANGED <<ram, nvs, firmware, image, bootedAs, provided, clean>>

\* One ESP_ERROR_CHECK(aug_nvs_set_..._config()).
Save(k, next) ==
    /\ \/ nvs' = [nvs EXCEPT ![k] = ram[k]] /\ phase' = next
       \/ UNCHANGED nvs /\ phase' = "abort"
    /\ UNCHANGED <<ram, firmware, image, bootedAs, clean, Histories>>

\* Mutant of SaveAp: the three calls in another order.
SaveMqttFirst == phase = "save_ap" /\ Save("mqtt", "save_sta")

SaveAp == phase = "save_ap" /\ Save("ap", "save_sta")

\* Mutant of SaveSta: the station configuration is not saved.
SaveNoSta ==
    /\ phase = "save_sta"
    /\ phase' = "save_mqtt"
    /\ UNCHANGED <<ram, nvs, firmware, image, bootedAs, clean, Histories>>

SaveSta == phase = "save_sta" /\ Save("sta", "save_mqtt")

SaveMqtt == phase = "save_mqtt" /\ Save("mqtt", "restart")

\* esp_restart, an abort or a power failure: RAM is lost, and the image of the
\* boot partition starts.
Reset ==
    /\ firmware' = image
    /\ ram' = Zeroed(image)
    /\ phase' = "load_sta"
    /\ bootedAs' = "unknown"
    /\ clean' = (phase = "restart" /\ SizeOf[image] = SizeOf[firmware])
    /\ UNCHANGED <<nvs, image, Histories>>

Next ==
    \/ EraseNvs \/ LoadSta \/ LoadAp \/ StartMode \/ LoadMqtt \/ MqttInit
    \/ SetOptions \/ BecomeAccessPoint \/ Update
    \/ BeginSave \/ SaveAp \/ SaveSta \/ SaveMqtt
    \/ Reset

Spec == Init /\ [][Next]_vars
-----------------------------------------------------------------------------
\* Whatever interrupts write_nvs_data, NVS holds a prefix of the new
\* configurations, in the order of the calls, and the old ones after it.
SavedInOrder ==
    LET order == <<"ap", "sta", "mqtt">>
    IN  \E n \in 0..3 : \A i \in 1..3 :
            nvs[order[i]] = IF i <= n THEN target[order[i]]
                                      ELSE before[order[i]]

\* What the device was configured with survives a restart that was not cut
\* short: the next boot loads all of it, and starts as a station.
RestartKeepsConfig ==
    clean /\ phase = "mqtt_init" =>
        /\ bootedAs = "station"
        /\ \A k \in Keys : ram[k] = target[k]

\* No configuration of another size is ever taken for one of this firmware's.
RamFits == \A k \in Keys : ram[k].size = SizeOf[firmware][k]

\* A device nobody has given station settings starts as an access point
\* (README.md:23).
UnconfiguredStartsAp == bootedAs = "station" => provided
==============================================================================
