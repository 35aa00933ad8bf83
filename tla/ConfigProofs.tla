---------------------------- MODULE ConfigProofs -----------------------------
(***************************************************************************)
(* The theorems about module ConfigStore, for any firmwares, sizes and     *)
(* settings: an interrupted save leaves a prefix of the new configurations *)
(* in NVS, RAM never holds a configuration of another size, and a complete *)
(* save survives the restart.                                              *)
(***************************************************************************)
EXTENDS ConfigStore, TLAPS

\* The configurations have the keys of the firmware.
Shape ==
    /\ DOMAIN ram = Keys
    /\ ram = [k \in Keys |-> ram[k]]
    /\ nvs = [k \in Keys |-> nvs[k]]
    /\ firmware \in Firmwares
    /\ image \in Firmwares

\* While the first n of the calls of write_nvs_data have returned.
Saved(n) ==
    /\ nvs["ap"] = IF n >= 1 THEN target["ap"] ELSE before["ap"]
    /\ nvs["sta"] = IF n >= 2 THEN target["sta"] ELSE before["sta"]
    /\ nvs["mqtt"] = IF n >= 3 THEN target["mqtt"] ELSE before["mqtt"]

Saving == phase \in {"save_ap", "save_sta", "save_mqtt"}

\* How far the save has come at each phase; RAM does not change meanwhile.
SaveInv ==
    /\ \E n \in 0..3 : Saved(n)
    /\ phase = "save_ap" => Saved(0)
    /\ phase = "save_sta" => Saved(1)
    /\ phase = "save_mqtt" => Saved(2)
    /\ Saving => target = ram

\* Naming the keys one by one says the same as SavedInOrder.
LEMMA SavedIsInOrder == (\E n \in 0..3 : Saved(n)) => SavedInOrder
<1> DEFINE order == <<"ap", "sta", "mqtt">>
<1> SUFFICES ASSUME NEW n \in 0..3, Saved(n)
             PROVE  \A i \in 1..3 : nvs[order[i]] =
                      IF i <= n THEN target[order[i]] ELSE before[order[i]]
  BY DEF SavedInOrder
<1>1. TAKE i \in 1..3
<1>2. i = 1 \/ i = 2 \/ i = 3
  OBVIOUS
<1> QED
  BY <1>2 DEF Saved

\* The constant shapes survive every step.
LEMMA ShapeStep ==
  ASSUME Shape, [Next]_vars
  PROVE  Shape'
<1> USE DEF Shape
<1>1. CASE EraseNvs
  BY <1>1 DEF EraseNvs
<1>2. CASE LoadSta \/ LoadAp \/ LoadMqtt
  BY <1>2 DEF LoadSta, LoadAp, LoadMqtt, Load
<1>3. CASE StartMode \/ BecomeAccessPoint
  BY <1>3 DEF StartMode, BecomeAccessPoint, SetChannel
<1>4. CASE MqttInit \/ BeginSave
  BY <1>4 DEF MqttInit, BeginSave
<1>5. CASE SetOptions
  BY <1>5 DEF SetOptions
<1>6. CASE Update
  BY <1>6 DEF Update
<1>7. CASE SaveAp \/ SaveSta \/ SaveMqtt
  BY <1>7 DEF SaveAp, SaveSta, SaveMqtt, Save
<1>8. CASE Reset
  BY <1>8 DEF Reset, Zeroed
<1>9. CASE UNCHANGED vars
  BY <1>9 DEF vars
<1> QED
  BY <1>1, <1>2, <1>3, <1>4, <1>5, <1>6, <1>7, <1>8, <1>9 DEF Next

\* A save goes through its phases in order, and stops at any of them.
LEMMA SaveStep ==
  ASSUME Shape, SaveInv, [Next]_vars
  PROVE  SaveInv'
<1> USE DEF SaveInv, Saved, Saving
<1>1. CASE EraseNvs
  BY <1>1 DEF EraseNvs, Keys
<1>2. CASE LoadSta \/ LoadAp \/ LoadMqtt
  BY <1>2 DEF LoadSta, LoadAp, LoadMqtt, Load, Histories
<1>3. CASE StartMode \/ BecomeAccessPoint
  BY <1>3 DEF StartMode, BecomeAccessPoint, Histories
<1>4. CASE MqttInit
  BY <1>4 DEF MqttInit, Histories
<1>5. CASE SetOptions \/ Update
  BY <1>5 DEF SetOptions, Update, Histories
<1>6. CASE BeginSave
  BY <1>6 DEF BeginSave
<1>7. CASE SaveAp
  BY <1>7 DEF SaveAp, Save, Shape, Keys, Histories
<1>8. CASE SaveSta
  BY <1>8 DEF SaveSta, Save, Shape, Keys, Histories
<1>9. CASE SaveMqtt
  BY <1>9 DEF SaveMqtt, Save, Shape, Keys, Histories
<1>10. CASE Reset
  BY <1>10 DEF Reset, Histories
<1>11. CASE UNCHANGED vars
  BY <1>11 DEF vars
<1> QED
  BY <1>1, <1>2, <1>3, <1>4, <1>5, <1>6, <1>7, <1>8, <1>9, <1>10, <1>11 DEF Next

\* Whatever loads or writes a configuration in RAM gives it the size the running
\* firmware expects.
LEMMA RamStep ==
  ASSUME Shape, RamFits, [Next]_vars
  PROVE  RamFits'
<1> USE DEF RamFits, Shape, Keys
<1>1. CASE LoadSta \/ LoadAp \/ LoadMqtt
  BY <1>1 DEF LoadSta, LoadAp, LoadMqtt, Load, Found, Blob
<1>2. CASE StartMode \/ BecomeAccessPoint
  BY <1>2 DEF StartMode, BecomeAccessPoint, SetChannel, Blob
<1>3. CASE SetOptions
  BY <1>3 DEF SetOptions, Blob
<1>4. CASE EraseNvs \/ MqttInit \/ Update \/ BeginSave
  BY <1>4 DEF EraseNvs, MqttInit, Update, BeginSave
<1>5. CASE SaveAp \/ SaveSta \/ SaveMqtt
  BY <1>5 DEF SaveAp, SaveSta, SaveMqtt, Save
<1>6. CASE Reset
  BY <1>6 DEF Reset, Zeroed
<1>7. CASE UNCHANGED vars
  BY <1>7 DEF vars
<1> QED
  BY <1>1, <1>2, <1>3, <1>4, <1>5, <1>6, <1>7 DEF Next

\* The three invariants hold initially.
LEMMA InitConfig == Init => Shape /\ SaveInv /\ RamFits
<1> SUFFICES ASSUME Init PROVE Shape /\ SaveInv /\ RamFits
  OBVIOUS
<1>1. Shape
  BY DEF Init, Shape, Zeroed
<1>2. SaveInv
  BY DEF Init, SaveInv, Saved, Saving
<1>3. RamFits
  BY DEF Init, RamFits, Zeroed
<1> QED
  BY <1>1, <1>2, <1>3

\* Whatever interrupts write_nvs_data, NVS holds the new configurations up to
\* one of its three calls and the old ones after it.
THEOREM SavesArePrefixes == Spec => []SavedInOrder
<1>1. Shape /\ SaveInv /\ [Next]_vars => Shape' /\ SaveInv'
  BY ShapeStep, SaveStep
<1>2. SaveInv => SavedInOrder
  BY SavedIsInOrder DEF SaveInv
<1> QED
  BY InitConfig, <1>1, <1>2, PTL DEF Spec

\* A configuration saved by a firmware with other structures is never loaded.
THEOREM RamAlwaysFits == Spec => []RamFits
<1>1. Shape /\ RamFits /\ [Next]_vars => Shape' /\ RamFits'
  BY ShapeStep, RamStep
<1> QED
  BY InitConfig, <1>1, PTL DEF Spec
-----------------------------------------------------------------------------
(* A complete save survives the restart. *)

\* The phases in which a boot still depends on what NVS holds, and those in
\* which it has loaded the station's, and the access point's configuration.
Loading == {"load_sta", "load_ap", "start", "load_mqtt", "mqtt_init"}
StaLoaded == Loading \ {"load_sta"}
ApLoaded == StaLoaded \ {"load_ap"}

\* NVS holds what was saved, in this firmware's sizes: every load finds it.
Intact ==
    \A k \in Keys : nvs[k] = target[k] /\ Found(k)

CleanInv ==
    /\ phase = "restart" => target = ram /\ \A k \in Keys : nvs[k] = ram[k]
    /\ clean /\ phase \in Loading => Intact
    /\ clean /\ phase \in StaLoaded =>
          bootedAs = "station" /\ ram["sta"] = target["sta"]
    /\ clean /\ phase \in ApLoaded => ram["ap"] = target["ap"]
    /\ clean /\ phase = "mqtt_init" => ram["mqtt"] = target["mqtt"]

\* A default of a configuration, or any blob of it that a client or a scan gives.
LEMMA BlobTyped ==
  ASSUME Shape, NEW k \in Keys, NEW d \in Data(k)
  PROVE  Blob(k, d).data \in Data(k) /\ Blob(k, d).size \in Nat
BY SizeOfAssumption DEF Shape, Blob

\* Zero-initialised configurations are configurations.
LEMMA ZeroedTyped ==
  ASSUME NEW f \in Firmwares, NEW k \in Keys
  PROVE  Zeroed(f)[k].data \in Data(k) /\ Zeroed(f)[k].size \in Nat
<1>1. Zeroed(f)[k].size \in Nat
  BY SizeOfAssumption DEF Zeroed
<1>2. Zeroed(f)[k].data \in Data(k)
  BY DEF Zeroed, Data, Keys
<1> QED
  BY <1>1, <1>2

\* A load keeps the types: what it finds is typed and of the right size.
LEMMA LoadTyped ==
  ASSUME Shape, TypeOK, NEW k \in Keys, NEW d \in Data(k), NEW next \in Phases,
         Load(k, d, next), bootedAs' \in {"unknown", "station", "access_point"}
  PROVE  TypeOK'
<1>1. ASSUME NEW j \in Keys PROVE ram'[j].data \in Data(j) /\ ram'[j].size \in Nat
  <2>1. CASE j # k
    BY <2>1 DEF Load, Shape, TypeOK
  <2>2. CASE j = k /\ Found(k)
    <3>1. ram'[k] = nvs[k]
      BY <2>2 DEF Load, Shape
    <3>2. nvs[k].data \in Data(k) /\ nvs[k].size = SizeOf[firmware][k]
      BY <2>2 DEF Found, TypeOK
    <3> QED
      BY <2>2, <3>1, <3>2, SizeOfAssumption DEF Shape
  <2>3. CASE j = k /\ ~Found(k)
    BY <2>3, BlobTyped DEF Load, Shape
  <2> QED
    BY <2>1, <2>2, <2>3
<1> QED
  BY <1>1 DEF Load, Histories, TypeOK, Data

\* A configuration in RAM replaced by another of the same kind keeps the types.
LEMMA SetTyped ==
  ASSUME Shape, TypeOK, NEW k \in Keys, NEW d \in Data(k),
         ram' = [ram EXCEPT ![k] = Blob(k, d)]
  PROVE  \A j \in Keys : ram'[j].data \in Data(j) /\ ram'[j].size \in Nat
BY BlobTyped DEF Shape, TypeOK

\* The types are right initially and after every step.
LEMMA InitTyped == Init => TypeOK
<1> SUFFICES ASSUME Init PROVE TypeOK
  OBVIOUS
<1>1. firmware \in Firmwares /\ ram = Zeroed(firmware)
  BY DEF Init
<1>2. \A k \in Keys : ram[k].data \in Data(k) /\ ram[k].size \in Nat
  BY <1>1, ZeroedTyped
<1> QED
  BY <1>1, <1>2 DEF Init, TypeOK, Phases

LEMMA TypeStep ==
  ASSUME Shape, TypeOK, [Next]_vars
  PROVE  TypeOK'
<1>1. CASE EraseNvs
  BY <1>1 DEF EraseNvs, TypeOK, Keys, Data
<1>2. CASE LoadSta
  <2>1. DefaultSta \in Data("sta") /\ "sta" \in Keys
    BY DEF DefaultSta, Data, Keys
  <2> QED
    BY <1>2, <2>1, LoadTyped DEF LoadSta, Phases
<1>3. CASE LoadAp
  <2>1. DefaultAp \in Data("ap") /\ "ap" \in Keys
    BY DEF DefaultAp, Data, Keys
  <2> QED
    BY <1>3, <2>1, LoadTyped DEF LoadAp, Phases, TypeOK
<1>4. CASE LoadMqtt
  <2>1. "default" \in Data("mqtt") /\ "mqtt" \in Keys
    BY DEF Data, Keys
  <2> QED
    BY <1>4, <2>1, LoadTyped DEF LoadMqtt, Phases, TypeOK
<1>5. ASSUME SetChannel PROVE \A j \in Keys : ram'[j].data \in Data(j) /\ ram'[j].size \in Nat
  <2>1. PICK c \in Channels : ram' = [ram EXCEPT !["ap"] = Blob("ap", c)]
    BY <1>5 DEF SetChannel
  <2>2. c \in Data("ap") /\ "ap" \in Keys
    BY DEF Data, Keys
  <2> QED
    BY <2>1, <2>2, SetTyped
<1>6. CASE StartMode
  BY <1>6, <1>5 DEF StartMode, TypeOK, Histories, Phases, Data
<1>7. CASE BecomeAccessPoint
  BY <1>7, <1>5 DEF BecomeAccessPoint, TypeOK, Histories, Data
<1>8. CASE MqttInit
  BY <1>8 DEF MqttInit, TypeOK, Histories, Phases, Data
<1>9. CASE SetOptions
  <2>1. \E k \in Keys : \E d \in Data(k) : ram' = [ram EXCEPT ![k] = Blob(k, d)]
    BY <1>9 DEF SetOptions, Data, Keys
  <2>2. \A j \in Keys : ram'[j].data \in Data(j) /\ ram'[j].size \in Nat
    BY <2>1, SetTyped
  <2> QED
    BY <1>9, <2>2 DEF SetOptions, TypeOK, Data
<1>10. CASE Update
  BY <1>10 DEF Update, TypeOK, Histories, Data
<1>11. CASE BeginSave
  BY <1>11 DEF BeginSave, TypeOK, Phases, Data
<1>12. CASE SaveAp \/ SaveSta \/ SaveMqtt
  <2>1. \A k \in Keys : nvs'[k] = nvs[k] \/ nvs'[k] = ram[k]
    BY <1>12 DEF SaveAp, SaveSta, SaveMqtt, Save, Shape
  <2>2. phase' \in Phases /\ UNCHANGED <<ram, firmware, image, bootedAs, clean, provided>>
    BY <1>12 DEF SaveAp, SaveSta, SaveMqtt, Save, Phases, Histories
  <2> QED
    BY <2>1, <2>2 DEF TypeOK, Data
<1>13. CASE Reset
  <2>1. \A k \in Keys : ram'[k].data \in Data(k) /\ ram'[k].size \in Nat
    BY <1>13, ZeroedTyped DEF Reset, Shape
  <2> QED
    BY <1>13, <2>1 DEF Reset, TypeOK, Phases, Histories, Data
<1>14. CASE UNCHANGED vars
  BY <1>14 DEF vars, TypeOK, Data
<1> QED
  BY <1>1, <1>2, <1>3, <1>4, <1>6, <1>7, <1>8, <1>9, <1>10, <1>11, <1>12, <1>13,
     <1>14 DEF Next

\* Every configuration and every blob is one of its kind, for any settings.
THEOREM ConfigTypes == Spec => []TypeOK
<1>1. Shape /\ TypeOK /\ [Next]_vars => Shape' /\ TypeOK'
  BY ShapeStep, TypeStep
<1> QED
  BY InitConfig, InitTyped, <1>1, PTL DEF Spec

\* A configuration in RAM is no missing blob.
LEMMA RamIsThere ==
  ASSUME TypeOK, NEW k \in Keys
  PROVE  ram[k] # None
BY DataAssumption DEF TypeOK, Data, Keys, None

\* What is loaded after a complete save is what was saved.
LEMMA CleanStep ==
  ASSUME Shape, TypeOK, RamFits, SaveInv, CleanInv, [Next]_vars
  PROVE  CleanInv'
<1> USE DEF Loading, StaLoaded, ApLoaded
<1>1. CASE EraseNvs
  BY <1>1 DEF EraseNvs, CleanInv
<1>2. CASE LoadSta \/ LoadAp \/ LoadMqtt
  <2>1. ASSUME clean, phase \in Loading
        PROVE  Intact /\ Intact'
    BY <1>2, <2>1 DEF LoadSta, LoadAp, LoadMqtt, Load, CleanInv, Intact, Found,
       Histories
  <2>2. CASE LoadSta
    BY <2>1, <2>2 DEF LoadSta, Load, CleanInv, Intact, Shape, Keys, Histories
  <2>3. CASE LoadAp
    BY <2>1, <2>3 DEF LoadAp, Load, CleanInv, Intact, Shape, Keys, Histories
  <2>4. CASE LoadMqtt
    BY <2>1, <2>4 DEF LoadMqtt, Load, CleanInv, Intact, Shape, Keys, Histories
  <2> QED
    BY <1>2, <2>2, <2>3, <2>4
<1>3. CASE StartMode
  BY <1>3 DEF StartMode, CleanInv, Intact, Found, Histories
<1>4. CASE MqttInit
  BY <1>4 DEF MqttInit, CleanInv, Intact, Found, Histories
<1>5. CASE SetOptions \/ BecomeAccessPoint \/ Update \/ BeginSave
  BY <1>5 DEF SetOptions, BecomeAccessPoint, Update, BeginSave, CleanInv
<1>6. CASE SaveAp
  BY <1>6 DEF SaveAp, Save, CleanInv
<1>7. CASE SaveSta
  BY <1>7 DEF SaveSta, Save, CleanInv
<1>8. CASE SaveMqtt
  <2>1. Saved(2) /\ target = ram
    BY <1>8 DEF SaveMqtt, SaveInv, Saving
  <2>2. CASE phase' = "restart"
    <3>1. nvs'["ap"] = ram["ap"] /\ nvs'["sta"] = ram["sta"] /\ nvs'["mqtt"] = ram["mqtt"]
      BY <1>8, <2>1, <2>2 DEF SaveMqtt, Save, Saved, Shape, Keys
    <3> QED
      BY <1>8, <2>1, <2>2, <3>1 DEF SaveMqtt, Save, CleanInv, Keys, Histories
  <2>3. CASE phase' = "abort"
    BY <2>3 DEF CleanInv
  <2> QED
    BY <1>8, <2>2, <2>3 DEF SaveMqtt, Save
<1>9. CASE Reset
  <2>1. ASSUME clean' PROVE Intact'
    <3>1. phase = "restart" /\ SizeOf[image] = SizeOf[firmware]
      BY <1>9, <2>1 DEF Reset
    <3>2. ASSUME NEW k \in Keys PROVE nvs[k] = target[k] /\ nvs[k] # None
                                   /\ nvs[k].size = SizeOf[image][k]
      BY <3>1, RamIsThere DEF CleanInv, RamFits
    <3> QED
      BY <1>9, <3>2 DEF Reset, Histories, Intact, Found
  <2> QED
    BY <1>9, <2>1 DEF Reset, CleanInv
<1>10. CASE UNCHANGED vars
  BY <1>10 DEF vars, CleanInv, Intact, Found
<1> QED
  BY <1>1, <1>2, <1>3, <1>4, <1>5, <1>6, <1>7, <1>8, <1>9, <1>10 DEF Next

LEMMA InitClean == Init => CleanInv
BY DEF Init, CleanInv

\* After a complete save and a restart into structures of the same sizes, every
\* configuration is loaded as it was saved, and the device is a station.
THEOREM ConfigurationKept == Spec => []RestartKeepsConfig
<1> DEFINE Inv == Shape /\ TypeOK /\ RamFits /\ SaveInv /\ CleanInv
<1>1. Init => Inv
  BY InitConfig, InitTyped, InitClean
<1>2. Inv /\ [Next]_vars => Inv'
  BY ShapeStep, TypeStep, RamStep, SaveStep, CleanStep
<1>3. Inv => RestartKeepsConfig
  BY DEF RestartKeepsConfig, CleanInv, Keys, Loading, StaLoaded, ApLoaded
<1> QED
  BY <1>1, <1>2, <1>3, PTL DEF Spec
=============================================================================
