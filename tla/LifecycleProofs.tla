--------------------------- MODULE LifecycleProofs ----------------------------
(***************************************************************************)
(* The theorems about module Lifecycle, for a bus, a table, a queue and an *)
(* image of any size: its type invariant and the safety properties of      *)
(* LifecycleProperties and ChannelScan, through every reset, and that its  *)
(* uploads implement HttpServer.                                           *)
(***************************************************************************)
EXTENDS LifecycleProperties, ScanProofs

-----------------------------------------------------------------------------
(* The inductive invariants, one for each part. *)

Ordered == \A m, n \in DOMAIN ds18b20s : m < n => ds18b20s[m] < ds18b20s[n]

\* The iterator has come past every sensor of the table.
Passed == \A n \in DOMAIN ds18b20s : \A d \in unseen : ds18b20s[n] < d

\* Each sensor is still to come, in the table, or was passed over.
Covered == \A s \in Ds18b20s \ missed : s \in unseen \/ Sensor(s)

SensorInv ==
    /\ SensorsTypeOK
    /\ Len(ds18b20s) <= MaxSensors
    /\ Ordered
    /\ search = "next" =>
         /\ Len(ds18b20s) < MaxSensors
         /\ Passed
         /\ Covered
    /\ search \in {"found", "resolution"} /\ Len(ds18b20s) < MaxSensors =>
         \A s \in Ds18b20s \ missed : Sensor(s)
    /\ search \in {"off", "next", "found"} => resolved = 0
    /\ search = "off" => ds18b20s = <<>> /\ missed = {}
    /\ search = "ready" => resolved = Len(ds18b20s)

\* publish_task is created once the sensors are ready, and they stay so.
PublishInv ==
    /\ PublishTypeOK
    /\ phase \in {"http_start", "mqtt_init", "mqtt_start", "main_loop"} =>
         search = "ready"
    /\ phase # "main_loop" => publish = "off"
    /\ publish # "off" => sensors_number = Len(ds18b20s)
    /\ publish \in {"meta", "value"} => index <= sensors_number

\* What the partition written to holds at each step of the handler, and that
\* the factory partition boots: the bootloader always finds one.
UploadInv ==
    /\ OtaTypeOK
    /\ flash[0] = [file |-> "factory", pieces |-> Size]
    /\ Bootable(running)
    /\ httpd = "receive" =>
         /\ file \in Files
         /\ flash[Target].pieces + left <= Size
         /\ flash[Target] = Erased \/ flash[Target].file = file
    /\ httpd \in {"select", "post", "reply"} =>
         Bootable(Target) /\ flash[Target].file = file
    /\ httpd \in {"post", "reply"} => boot = Target
    /\ promised # "none" =>
         /\ httpd \in {"off", "wait", "other"}
         /\ Bootable(boot)
         /\ flash[boot].file = promised

\* What is left of the type invariant, and where callback_esp_restart can stand.
BootInv ==
    /\ MqttTypeOK
    /\ LoopTypeOK
    /\ phase \in Phases
    /\ station \in BOOLEAN
    /\ callback \in Callbacks
    /\ job \in Jobs
    /\ job = "esp_restart" => callback \in {"http_stop", "write_nvs"}

\* The update selected is announced, or the restart it asked for has begun, from
\* the moment the handler has posted until the device runs it.
UpdateQueued == \E n \in 1..Len(queue) : queue[n] = "OTA_UPDATE"

RestartDue == job = "esp_restart" \/ UpdateQueued

Owed == httpd = "reply" \/ (promised # "none" /\ running # boot)

UpdateInv == Owed => RestartDue

\* Until the handlers are registered there is no server, and nothing is owed: no
\* event that matters is lost.
EarlyPhases == {"app_main", "connect", "scan", "register"}

ServerInv ==
    ~registered =>
        /\ httpd = "off"
        /\ callback = "idle"
        /\ phase \in EarlyPhases
        /\ promised = "none" \/ running = boot

LifeInv ==
    /\ ScanInv
    /\ SensorInv
    /\ PublishInv
    /\ UploadInv
    /\ BootInv
    /\ UpdateInv
    /\ ServerInv

-----------------------------------------------------------------------------
(* The search for the sensors. *)

SensorReset ==
    /\ search' = "off"
    /\ unseen' = {}
    /\ ds18b20s' = <<>>
    /\ resolved' = 0
    /\ busFails' = FALSE
    /\ missed' = {}

SensorNext ==
    \/ SearchStarts \/ NextDevice \/ NoMoreDevices \/ SearchError
    \/ SearchReturns \/ SetResolution \/ SensorsReady \/ BusChanges

LEMMA InitSensorInv == SensorsInit => SensorInv
<1> SUFFICES ASSUME SensorsInit PROVE SensorInv
  OBVIOUS
<1> USE SensorsAssumption DEF SensorsInit
<1>1. Len(ds18b20s) = 0 /\ DOMAIN ds18b20s = {}
  OBVIOUS
<1>2. busFails \in BOOLEAN
  BY Zenon
<1>3. SensorsTypeOK
  BY <1>1, <1>2 DEF SensorsTypeOK
<1> QED
  BY <1>1, <1>3 DEF SensorInv, Ordered

LEMMA ResetSensors ==
  ASSUME SensorReset
  PROVE  SensorInv'
<1> USE SensorsAssumption DEF SensorReset
<1>1. Len(ds18b20s') = 0 /\ DOMAIN ds18b20s' = {}
  OBVIOUS
<1>2. busFails' \in BOOLEAN
  BY Zenon
<1>3. SensorsTypeOK'
  BY <1>1, <1>2 DEF SensorsTypeOK
<1> QED
  BY <1>1, <1>3 DEF SensorInv, Ordered

\* The iterator is created: every device is still to come.
LEMMA SearchStartsStep ==
  ASSUME SensorInv, SearchStarts
  PROVE  SensorInv'
<1> USE SensorsAssumption DEF SensorInv, SearchStarts
<1>1. SensorsTypeOK' /\ Ordered' /\ Covered'
  BY DEF SensorsTypeOK, Ordered, Covered
<1>2. Passed'
  BY DEF Passed
<1> QED
  BY <1>1, <1>2

\* The iterator yields the next device, which is past those in the table.
LEMMA NextDeviceStep ==
  ASSUME SensorInv, NextDevice
  PROVE  SensorInv'
<1>1. /\ search = "next" /\ SensorsTypeOK /\ Ordered /\ Covered /\ resolved = 0
      /\ Len(ds18b20s) < MaxSensors /\ Passed
  BY DEF SensorInv, NextDevice
<1>2. PICK d \in unseen : /\ unseen' = unseen \ {d}
                          /\ FindSensor(d) \/ FindOther(d)
                          /\ \A u \in unseen : d <= u
  BY DEF NextDevice, IsNext
<1>3a. d \in Nat /\ \A u \in unseen' : u \in Nat /\ d < u
  <2>1. unseen \subseteq Nat
    BY <1>1, SensorsAssumption DEF SensorsTypeOK
  <2> QED
    BY <1>2, <2>1
<1>3. resolved' = 0 /\ UNCHANGED <<busFails, missed>>
  BY <1>1 DEF NextDevice
<1>4. CASE FindSensor(d)
  <2> DEFINE len == Len(ds18b20s)
  <2>1. /\ d \in Ds18b20s /\ ds18b20s \in Seq(Ds18b20s) /\ len \in Nat
        /\ ds18b20s' = Append(ds18b20s, d)
    BY <1>1, <1>4 DEF FindSensor, SensorsTypeOK
  <2>2. /\ ds18b20s' \in Seq(Ds18b20s) /\ Len(ds18b20s') = len + 1
        /\ DOMAIN ds18b20s = 1..len /\ DOMAIN ds18b20s' = 1..(len + 1)
        /\ \A n \in 1..len : ds18b20s'[n] = ds18b20s[n]
        /\ ds18b20s'[len + 1] = d
    BY <2>1
  <2>3. search' = IF len + 1 >= MaxSensors THEN "found" ELSE "next"
    BY <1>4 DEF FindSensor, TableFull
  <2>4. SensorsTypeOK'
    BY <1>1, <1>2, <1>3, <2>2, <2>3 DEF SensorsTypeOK
  <2>5. Ordered'
    <3> SUFFICES ASSUME NEW m \in 1..(len + 1), NEW n \in 1..(len + 1), m < n
                 PROVE  ds18b20s'[m] < ds18b20s'[n]
      BY <2>2 DEF Ordered
    <3>1. m \in 1..len
      BY <2>1
    <3>2. CASE n \in 1..len
      BY <1>1, <2>2, <3>1, <3>2 DEF Ordered
    <3>3. CASE n = len + 1
      BY <1>1, <1>2, <2>2, <3>1, <3>3 DEF Passed
    <3> QED
      BY <2>1, <3>2, <3>3
  <2>6. Passed'
    <3> SUFFICES ASSUME NEW n \in 1..(len + 1), NEW u \in unseen'
                 PROVE  ds18b20s'[n] < u
      BY <2>2 DEF Passed
    <3>1. CASE n \in 1..len
      BY <1>1, <1>2, <2>2, <3>1 DEF Passed
    <3>2. CASE n = len + 1
      BY <1>3a, <2>2, <3>2
    <3> QED
      BY <2>1, <3>1, <3>2
  <2>7. Covered'
    <3>1. ASSUME NEW s \in Ds18b20s \ missed, s \notin unseen'
          PROVE  Sensor(s)'
      <4>1. CASE s = d
        BY <2>1, <2>2, <4>1 DEF Sensor
      <4>2. CASE s # d
        <5>1. Sensor(s)
          BY <1>1, <1>2, <3>1, <4>2 DEF Covered
        <5> QED
          BY <2>1, <2>2, <5>1 DEF Sensor
      <4> QED
        BY <4>1, <4>2
    <3> QED
      BY <1>3, <3>1 DEF Covered
  <2>8. Len(ds18b20s') <= MaxSensors
    BY <1>1, <2>1, <2>2, SensorsAssumption
  <2>9. search' = "next" => Len(ds18b20s') < MaxSensors
    BY <2>1, <2>2, <2>3, SensorsAssumption
  <2>10. search' \in {"next", "found"}
         /\ (search' = "found" => ~(Len(ds18b20s') < MaxSensors))
    BY <2>1, <2>2, <2>3, SensorsAssumption
  <2> QED
    BY <1>3, <2>4, <2>5, <2>6, <2>7, <2>8, <2>9, <2>10 DEF SensorInv
<1>5. CASE FindOther(d)
  <2>1. d \notin Ds18b20s /\ UNCHANGED <<search, ds18b20s>>
    BY <1>5 DEF FindOther
  <2>2. SensorsTypeOK' /\ Ordered'
    BY <1>1, <1>2, <1>3, <2>1 DEF SensorsTypeOK, Ordered
  <2>3. Covered'
    BY <1>1, <1>2, <1>3, <2>1 DEF Covered, Sensor
  <2>4. Passed'
    BY <1>1, <1>2, <2>1 DEF Passed
  <2> QED
    BY <1>1, <1>2, <1>3, <2>1, <2>2, <2>3, <2>4 DEF SensorInv
<1> QED
  BY <1>2, <1>4, <1>5

LEMMA NoMoreDevicesStep ==
  ASSUME SensorInv, NoMoreDevices
  PROVE  SensorInv'
<1>1. /\ search = "next" /\ search' = "found" /\ unseen = {}
      /\ UNCHANGED <<unseen, ds18b20s, resolved, busFails, missed>>
  BY DEF NoMoreDevices
<1>2. /\ SensorsTypeOK /\ Ordered /\ Covered /\ resolved = 0
      /\ Len(ds18b20s) < MaxSensors /\ Len(ds18b20s) <= MaxSensors
  BY <1>1 DEF SensorInv
<1>3. SensorsTypeOK' /\ Ordered'
  BY <1>1, <1>2 DEF SensorsTypeOK, Ordered
<1>4. \A s \in Ds18b20s \ missed' : Sensor(s)'
  BY <1>1, <1>2 DEF Covered, Sensor
<1> QED
  BY <1>1, <1>2, <1>3, <1>4 DEF SensorInv

\* The device passed over is missed.
LEMMA SearchErrorStep ==
  ASSUME SensorInv, SearchError
  PROVE  SensorInv'
<1>1. /\ search = "next"
      /\ UNCHANGED <<search, ds18b20s, resolved, busFails>>
  BY DEF SearchError
<1>2. PICK d \in unseen : unseen' = unseen \ {d} /\ missed' = missed \cup {d}
  BY DEF SearchError
<1>3. /\ SensorsTypeOK /\ Ordered /\ Covered /\ resolved = 0
      /\ Len(ds18b20s) < MaxSensors /\ Len(ds18b20s) <= MaxSensors
      /\ Passed
  BY <1>1 DEF SensorInv
<1>4. SensorsTypeOK' /\ Ordered'
  BY <1>1, <1>2, <1>3 DEF SensorsTypeOK, Ordered
<1>5. Covered'
  BY <1>1, <1>2, <1>3 DEF Covered, Sensor
<1>6. Passed'
  BY <1>1, <1>2, <1>3 DEF Passed
<1> QED
  BY <1>1, <1>2, <1>3, <1>4, <1>5, <1>6 DEF SensorInv

LEMMA SensorStep ==
  ASSUME SensorInv, [SensorNext]_sensorVars
  PROVE  SensorInv'
<1> USE DEF SensorInv
<1>1. CASE SearchReturns
  BY <1>1 DEF SearchReturns, SensorsTypeOK, Ordered, Sensor
<1>2. CASE SetResolution
  <2>1. resolved' \in 0..Len(ds18b20s)
    BY <1>2 DEF SetResolution, SensorsTypeOK
  <2> QED
    BY <1>2, <2>1 DEF SetResolution, SensorsTypeOK, Ordered, Sensor
<1>3. CASE SensorsReady
  BY <1>3 DEF SensorsReady, SensorsTypeOK, Ordered
<1>4. CASE BusChanges
  <2>1. busFails' \in BOOLEAN
    BY <1>4, Zenon DEF BusChanges
  <2> QED
    BY <1>4, <2>1 DEF BusChanges, SensorsTypeOK, Ordered, Passed, Covered, Sensor
<1>5. CASE UNCHANGED sensorVars
  BY <1>5 DEF sensorVars, SensorsTypeOK, Ordered, Passed, Covered, Sensor
<1> QED
  BY <1>1, <1>2, <1>3, <1>4, <1>5, SearchStartsStep, NextDeviceStep,
     NoMoreDevicesStep, SearchErrorStep DEF SensorNext
-----------------------------------------------------------------------------
(* The steps of the device, its resets apart. *)

MainGoes ==
    \/ StartStation \/ StationReturns \/ StartAccessPoint \/ Scan \/ ScanEnds
    \/ Register \/ InitSensors \/ BusError \/ StartHttp \/ InitMqtt \/ StartMqtt

LoopGoes ==
    \/ EventLost \/ CallbackStarts \/ SetUri \/ StopHttp \/ ConnectReturns
    \/ StartMqttAgain

TasksGo ==
    \/ PublishStep \/ UploadByHandler \/ UploadByClient
    \/ OtherRequest \/ OtherPosts \/ EventArrives \/ BrokerStep \/ BusStep

\* Whatever fails resets the device.
LEMMA Steps == Next => Reset \/ MainGoes \/ LoopGoes \/ TasksGo
  BY DEF Next, MainStep, LoopStep, MainGoes, LoopGoes, TasksGo, AppInitFails,
         InitSensorsFails, InitMqttFails, StartMqttFails, StopMqttFails,
         SetUriFails, StartMqttAgainFails, EspRestart, SensorSilent, UploadAborts,
         PowerFails

-----------------------------------------------------------------------------
(* publish_task. *)

\* The steps that are not the publisher's, a reset or those that create it.
LEMMA PublisherFrame ==
  ASSUME Next
  PROVE  \/ Reset \/ InitSensors \/ PublisherStarts \/ PublishStep
         \/ UNCHANGED <<publishVars, search, ds18b20s>>
<1> USE DEF publishVars, sensorVars, ramVars, bootVars
<1>1. CASE MainGoes
  BY <1>1
     DEF MainGoes, StartStation, StationReturns, StartAccessPoint, Scan, ScanEnds,
         Register, BusError, SearchError, StartHttp, InitMqtt, StartMqtt
<1>2. CASE LoopGoes
  BY <1>2 DEF LoopGoes, EventLost, CallbackStarts, SetUri, StopHttp,
              ConnectReturns, StartMqttAgain
<1>3. CASE TasksGo
  BY <1>3 DEF TasksGo, UploadByHandler, UploadByClient, OtherRequest, OtherPosts,
              EventArrives, BrokerStep, BusStep, BusChanges
<1> QED
  BY <1>1, <1>2, <1>3, Steps

\* main comes to its loop as it creates publish_task, and goes there only with the
\* sensors ready.
ReadyPhases == {"http_start", "mqtt_init", "mqtt_start", "main_loop"}

LEMMA PhaseFrame ==
  ASSUME Next, ~Reset
  PROVE  \/ InitSensors
         \/ PublisherStarts /\ phase \in ReadyPhases /\ phase' = "main_loop"
            /\ UNCHANGED sensorVars
         \/ /\ phase' \in ReadyPhases => phase \in ReadyPhases
            /\ (phase' = "main_loop") <=> (phase = "main_loop")
            /\ ~PublisherStarts
<1> USE DEF ReadyPhases, Main, bootVars, PublisherStarts, publishVars, ramVars
<1>1. CASE MainGoes
  BY <1>1
     DEF MainGoes, StartStation, StationReturns, StartAccessPoint, Scan, ScanEnds,
         Register, BusError, StartHttp, InitMqtt, StartMqtt
<1>2. CASE LoopGoes
  BY <1>2 DEF LoopGoes, EventLost, CallbackStarts, SetUri, StopHttp,
              ConnectReturns, StartMqttAgain, Goes, Returns
<1>3. CASE TasksGo
  BY <1>3 DEF TasksGo, PublishStep, ReadTemperature, PublishMeta, PublishValue,
              LoopEnds, DelayEnds, UploadByHandler, UploadByClient, OtherRequest,
              OtherPosts, EventArrives, BrokerStep, BusStep
<1> QED
  BY <1>1, <1>2, <1>3, Steps

LEMMA PublishInvStep ==
  ASSUME SensorInv, PublishInv, [Next]_vars
  PROVE  PublishInv'
<1> USE DEF PublishInv, ReadyPhases
<1>1. CASE Reset
  BY <1>1, SensorsAssumption DEF Reset, PublishTypeOK, PublishSteps
<1>2. CASE InitSensors
  <2>1. /\ phase = "sensors" /\ UNCHANGED publishVars
        /\ phase' = IF search' = "ready" THEN "http_start" ELSE phase
    BY <1>2 DEF InitSensors
  <2> QED
    BY <2>1 DEF PublishTypeOK, publishVars
<1>3. CASE PublisherStarts /\ phase \in ReadyPhases /\ phase' = "main_loop"
           /\ UNCHANGED sensorVars
  <2>1. /\ publish' = "loop" /\ sensors_number' = Len(ds18b20s)
        /\ UNCHANGED <<index, search, ds18b20s>>
    BY <1>3 DEF PublisherStarts, sensorVars
  <2>2. Len(ds18b20s) \in 0..MaxSensors
    BY SensorsAssumption DEF SensorInv, SensorsTypeOK
  <2> QED
    BY <1>3, <2>1, <2>2 DEF PublishTypeOK, PublishSteps
<1>4. CASE PublishStep
  <2>1. UNCHANGED <<sensors_number, phase, search, ds18b20s>> /\ publish # "off"
        /\ publish' # "off" /\ publish' \in PublishSteps
    BY <1>4 DEF PublishStep, ReadTemperature, PublishMeta, PublishValue, LoopEnds,
                DelayEnds, sensorVars, bootVars, PublishSteps
  <2>2. publish' \in {"meta", "value"} => index <= sensors_number /\ index' = index
    BY <1>4 DEF PublishStep, ReadTemperature, PublishMeta, PublishValue, LoopEnds,
                DelayEnds, LoopContinues
  <2>3. index' \in 1..(MaxSensors + 1)
    <3>1. CASE PublishValue
      <4>1. publish = "value" /\ index' = index + 1
        BY <3>1 DEF PublishValue
      <4>2. index \in 1..(MaxSensors + 1) /\ sensors_number \in 0..MaxSensors
        BY DEF PublishTypeOK
      <4> QED
        BY <4>1, <4>2, SensorsAssumption
    <3>2. CASE ~PublishValue
      <4>1. index' = index \/ index' = 1
        BY <1>4, <3>2 DEF PublishStep, ReadTemperature, PublishMeta, LoopEnds,
                          DelayEnds
      <4> QED
        BY <4>1, SensorsAssumption DEF PublishTypeOK
    <3> QED
      BY <3>1, <3>2
  <2> QED
    BY <2>1, <2>2, <2>3 DEF PublishTypeOK
<1>5. CASE /\ UNCHANGED <<publishVars, search, ds18b20s>>
           /\ phase' \in ReadyPhases => phase \in ReadyPhases
           /\ (phase' = "main_loop") <=> (phase = "main_loop")
  BY <1>5 DEF PublishTypeOK, publishVars
<1>6. CASE UNCHANGED vars
  BY <1>5, <1>6 DEF vars, ramVars, sensorVars, bootVars
<1> QED
  BY <1>1, <1>2, <1>3, <1>4, <1>5, <1>6, PublisherFrame, PhaseFrame
-----------------------------------------------------------------------------
(* The upload and the flash. *)

LEMMA OtherTarget ==
  ASSUME OtaTypeOK
  PROVE  Target \in Partitions /\ Target # running /\ Target # 0
  BY DEF OtaTypeOK, Partitions, Target

\* The selected partition is the one the bootloader takes when it boots.
LEMMA BootsSelected ==
  ASSUME boot \in Partitions, Bootable(boot)
  PROVE  BootPartition = boot
<1> DEFINE upTo == {p \in Partitions : p <= boot /\ Bootable(p)}
<1>1. upTo # {}
  BY DEF Partitions
<1>2. BootPartition = CHOOSE p \in upTo : \A q \in upTo : q <= p
  BY <1>1 DEF BootPartition
<1>3. boot \in upTo /\ \A q \in upTo : q <= boot
  BY DEF Partitions
<1>4. ASSUME NEW p \in upTo, \A q \in upTo : q <= p PROVE p = boot
  BY <1>3, <1>4 DEF Partitions
<1> HIDE DEF upTo
<1> QED
  BY <1>2, <1>3, <1>4

\* There is always a partition that boots, and the bootloader finds it.
LEMMA AlwaysBoots ==
  ASSUME UploadInv
  PROVE  BootPartition \in Partitions /\ Bootable(BootPartition)
<1> DEFINE upTo == {p \in Partitions : p <= boot /\ Bootable(p)}
<1>1. boot \in {0, 1, 2}
  BY DEF UploadInv, OtaTypeOK, Partitions
<1>2. 0 \in upTo
  BY <1>1, OtaAssumption DEF UploadInv, Bootable, Partitions
<1>3. upTo \subseteq {0, 1, 2}
  BY DEF Partitions
<1>4. \E p \in upTo : \A q \in upTo : q <= p
  <2>1. CASE 2 \in upTo
    BY <1>3, <2>1
  <2>2. CASE 2 \notin upTo /\ 1 \in upTo
    BY <1>3, <2>2
  <2>3. CASE 2 \notin upTo /\ 1 \notin upTo
    BY <1>2, <1>3, <2>3
  <2> QED
    BY <2>1, <2>2, <2>3
<1>5. BootPartition = CHOOSE p \in upTo : \A q \in upTo : q <= p
  BY <1>2 DEF BootPartition
<1>6. BootPartition \in upTo
  <2> HIDE DEF upTo
  <2> QED
    BY <1>4, <1>5
<1> QED
  BY <1>3, <1>6 DEF Partitions

\* What an upload erases and writes is not the partition that runs.
LEMMA RunningKept ==
  ASSUME UploadInv, ClientStep
  PROVE  Bootable(running)'
<1>1. Target # running /\ Target \in Partitions /\ running \in Partitions
  BY OtherTarget DEF UploadInv, OtaTypeOK
<1>2. flash'[running] = flash[running] /\ running' = running
  BY <1>1
     DEF ClientStep, UploadStarts, ReceivePiece, ReceiveFails, UploadInv, OtaTypeOK
<1> QED
  BY <1>2 DEF Bootable, UploadInv

\* esp_ota_begin erases the partition: nothing is promised any more.
LEMMA UploadStartsStep ==
  ASSUME UploadInv, UploadStarts
  PROVE  UploadInv'
<1>0. Bootable(running)'
  BY RunningKept DEF ClientStep
<1>1. Target \in {1, 2} /\ Target' = Target
  BY DEF UploadInv, OtaTypeOK, Partitions, UploadStarts, Target
<1>2. flash \in [Partitions -> Contents] /\ Erased \in Contents
  BY OtaAssumption DEF UploadInv, OtaTypeOK, Contents, Erased
<1>3. /\ flash' \in [Partitions -> Contents]
      /\ flash'[0] = flash[0]
      /\ flash'[Target] = Erased
  BY <1>1, <1>2 DEF UploadStarts, Partitions
<1>4. /\ httpd' = "receive" /\ file' \in Files /\ left' \in 0..Size
      /\ promised' = "none" /\ UNCHANGED <<boot, running>>
  BY DEF UploadStarts
<1>5. OtaTypeOK'
  BY <1>3, <1>4 DEF UploadInv, OtaTypeOK
<1>6. flash'[Target'].pieces + left' <= Size
  <2>1. flash'[Target'].pieces = 0
    BY <1>1, <1>3 DEF Erased
  <2>2. left' \in 0..Size /\ Size \in Nat
    BY <1>4, OtaAssumption
  <2>3. \A m, n \in 0..Size : m = 0 => m + n <= Size
    BY <2>2
  <2>4. 0 \in 0..Size
    BY <2>2
  <2> QED
    BY <2>1, <2>2, <2>3, <2>4, Zenon
<1> QED
  BY <1>0, <1>1, <1>3, <1>4, <1>5, <1>6 DEF UploadInv

\* A piece is written after the ones before it.
LEMMA ReceivePieceStep ==
  ASSUME UploadInv, ReceivePiece
  PROVE  UploadInv'
<1>0. Bootable(running)'
  BY RunningKept DEF ClientStep
<1>1. Target \in {1, 2} /\ Target' = Target
  BY DEF UploadInv, OtaTypeOK, Partitions, ReceivePiece, Target
<1>2. /\ flash \in [Partitions -> Contents] /\ file \in Files
      /\ left \in 0..Size /\ left > 0
      /\ flash[Target].pieces + left <= Size
  BY DEF UploadInv, OtaTypeOK, ReceivePiece
<1>3. flash[Target].pieces \in 0..Size
  BY <1>1, <1>2 DEF Partitions, Contents
<1>4. flash[Target].pieces + 1 \in 0..Size /\ left - 1 \in 0..Size
      /\ (flash[Target].pieces + 1) + (left - 1) <= Size
  BY <1>2, <1>3, OtaAssumption
<1>5. /\ flash' \in [Partitions -> Contents]
      /\ flash'[0] = flash[0]
      /\ flash'[Target] = [file |-> file, pieces |-> flash[Target].pieces + 1]
  <2>1. [file |-> file, pieces |-> flash[Target].pieces + 1] \in Contents
    BY <1>2, <1>4 DEF Contents
  <2> QED
    BY <1>1, <1>2, <2>1 DEF ReceivePiece, Partitions
<1>6. /\ httpd = "receive" /\ left' = left - 1
      /\ UNCHANGED <<boot, running, httpd, file, promised>>
  BY DEF ReceivePiece
<1>7. OtaTypeOK'
  BY <1>4, <1>5, <1>6 DEF UploadInv, OtaTypeOK
<1>8. /\ flash'[Target'].pieces + left' <= Size
      /\ flash'[Target'].file = file'
  BY <1>1, <1>4, <1>5, <1>6
<1>9. promised' = "none"
  BY <1>6 DEF UploadInv
<1> QED
  BY <1>0, <1>2, <1>5, <1>6, <1>7, <1>8, <1>9 DEF UploadInv

\* The other steps of the handler leave every partition as it is.
LEMMA HandlerKeepsFlash ==
  ASSUME UploadInv, ReceiveFails \/ HandlerStep
  PROVE  UploadInv'
<1>1. flash' = flash /\ running' = running /\ Target' = Target
      /\ \A p : Bootable(p)' = Bootable(p)
  BY DEF ReceiveFails, HandlerStep, EndUpload, SelectBoot, PostUpdate, ReplyUpdate,
         flashVars, Target, Bootable
<1>2. Target \in Partitions /\ 0 \in 0..Size
  BY OtherTarget, OtaAssumption DEF UploadInv
<1> USE DEF UploadInv
<1>3. CASE ReceiveFails
  BY <1>1, <1>2, <1>3 DEF ReceiveFails, HandlerReturns, OtaTypeOK
<1>4. CASE EndUpload
  <2>1. Bootable(Target) => flash[Target].file = file
    BY <1>4, OtaAssumption DEF EndUpload, Bootable, Erased
  <2> QED
    BY <1>1, <1>2, <1>4, <2>1 DEF EndUpload, HandlerReturns, OtaTypeOK
<1>5. CASE SelectBoot
  BY <1>1, <1>2, <1>5 DEF SelectBoot, HandlerReturns, OtaTypeOK
<1>6. CASE PostUpdate
  BY <1>1, <1>2, <1>6 DEF PostUpdate, flashVars, OtaTypeOK
<1>7. CASE ReplyUpdate
  BY <1>1, <1>2, <1>7 DEF ReplyUpdate, flashVars, HandlerReturns, OtaTypeOK
<1> QED
  BY <1>3, <1>4, <1>5, <1>6, <1>7 DEF HandlerStep

\* A reset loses the handler and keeps the flash.
LEMMA ResetKeepsFlash ==
  ASSUME UploadInv, Reset
  PROVE  UploadInv'
<1>1. /\ flash' = flash /\ boot' = boot /\ promised' = promised
      /\ httpd' = "off" /\ left' = 0 /\ file' = "none"
      /\ running' = BootPartition
  BY DEF Reset, flashVars
<1>2. BootPartition \in Partitions /\ 0 \in 0..Size
  BY AlwaysBoots, OtaAssumption
<1>3. Bootable(running)'
  BY <1>1, AlwaysBoots DEF Bootable
<1>4. OtaTypeOK'
  BY <1>1, <1>2 DEF UploadInv, OtaTypeOK
<1> QED
  BY <1>1, <1>3, <1>4 DEF UploadInv, Bootable

\* The steps that start and stop the server, and the requests of other endpoints.
ServerMoves ==
    /\ \/ httpd = "off" /\ httpd' = "wait"
       \/ httpd \in {"off", "wait"} /\ httpd' = "off"
       \/ httpd = "wait" /\ httpd' = "other"
       \/ httpd = "other" /\ httpd' = "wait"
    /\ UNCHANGED <<flash, boot, running, left, file, promised>>

LEMMA UploadFrame ==
  ASSUME Next
  PROVE  \/ Reset \/ ServerMoves \/ HandlerStep \/ ClientStep
         \/ UNCHANGED otaVars
<1> USE DEF ramVars, bootVars
<1>1. ASSUME HttpStart PROVE ServerMoves \/ UNCHANGED otaVars
  BY <1>1 DEF HttpStart, ServerMoves, otaVars, uploadVars, flashVars
<1>2. CASE MainGoes
  BY <1>1, <1>2
     DEF MainGoes, StartStation, StationReturns, StartAccessPoint, Scan, ScanEnds,
         Register, InitSensors, BusError, StartHttp, InitMqtt, StartMqtt
<1>3. CASE LoopGoes
  BY <1>1, <1>3 DEF LoopGoes, EventLost, CallbackStarts, SetUri, StopHttp,
     ConnectReturns, StartMqttAgain, ServerMoves, flashVars
<1>4. CASE TasksGo
  BY <1>4 DEF TasksGo, PublishStep, UploadByHandler, UploadByClient, OtherRequest,
     OtherPosts, EventArrives, BrokerStep, BusStep, ServerMoves, flashVars
<1> QED
  BY <1>2, <1>3, <1>4, Steps

LEMMA UploadInvStep ==
  ASSUME UploadInv, [Next]_vars
  PROVE  UploadInv'
<1>1. CASE UNCHANGED otaVars
  BY <1>1 DEF otaVars, flashVars, uploadVars, UploadInv, OtaTypeOK, Target, Bootable
<1>2. CASE ServerMoves
  <2>1. /\ httpd' \in {"off", "wait", "other"}
        /\ UNCHANGED <<flash, boot, running, left, file, promised>>
    BY <1>2 DEF ServerMoves
  <2> QED
    BY <1>2, <2>1 DEF ServerMoves, UploadInv, OtaTypeOK, Target, Bootable
<1>3. CASE UNCHANGED vars
  BY <1>1, <1>3 DEF vars
<1> QED
  BY <1>1, <1>2, <1>3, UploadFrame, UploadStartsStep, ReceivePieceStep,
     HandlerKeepsFlash, ResetKeepsFlash DEF ClientStep
-----------------------------------------------------------------------------
(* The rest of the type invariant. *)

\* A queue that is not full takes one more event, and Receive takes one out.
LEMMA QueueStep ==
  ASSUME LoopTypeOK,
         \/ \E event \in Events : Post(event) \/ Receive(event)
         \/ RegisterEvents
         \/ queue' = <<>> /\ registered' = FALSE
         \/ UNCHANGED loopVars
  PROVE  LoopTypeOK'
<1> USE QueueSizeAssumption
<1>1. queue \in Seq(Events) /\ Len(queue) <= QueueSize /\ registered \in BOOLEAN
  BY DEF LoopTypeOK
<1>2. ASSUME NEW event \in Events, Post(event) PROVE LoopTypeOK'
  BY <1>1, <1>2 DEF Post, CanPost, LoopTypeOK
<1>3. ASSUME NEW event \in Events, Receive(event) PROVE LoopTypeOK'
  <2>1. queue # <<>> /\ queue' = Tail(queue) /\ registered' = registered
    BY <1>3 DEF Receive
  <2>2. Tail(queue) \in Seq(Events) /\ Len(Tail(queue)) <= QueueSize
    BY <1>1, <2>1
  <2> QED
    BY <1>1, <2>1, <2>2 DEF LoopTypeOK
<1>4. CASE RegisterEvents
  <2>1. registered' \in BOOLEAN
    BY <1>4, Zenon DEF RegisterEvents
  <2> QED
    BY <1>1, <1>4, <2>1 DEF RegisterEvents, LoopTypeOK
<1>5. CASE queue' = <<>> /\ registered' = FALSE
  <2>1. registered' \in BOOLEAN
    BY <1>5, Zenon
  <2> QED
    BY <1>5, <2>1 DEF LoopTypeOK
<1>6. CASE UNCHANGED loopVars
  BY <1>1, <1>6 DEF LoopTypeOK, loopVars
<1> QED
  BY <1>2, <1>3, <1>4, <1>5, <1>6

\* Which steps reach the queue.
LEMMA LoopFrame ==
  ASSUME Next
  PROVE  \/ Reset \/ PostUpdate \/ OtherPosts \/ EventArrives
         \/ EventLost \/ CallbackStarts \/ SetUri \/ Register
         \/ UNCHANGED loopVars
<1>1. CASE MainGoes
  BY <1>1
     DEF MainGoes, StartStation, StationReturns, StartAccessPoint, Scan, ScanEnds,
         InitSensors, BusError, StartHttp, InitMqtt, StartMqtt
<1>2. CASE LoopGoes
  BY <1>2 DEF LoopGoes, StopHttp, ConnectReturns, StartMqttAgain
<1>3. CASE TasksGo
  BY <1>3 DEF TasksGo, PublishStep, UploadByHandler, UploadByClient, HandlerStep,
     ClientStep, EndUpload, SelectBoot, ReplyUpdate, UploadStarts, ReceivePiece,
     ReceiveFails, OtherRequest, BrokerStep, BusStep
<1> QED
  BY <1>1, <1>2, <1>3, Steps

\* What they do to it.
LEMMA LoopMoves ==
  ASSUME [Next]_vars
  PROVE  \/ \E event \in Events : Post(event) \/ Receive(event)
         \/ RegisterEvents
         \/ queue' = <<>> /\ registered' = FALSE
         \/ UNCHANGED loopVars
<1>1. CASE UNCHANGED vars
  BY <1>1 DEF vars
<1>2. CASE Reset
  BY <1>2 DEF Reset
<1>3. CASE PostUpdate \/ OtherPosts \/ EventArrives
  BY <1>3 DEF PostUpdate, OtherPosts, HandlerEvents, EventArrives, ModeEvent, Events
<1>4. CASE EventLost \/ CallbackStarts \/ SetUri
  BY <1>4 DEF EventLost, CallbackStarts, SetUri, ModeEvents, Events
<1>5. CASE Register
  BY <1>5 DEF Register
<1> QED
  BY <1>1, <1>2, <1>3, <1>4, <1>5, LoopFrame

LEMMA MqttStep ==
  ASSUME MqttTypeOK, [Next]_vars
  PROVE  MqttTypeOK'
<1> USE DEF MqttTypeOK, ClientStates
<1>1. CASE UNCHANGED mqttVars
  BY <1>1 DEF mqttVars
<1>2. CASE InitMqtt \/ StartMqtt \/ SetUri \/ StartMqttAgain
  BY <1>2 DEF InitMqtt, StartMqtt, SetUri, StartMqttAgain, MqttInit, MqttStart,
     MqttSetUri
<1>3. CASE CallbackStarts
  BY <1>3 DEF CallbackStarts, MqttStop, mqttVars
<1>4. CASE BrokerStep \/ Reset
  <2>1. client' \in ClientStates
    BY <1>4 DEF BrokerStep, MqttConnected, MqttDisconnected, Reset
  <2>2. is_connected' \in BOOLEAN
    BY <1>4, Zenon DEF BrokerStep, MqttConnected, MqttDisconnected, Reset
  <2> QED
    BY <2>1, <2>2
<1>5. CASE MainGoes /\ ~InitMqtt /\ ~StartMqtt
  BY <1>1, <1>5
     DEF MainGoes, StartStation, StationReturns, StartAccessPoint, Scan, ScanEnds,
         Register, InitSensors, BusError, StartHttp, ramVars
<1>6. CASE EventLost \/ StopHttp \/ ConnectReturns
  BY <1>1, <1>6 DEF EventLost, StopHttp, ConnectReturns, ramVars
<1>7. CASE TasksGo /\ ~BrokerStep
  BY <1>1, <1>7 DEF TasksGo, PublishStep, UploadByHandler, UploadByClient,
     OtherRequest, OtherPosts, EventArrives, BusStep, ramVars
<1>8. CASE UNCHANGED vars
  BY <1>1, <1>8 DEF vars, ramVars
<1> QED
  BY <1>1, <1>2, <1>3, <1>4, <1>5, <1>6, <1>7, <1>8, Steps DEF LoopGoes

\* Where main and the callback stand: callback_esp_restart never returns.
LEMMA ControlStep ==
  ASSUME BootInv, [Next]_vars
  PROVE  /\ phase' \in Phases /\ station' \in BOOLEAN
         /\ callback' \in Callbacks /\ job' \in Jobs
         /\ job' = "esp_restart" => callback' \in {"http_stop", "write_nvs"}
<1>1. /\ phase \in Phases /\ station \in BOOLEAN
      /\ callback \in Callbacks /\ job \in Jobs
      /\ job = "esp_restart" => callback \in {"http_stop", "write_nvs"}
  BY DEF BootInv
<1>2. /\ phase' \in Phases /\ callback' \in Callbacks /\ job' \in Jobs
      /\ job' = "esp_restart" => callback' \in {"http_stop", "write_nvs"}
  <2> USE <1>1 DEF Phases, Callbacks, Jobs, bootVars
  <2>1. CASE MainGoes
    BY <2>1
       DEF MainGoes, StartStation, StationReturns, StartAccessPoint, Scan, ScanEnds,
           Register, InitSensors, BusError, StartHttp, InitMqtt, StartMqtt, Main
  <2>2. CASE CallbackStarts
    BY <2>2 DEF CallbackStarts, Callback, ModeEvents, Events
  <2>3. CASE LoopGoes /\ ~CallbackStarts
    BY <2>3 DEF LoopGoes, EventLost, SetUri, StopHttp, ConnectReturns,
                StartMqttAgain, Goes, Returns, AfterStop
  <2>4. CASE TasksGo
    BY <2>4 DEF TasksGo, PublishStep, UploadByHandler, UploadByClient,
                OtherRequest, OtherPosts, EventArrives, BrokerStep, BusStep
  <2>5. CASE Reset \/ UNCHANGED vars
    BY <2>5 DEF Reset, vars
  <2> QED
    BY <2>1, <2>2, <2>3, <2>4, <2>5, Steps
<1>3. station' = station \/ station' = TRUE \/ station' = (job = "init_sta")
      \/ station' = FALSE
  <2> USE DEF bootVars
  <2>1. CASE MainGoes
    BY <2>1
       DEF MainGoes, StartStation, StationReturns, StartAccessPoint, Scan, ScanEnds,
           Register, InitSensors, BusError, StartHttp, InitMqtt, StartMqtt, Main
  <2>2. CASE LoopGoes
    BY <2>2 DEF LoopGoes, EventLost, CallbackStarts, SetUri, StopHttp,
                ConnectReturns, StartMqttAgain, Returns
  <2>3. CASE TasksGo
    BY <2>3 DEF TasksGo, PublishStep, UploadByHandler, UploadByClient,
                OtherRequest, OtherPosts, EventArrives, BrokerStep, BusStep
  <2>4. CASE Reset \/ UNCHANGED vars
    BY <2>4 DEF Reset, vars
  <2> QED
    BY <2>1, <2>2, <2>3, <2>4, Steps
<1>4. station' \in BOOLEAN
  BY <1>1, <1>3, Zenon
<1> QED
  BY <1>2, <1>4
-----------------------------------------------------------------------------
(* The restart an update asks for. *)

\* A post leaves the events before it in the queue.
LEMMA PostKeeps ==
  ASSUME LoopTypeOK, NEW event, Post(event), UpdateQueued
  PROVE  UpdateQueued'
<1>1. /\ Len(queue') = Len(queue) + 1 /\ Len(queue) \in Nat
      /\ \A n \in 1..Len(queue) : queue'[n] = queue[n]
  BY DEF Post, LoopTypeOK
<1>2. PICK n \in 1..Len(queue) : queue[n] = "OTA_UPDATE"
  BY DEF UpdateQueued
<1>3. n \in 1..Len(queue')
  BY <1>1
<1> QED
  BY <1>1, <1>2, <1>3 DEF UpdateQueued

\* Receiving another event leaves the update in the queue.
LEMMA ReceiveKeeps ==
  ASSUME LoopTypeOK, NEW event, event # "OTA_UPDATE", Receive(event), UpdateQueued
  PROVE  UpdateQueued'
<1>1. /\ queue \in Seq(Events) /\ queue # <<>> /\ queue' = Tail(queue)
      /\ event = queue[1]
  BY DEF Receive, LoopTypeOK
<1>2. PICK n \in 1..Len(queue) : queue[n] = "OTA_UPDATE"
  BY DEF UpdateQueued
<1>3. n - 1 \in 1..Len(queue') /\ queue'[n - 1] = queue[n]
  <2>1. n # 1
    BY <1>1, <1>2
  <2>2. Len(queue') = Len(queue) - 1 /\ Len(queue) \in Nat
    BY <1>1
  <2>3. n - 1 \in 1..(Len(queue) - 1)
    BY <2>1, <2>2
  <2> QED
    BY <1>1, <2>2, <2>3
<1> QED
  BY <1>2, <1>3 DEF UpdateQueued

\* Only a reset ends callback_esp_restart.
LEMMA JobKept ==
  ASSUME BootInv, Next, ~Reset, ~CallbackStarts, job = "esp_restart"
  PROVE  job' = job
<1> USE DEF bootVars
<1>1. callback \in {"http_stop", "write_nvs"}
  BY DEF BootInv
<1>2. CASE MainGoes
  BY <1>2
     DEF MainGoes, StartStation, StationReturns, StartAccessPoint, Scan, ScanEnds,
         Register, InitSensors, BusError, StartHttp, InitMqtt, StartMqtt, Main
<1>3. CASE LoopGoes
  BY <1>1, <1>3 DEF LoopGoes, EventLost, SetUri, StopHttp, ConnectReturns,
     StartMqttAgain, Goes, Returns
<1>4. CASE TasksGo
  BY <1>4 DEF TasksGo, PublishStep, UploadByHandler, UploadByClient, OtherRequest,
     OtherPosts, EventArrives, BrokerStep, BusStep
<1> QED
  BY <1>2, <1>3, <1>4, Steps

\* A restart that is due stays due, behind whatever other callback, until a reset.
LEMMA RestartKept ==
  ASSUME BootInv, registered, Next, ~Reset, RestartDue
  PROVE  RestartDue'
<1> USE DEF RestartDue, BootInv
<1>1. CASE CallbackStarts
  <2>1. job # "esp_restart" /\ UpdateQueued
    BY <1>1 DEF CallbackStarts, Free
  <2>2. PICK event \in ModeEvents : Receive(event) /\ job' = Callback(event)
    BY <1>1 DEF CallbackStarts
  <2>3. CASE event = "OTA_UPDATE"
    BY <2>2, <2>3 DEF Callback
  <2>4. CASE event # "OTA_UPDATE"
    BY <2>1, <2>2, <2>4, ReceiveKeeps
  <2> QED
    BY <2>3, <2>4
<1>2. CASE SetUri
  <2>1. Receive("INIT_MQTT") /\ job' = job
    BY <1>2 DEF SetUri, bootVars
  <2> QED
    BY <2>1, ReceiveKeeps
<1>3. job = "esp_restart" /\ ~CallbackStarts => job' = job
  BY JobKept
<1>4. CASE (PostUpdate \/ OtherPosts \/ EventArrives) /\ ~CallbackStarts
  <2>1. \E event : Post(event)
    BY <1>4 DEF PostUpdate, OtherPosts, EventArrives
  <2> QED
    BY <1>3, <1>4, <2>1, PostKeeps
<1>5. CASE (UNCHANGED loopVars \/ Register) /\ ~CallbackStarts
  BY <1>3, <1>5 DEF Register, RegisterEvents, loopVars, UpdateQueued
<1> QED
  BY <1>1, <1>2, <1>4, <1>5, LoopFrame DEF EventLost

\* But for a reset and the post, no step comes to owe the restart that did not
\* owe it before: a promise is made in the answer, and gone while a partition is
\* selected.
LEMMA OwedBefore ==
  ASSUME UploadInv, Next, ~Reset, ~PostUpdate, Owed'
  PROVE  Owed
<1> USE DEF Owed, flashVars, uploadVars
<1>1. CASE ServerMoves
  BY <1>1 DEF ServerMoves
<1>2. CASE EndUpload \/ ReplyUpdate
  BY <1>2 DEF EndUpload, ReplyUpdate, HandlerReturns
<1>3. CASE SelectBoot
  BY <1>3 DEF SelectBoot, HandlerReturns, UploadInv
<1>4. CASE ClientStep
  BY <1>4 DEF ClientStep, UploadStarts, ReceivePiece, ReceiveFails, HandlerReturns
<1>5. CASE UNCHANGED otaVars
  BY <1>5 DEF otaVars
<1> QED
  BY <1>1, <1>2, <1>3, <1>4, <1>5, UploadFrame DEF HandlerStep

\* A post appends the event it posts.
LEMMA PostQueues ==
  ASSUME LoopTypeOK, Post("OTA_UPDATE")
  PROVE  UpdateQueued'
<1>1. /\ Len(queue') = Len(queue) + 1
      /\ queue'[Len(queue) + 1] = "OTA_UPDATE"
  BY DEF Post, LoopTypeOK
<1>2. Len(queue) \in Nat
  BY DEF LoopTypeOK
<1>3. Len(queue) + 1 \in 1..Len(queue')
  BY <1>1, <1>2
<1> QED
  BY <1>1, <1>3 DEF UpdateQueued

\* A reset pays the debt: the partition promised boots, so it is the one that runs.
LEMMA ResetPays ==
  ASSUME UploadInv, Reset
  PROVE  httpd' = "off" /\ (promised' = "none" \/ running' = boot')
<1>1. /\ httpd' = "off" /\ running' = BootPartition
      /\ boot' = boot /\ promised' = promised
  BY DEF Reset, flashVars
<1>2. promised # "none" => BootPartition = boot
  BY BootsSelected DEF UploadInv, OtaTypeOK
<1> QED
  BY <1>1, <1>2

LEMMA UpdateStep ==
  ASSUME UploadInv, BootInv, ServerInv, UpdateInv, [Next]_vars
  PROVE  UpdateInv'
<1>1. CASE Reset
  BY <1>1, ResetPays DEF UpdateInv, Owed
<1>2. CASE PostUpdate
  BY <1>2, PostQueues DEF PostUpdate, UpdateInv, BootInv, RestartDue
<1>3. CASE Next /\ ~Reset /\ ~PostUpdate
  <2> SUFFICES ASSUME Owed' PROVE RestartDue'
    BY DEF UpdateInv
  <2>1. Owed
    BY <1>3, OwedBefore
  <2>2. RestartDue
    BY <2>1 DEF UpdateInv
  <2>3. registered
    BY <2>1 DEF ServerInv, Owed
  <2> QED
    BY <1>3, <2>2, <2>3, RestartKept
<1>4. CASE UNCHANGED vars
  BY <1>4 DEF vars, otaVars, flashVars, uploadVars, loopVars, bootVars, UpdateInv,
     Owed, RestartDue, UpdateQueued
<1> QED
  BY <1>1, <1>2, <1>3, <1>4

\* Before the handlers are registered only main and the mode it brings up move.
LEMMA ServerStep ==
  ASSUME UploadInv, ServerInv, [Next]_vars
  PROVE  ServerInv'
<1> USE DEF ServerInv, EarlyPhases
<1>1. CASE Reset
  BY <1>1, ResetPays DEF Reset
<1>2. CASE UNCHANGED vars
  BY <1>2 DEF vars, otaVars, flashVars, uploadVars, loopVars, bootVars
<1>3. CASE Next /\ ~Reset
  <2> SUFFICES ASSUME ~registered'
               PROVE  /\ httpd' = "off" /\ callback' = "idle"
                      /\ phase' \in EarlyPhases
                      /\ promised' = "none" \/ running' = boot'
    OBVIOUS
  <2>1. ~registered /\ ~Register
    <3>1. registered' = registered \/ registered' = TRUE
      BY <1>3, LoopFrame
         DEF PostUpdate, OtherPosts, EventArrives, EventLost, CallbackStarts, SetUri,
             Register, Post, Receive, RegisterEvents, loopVars
    <3> QED
      BY <3>1 DEF Register, RegisterEvents
  <2>2. /\ httpd = "off" /\ callback = "idle" /\ phase \in EarlyPhases
        /\ promised = "none" \/ running = boot
    BY <2>1
  <2>3. CASE MainGoes
    BY <2>1, <2>2, <2>3
       DEF MainGoes, StartStation, StationReturns, StartAccessPoint, Scan, ScanEnds,
           InitSensors, BusError, StartHttp, InitMqtt, StartMqtt, Main, otaVars,
           flashVars, uploadVars, bootVars
  <2>4. CASE LoopGoes
    BY <2>1, <2>2, <2>4 DEF LoopGoes, EventLost, CallbackStarts, Free, SetUri,
       StopHttp, ConnectReturns, StartMqttAgain, Goes, Returns, otaVars, flashVars,
       uploadVars, bootVars
  <2>5. CASE TasksGo
    <3>1. httpd' = httpd /\ UNCHANGED <<promised, running, boot>>
      BY <2>2, <2>5 DEF TasksGo, PublishStep, UploadByHandler, UploadByClient,
         OtherRequest, OtherPosts, EventArrives, BrokerStep, BusStep, HandlerStep,
         ClientStep, EndUpload, SelectBoot, PostUpdate, ReplyUpdate, UploadStarts,
         ReceivePiece, ReceiveFails, otaVars, flashVars, uploadVars
    <3>2. UNCHANGED <<callback, phase>>
      BY <2>5 DEF TasksGo, PublishStep, UploadByHandler, UploadByClient,
         OtherRequest, OtherPosts, EventArrives, BrokerStep, BusStep, bootVars
    <3> QED
      BY <2>2, <3>1, <3>2
  <2> QED
    BY <1>3, <2>3, <2>4, <2>5, Steps
<1> QED
  BY <1>1, <1>2, <1>3
-----------------------------------------------------------------------------
(* The theorems. *)

LEMMA InitLife == Init => LifeInv
<1> SUFFICES ASSUME Init PROVE LifeInv
  OBVIOUS
<1> USE DEF Init
<1>1. ScanInv /\ SensorInv
  BY InitScan, InitSensorInv
<1>2. PublishInv
  BY SensorsAssumption
     DEF PublishInit, BootInit, PublishInv, PublishTypeOK, PublishSteps
<1>3. UploadInv
  <2>1. OtaTypeOK
    BY OtaAssumption DEF OtaInit, OtaTypeOK, Partitions, Contents, Erased
  <2> QED
    BY <2>1 DEF OtaInit, UploadInv, Partitions, Bootable
<1>4. BootInv
  <2>1. queue \in Seq(Events) /\ Len(queue) <= QueueSize
    BY QueueSizeAssumption DEF LoopInit
  <2>2. registered \in BOOLEAN /\ is_connected \in BOOLEAN /\ station \in BOOLEAN
    BY Zenon DEF LoopInit, MqttInitState, BootInit
  <2>3. /\ client \in ClientStates /\ phase \in Phases
        /\ callback \in Callbacks /\ job \in Jobs /\ job # "esp_restart"
    BY DEF MqttInitState, ClientStates, BootInit, Phases, Callbacks, Jobs
  <2> QED
    BY <2>1, <2>2, <2>3 DEF BootInv, MqttTypeOK, LoopTypeOK
<1>5. UpdateInv /\ ServerInv
  BY DEF BootInit, OtaInit, UpdateInv, Owed, ServerInv, EarlyPhases
<1> QED
  BY <1>1, <1>2, <1>3, <1>4, <1>5 DEF LifeInv

\* The loops of the scan see only their own steps and resets.
LEMMA ScanFrame ==
  ASSUME [Next]_vars
  PROVE  [ScanNext \/ ScanReset]_scanVars
<1> USE DEF ramVars, ScanNext
<1>1. CASE MainGoes
  BY <1>1
     DEF MainGoes, StartStation, StationReturns, StartAccessPoint, Scan, ScanEnds,
         Register, InitSensors, BusError, StartHttp, InitMqtt, StartMqtt
<1>2. CASE LoopGoes
  BY <1>2 DEF LoopGoes, EventLost, CallbackStarts, SetUri, StopHttp,
              ConnectReturns, StartMqttAgain
<1>3. CASE TasksGo
  BY <1>3 DEF TasksGo, PublishStep, UploadByHandler, UploadByClient, OtherRequest,
              OtherPosts, EventArrives, BrokerStep, BusStep
<1>4. CASE Reset
  BY <1>4 DEF Reset, ScanReset
<1>5. CASE UNCHANGED vars
  BY <1>5 DEF vars
<1> QED
  BY <1>1, <1>2, <1>3, <1>4, <1>5, Steps

\* And so does the search.
LEMMA SensorFrame ==
  ASSUME [Next]_vars
  PROVE  [SensorNext]_sensorVars \/ SensorReset
<1> USE DEF ramVars, SensorNext
<1>1. CASE MainGoes
  BY <1>1
     DEF MainGoes, StartStation, StationReturns, StartAccessPoint, Scan, ScanEnds,
         Register, InitSensors, BusError, StartHttp, InitMqtt, StartMqtt
<1>2. CASE LoopGoes
  BY <1>2 DEF LoopGoes, EventLost, CallbackStarts, SetUri, StopHttp,
              ConnectReturns, StartMqttAgain
<1>3. CASE TasksGo
  BY <1>3 DEF TasksGo, PublishStep, UploadByHandler, UploadByClient, OtherRequest,
              OtherPosts, EventArrives, BrokerStep, BusStep
<1>4. CASE Reset
  BY <1>4 DEF Reset, SensorReset
<1>5. CASE UNCHANGED vars
  BY <1>5 DEF vars
<1> QED
  BY <1>1, <1>2, <1>3, <1>4, <1>5, Steps

LEMMA LifeStep == LifeInv /\ [Next]_vars => LifeInv'
<1> SUFFICES ASSUME LifeInv, [Next]_vars PROVE LifeInv'
  OBVIOUS
<1>1. ScanInv'
  BY ScanFrame, ScanStep DEF LifeInv
<1>2. SensorInv'
  BY SensorFrame, SensorStep, ResetSensors DEF LifeInv
<1>3. PublishInv' /\ UploadInv'
  BY PublishInvStep, UploadInvStep DEF LifeInv
<1>4. BootInv'
  <2>1. LoopTypeOK' /\ MqttTypeOK'
    BY LoopMoves, QueueStep, MqttStep DEF LifeInv, BootInv
  <2> QED
    BY <2>1, ControlStep DEF LifeInv, BootInv
<1>5. UpdateInv' /\ ServerInv'
  BY UpdateStep, ServerStep DEF LifeInv, BootInv
<1> QED
  BY <1>1, <1>2, <1>3, <1>4, <1>5 DEF LifeInv

\* The inductive invariant holds of every behaviour.
THEOREM LifeInvariance == Spec => []LifeInv
<1> QED
  BY InitLife, LifeStep, PTL DEF Spec

\* Type correctness: the queue, the table and the partitions keep their bounds.
THEOREM LifecycleTypes == Spec => []TypeOK
<1>1. LifeInv => TypeOK
  BY DEF LifeInv, ScanInv, SensorInv, PublishInv, UploadInv, BootInv, TypeOK
<1> QED
  BY <1>1, LifeInvariance, PTL

\* The channel an access point boots on is the least busy but for the access points
\* the list had no place for, also when the boot before it ended in the middle of
\* the scan (aug_wifi_scan.c).
THEOREM BootsOnLeastBusy == Spec => []LeastBusy
<1>1. LifeInv => LeastBusy
  BY ChosenIsLeast DEF LifeInv
<1> QED
  BY <1>1, LifeInvariance, PTL

\* The table of sensors: no overflow, the order of the bus with no double, and none
\* left out unless it is full or the bus failed (aug_ds18b20.c).
THEOREM SensorTableComplete == Spec => []SensorTable
<1>1. LifeInv => SensorTable
  BY DEF LifeInv, SensorInv, Ordered, SensorTable
<1> QED
  BY <1>1, LifeInvariance, PTL

\* publish_task reads only initialised entries of the table.
THEOREM SensorsAlwaysReadable == Spec => []SensorsReadable
<1>1. LifeInv => SensorsReadable
  <2> SUFFICES ASSUME LifeInv, publish \in {"meta", "value"}
               PROVE  /\ search = "ready"
                      /\ index <= Len(ds18b20s) /\ index <= resolved
    BY DEF SensorsReadable
  <2>1. PublishInv /\ SensorInv
    BY DEF LifeInv
  <2>2. phase = "main_loop" /\ search = "ready"
    BY <2>1 DEF PublishInv
  <2>3. index <= sensors_number /\ sensors_number = Len(ds18b20s)
    BY <2>1 DEF PublishInv
  <2>4. resolved = Len(ds18b20s)
    BY <2>1, <2>2 DEF SensorInv
  <2> QED
    BY <2>2, <2>3, <2>4
<1> QED
  BY <1>1, LifeInvariance, PTL

\* A firmware answered with 200 boots, whatever reset comes next, until another
\* upload begins (ota_update_handler).
THEOREM PromisedImageAlwaysBoots == Spec => []PromisedImageBoots
<1>1. LifeInv => PromisedImageBoots
  BY BootsSelected
     DEF LifeInv, UploadInv, OtaTypeOK, PromisedImageBoots
<1> QED
  BY <1>1, LifeInvariance, PTL

\* The firmware that runs stays whole, whatever is uploaded and breaks off, for
\* files of any size.
THEOREM RunningAlwaysIntact == Spec => []RunningIntact
<1>1. LifeInv => RunningIntact
  BY DEF LifeInv, UploadInv, RunningIntact
<1> QED
  BY <1>1, LifeInvariance, PTL

\* As long as the firmware before it runs, the restart into one answered with 200
\* is queued or under way, for a queue of any length and whatever else is in it.
THEOREM UpdateAlwaysUnderWay == Spec => []UpdateUnderWay
<1>1. LifeInv => UpdateUnderWay
  BY DEF LifeInv, UpdateInv, Owed, RestartDue, UpdateQueued, UpdateUnderWay
<1> QED
  BY <1>1, LifeInvariance, PTL
-----------------------------------------------------------------------------
(* The refinement of HttpServer. *)

\* The pieces of an upload do not show, nor do the requests of other endpoints.
LEMMA UploadStutters ==
  ASSUME \/ UNCHANGED otaVars
         \/ ReceivePiece
         \/ httpd = "wait" /\ httpd' = "other"
         \/ httpd = "other" /\ httpd' = "wait"
  PROVE  UNCHANGED Upload!httpVars
<1> USE DEF Upload!httpVars
<1>1. CASE UNCHANGED otaVars
  BY <1>1 DEF otaVars, uploadVars
<1>2. CASE ReceivePiece
  BY <1>2 DEF ReceivePiece
<1>3. CASE \/ httpd = "wait" /\ httpd' = "other"
           \/ httpd = "other" /\ httpd' = "wait"
  BY <1>3
<1> QED
  BY <1>1, <1>2, <1>3

\* The handler begins, and its receiving ends as the partition is selected or an
\* error is answered; posting and answering are the steps they are there.
LEMMA HandlerServes ==
  ASSUME UploadStarts \/ ReceiveFails \/ HandlerStep
  PROVE  [UploadServed]_(Upload!httpVars)
<1> USE DEF UploadServed, Upload!Finish
<1>1. CASE UploadStarts
  BY <1>1 DEF UploadStarts, Upload!HandlerStarts, Upload!FirstStep
<1>2. CASE ReceiveFails
  BY <1>2 DEF ReceiveFails, HandlerReturns, Upload!UploadEnds
<1>3. CASE EndUpload
  <2>1. CASE httpd' = "select"
    BY <1>3, <2>1 DEF EndUpload, Upload!httpVars
  <2>2. CASE httpd' # "select"
    BY <1>3, <2>2 DEF EndUpload, HandlerReturns, Upload!UploadEnds
  <2> QED
    BY <2>1, <2>2
<1>4. CASE SelectBoot
  BY <1>4 DEF SelectBoot, HandlerReturns, Upload!UploadEnds
<1>5. CASE PostUpdate
  <2>1. Upload!Post("OTA_UPDATE")
    BY <1>5 DEF PostUpdate, Post, CanPost, Upload!Post, Upload!CanPost
  <2>2. Upload!HandlerPosts
    BY <1>5, <2>1 DEF PostUpdate, Upload!HandlerPosts
  <2> QED
    BY <2>2
<1>6. CASE ReplyUpdate
  BY <1>6 DEF ReplyUpdate, HandlerReturns, Upload!HandlerReplies
<1> QED
  BY <1>1, <1>2, <1>3, <1>4, <1>5, <1>6 DEF HandlerStep

\* Every step of the device is one of the server of HttpServer, or leaves its
\* state alone.
LEMMA UploadServes ==
  ASSUME [Next]_vars
  PROVE  [UploadServed]_(Upload!httpVars)
<1>1. CASE Reset
  BY <1>1 DEF UploadServed
<1>2. CASE ServerMoves
  <2>1. CASE httpd = "off" /\ httpd' = "wait"
    BY <2>1 DEF UploadServed, Upload!HttpStart
  <2>2. CASE httpd \in {"off", "wait"} /\ httpd' = "off"
    BY <2>2 DEF UploadServed, Upload!HttpStop
  <2> QED
    BY <1>2, <2>1, <2>2, UploadStutters DEF ServerMoves
<1>3. CASE HandlerStep \/ ClientStep
  BY <1>3, HandlerServes, UploadStutters DEF ClientStep
<1>4. CASE UNCHANGED otaVars \/ UNCHANGED vars
  BY <1>4, UploadStutters DEF vars
<1> QED
  BY <1>1, <1>2, <1>3, <1>4, UploadFrame

\* The handler of /ota_update is a request of HttpServer, for files and a queue of
\* any size: what Device shows of its server holds with uploads of many steps.
THEOREM UploadRefinesHttpServer == Spec => UploadImplementsHttpServer
<1>1. Init => Upload!HttpInit
  BY DEF Init, OtaInit, Upload!HttpInit
<1>2. [Next]_vars => [UploadServed]_(Upload!httpVars)
  BY UploadServes
<1> QED
  BY <1>1, <1>2, PTL DEF Spec, UploadImplementsHttpServer
==============================================================================
