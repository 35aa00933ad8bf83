---------------------------- MODULE ServiceProofs ----------------------------
(***************************************************************************)
(* More theorems about module Device: what a booted device offers.  It is  *)
(* in one mode at rest, an access point at rest has its server, a restart  *)
(* is answered before it happens, no handler writes a configuration that   *)
(* second_loop reads, and a station that gave up is announced.  They rest  *)
(* on the invariants below, inductive together with IInv of DeviceProofs.  *)
(***************************************************************************)
EXTENDS DeviceProofs

\* main is past its call of aug_http_start.
Serving == {"mqtt_init", "mqtt_start", "done"}

\* second_loop has stopped nothing yet.
Quiet == {"idle", "set_uri", "mqtt_stop", "http_stop"}

\* second_loop is between httpd_stop and httpd_start.
Down == ConnectLabels \cup ApStopping
          \cup {"sta_forget", "sta_unregister", "sta_release", "write_nvs",
                "restart", "http_start"}

\* A handle for a server that runs; a callback that began after the boot finds
\* it stopped from httpd_stop on.
ServerInv ==
    /\ server <=> httpd # "off"
    /\ pc["loop"] # "idle" /\ ~early => pc["main"] = "done"
    /\ pc["loop"] \in Down /\ ~early => httpd = "off"
    /\ pc["loop"] = "mqtt_start" => httpd # "off"

\* Some mode is up but while a task changes it, and an access point has a server.
ModeInv ==
    /\ \A t \in Tasks : pc[t] = "sta_wait" => sta_netif
    /\ pc["loop"] \in {"http_start", "mqtt_start"} => sta_netif \/ ap_netif
    /\ pc["main"] \notin ConnectLabels \cup {"boot"} /\ pc["loop"] \in Quiet
         => sta_netif \/ ap_netif
    /\ pc["main"] \in Serving /\ pc["loop"] \in Quiet /\ ap_netif => httpd # "off"

\* The event precedes the bit, and second_loop, which waits for the bit, is the
\* one that would receive the event.
FailInv ==
    /\ pc["main"] \notin BeforeRegister => registered
    /\ \A t \in Tasks : pc[t] \in {"sta_register", "sta_start"} => mode = "off"
    /\ \A t \in Tasks : pc[t] = "sta_register" => ~sta_handlers /\ bits = {}
    /\ pc["loop"] \in {"sta_register", "sta_start", "sta_wait"}
         /\ (sysEvt = "setbits" \/ "FAIL" \in bits) => Announced
    /\ pc["main"] \in Serving /\ pc["loop"] \in {"idle", "set_uri"}
         /\ mode = "sta" /\ httpd = "off" => Announced

\* init_sta is the callback that connects; one that starts the server and then
\* returns has started the access point.  A station at rest without its client is
\* on its way to another mode.
ClientInv ==
    /\ pc["loop"] \in StaLabels => job = "init_sta"
    /\ pc["loop"] = "http_start" /\ job # "init_sta" => ap_netif
    /\ pc["main"] = "done" /\ pc["loop"] \in {"idle", "set_uri"}
         /\ panic = "none" /\ mode = "sta" /\ ~Running => Announced

-----------------------------------------------------------------------------
(* Steps that leave the server running or stopped. *)

\* Only the two tasks start and stop the server.
LEMMA OthersKeepServer ==
  ASSUME SysEvtStep \/ IdleStep \/ RequestArrives \/ HttpStep \/ MqttTaskStep
           \/ DriverStep
  PROVE  server' = server /\ (httpd' = "off" <=> httpd = "off")
<1>1. CASE SysEvtStep
  BY <1>1 DEF SysEvtStep, StaEvent, StaEventPanics, StaPost, ApEvent,
       UnhandledEvent, Panic, httpVars
<1>2. CASE IdleStep \/ MqttTaskStep \/ DriverStep
  BY <1>2 DEF IdleStep, MqttTaskStep, DriverStep, httpVars
<1>3. CASE RequestArrives
  BY <1>3, RequestsAssumption DEF RequestArrives, HandlerStarts, FirstStep, Posting
<1>4. CASE HttpStep
  BY <1>4 DEF HttpStep, HandlerStep, UploadAborts, Panic, httpVars, HandlerPosts,
       OptionsWritten, UploadEnds, HandlerReplies, Finish
<1> QED
  BY <1>1, <1>2, <1>3, <1>4

\* Every step of main but aug_http_start, and every step of second_loop but
\* httpd_stop and aug_http_start, leaves the server alone.
LEMMA TasksKeepServer ==
  ASSUME MainStep \/ LoopStep
  PROVE  \/ UNCHANGED httpVars
         \/ \E t \in Tasks : HttpStartStep(t)
         \/ HttpStopStep
<1>1. ASSUME NEW t \in Tasks, ConnectStep(t)
      PROVE  UNCHANGED httpVars \/ HttpStartStep(t)
  BY <1>1 DEF ConnectStep, StaCreateStep, StaRegisterStep, StaStartStep,
       StaRejected, StaWaitStep, ApResetStep, ApScanStep, ApCreateStep,
       ApRegisterStep, ApStartStep, MqttStartStep, MqttStartFails, Panic
<1>2. CASE Boot \/ RegisterStep \/ SensorsStep \/ MqttInitStep
  BY <1>2 DEF Boot, RegisterStep, SensorsStep, MqttInitStep, Panic
<1>3. CASE \/ EventLost \/ CallbackStarts \/ SetUriStep \/ MqttStopStep
           \/ HttpStopStep \/ StaForgetStep \/ StaUnregisterStep
           \/ StaReleaseStep \/ ApZeroStep \/ ApDeleteTaskStep
           \/ ApUnregisterStep \/ ApReleaseStep \/ WriteNvsStep
  BY <1>3 DEF EventLost, CallbackStarts, SetUriStep, MqttStopStep,
       StaForgetStep, StaUnregisterStep, StaReleaseStep, ApZeroStep,
       ApDeleteTaskStep, ApUnregisterStep, ApReleaseStep, WriteNvsStep, Panic
<1> QED
  BY <1>1, <1>2, <1>3 DEF MainStep, LoopStep, Tasks

-----------------------------------------------------------------------------
(* The invariants are inductive. *)

\* A callback that stops the server goes on without one until it starts it again;
\* main can only interfere while the callback is marked early.
LEMMA ServerStep ==
  ASSUME TypeOK, HandlersKnow, TurnsTaken, ServerInv, Next
  PROVE  ServerInv'
<1> USE DEF ServerInv, TypeOK, TaskTypeOK, HandlersKnow,
         TurnsTaken, Tasks, MainLabels, LoopLabels, BeforeRegister, ConnectLabels,
         StaLabels, ApLabels, StopLabels, ApStopping, Down, At, Go, Return,
         httpVars, taskVars
<1>1. ASSUME NEW t \in Tasks,
             StaCreateStep(t) \/ StaRegisterStep(t) \/ StaStartStep(t)
               \/ StaRejected(t) \/ StaWaitStep(t)
      PROVE  ServerInv'
  BY <1>1 DEF StaCreateStep, StaRegisterStep, StaStartStep, StaRejected,
       StaWaitStep, AfterConnect
<1>2. ASSUME NEW t \in Tasks,
             ApResetStep(t) \/ ApScanStep(t) \/ ApCreateStep(t)
               \/ ApRegisterStep(t) \/ ApStartStep(t)
      PROVE  ServerInv'
  BY <1>2 DEF ApResetStep, ApScanStep, ApCreateStep, ApRegisterStep, ApStartStep,
       AfterConnect
<1>3. ASSUME NEW t \in Tasks,
             HttpStartStep(t) \/ MqttStartStep(t) \/ MqttStartFails(t)
      PROVE  ServerInv'
  BY <1>3 DEF HttpStartStep, HttpStart, MqttStartStep, MqttStartFails, Panic
<1>4. CASE Boot \/ RegisterStep \/ SensorsStep \/ MqttInitStep
  BY <1>4 DEF Boot, RegisterStep, SensorsStep, MqttInitStep, Panic
<1>5. CASE EventLost \/ CallbackStarts \/ SetUriStep \/ MqttStopStep
  <2>1. CASE EventLost \/ SetUriStep \/ MqttStopStep
    BY <2>1 DEF EventLost, SetUriStep, MqttStopStep, Panic
  <2>2. CASE CallbackStarts
    <3>1. PICK event \in Events :
            /\ early' = (pc["main"] # "done")
            /\ pc' = [pc EXCEPT !["loop"] =
                        IF event = "INIT_MQTT" THEN "set_uri" ELSE "mqtt_stop"]
      BY <2>2 DEF CallbackStarts
    <3>2. ~early' => pc["main"] = "done"
      BY <3>1, Zenon
    <3> QED
      BY <2>2, <3>1, <3>2 DEF CallbackStarts
  <2> QED
    BY <1>5, <2>1, <2>2
<1>6. CASE HttpStopStep
  BY <1>6 DEF HttpStopStep, HttpStop, AfterHttp, AfterSta, Stopped
<1>7. CASE StaForgetStep \/ StaUnregisterStep \/ StaReleaseStep
  BY <1>7 DEF StaForgetStep, StaUnregisterStep, StaReleaseStep, AfterSta, Stopped
<1>8. CASE \/ ApZeroStep \/ ApDeleteTaskStep \/ ApUnregisterStep \/ ApReleaseStep
           \/ WriteNvsStep
  BY <1>8 DEF ApZeroStep, ApDeleteTaskStep, ApUnregisterStep, ApReleaseStep,
       Stopped, WriteNvsStep
<1>9. CASE SysEvtStep \/ IdleStep \/ RequestArrives \/ HttpStep \/ MqttTaskStep
             \/ DriverStep
  BY <1>9, OthersKeepModes, OthersKeepServer
<1>10. CASE Reboot
  BY <1>10 DEF Reboot, BootPc
<1> QED
  BY <1>1, <1>2, <1>3, <1>4, <1>5, <1>6, <1>7, <1>8, <1>9, <1>10
  DEF Next, MainStep, LoopStep, ConnectStep

\* A mode goes down only on the way to another one or to the restart.
LEMMA ModeInvStep ==
  ASSUME IInv, ServerInv, ModeInv, Next
  PROVE  ModeInv'
<1> USE DEF ServerInv, ModeInv, IInv, TypeOK, TaskTypeOK, HandlersKnow, TurnsTaken,
         ModeAt, ModesExclusive, Tasks, MainLabels, LoopLabels, BeforeRegister,
         ConnectLabels, StaLabels, ApLabels, StopLabels, ApStopping, Serving,
         Quiet, At, Go, Return, staVars, apVars, httpVars, taskVars
<1>1. ASSUME NEW t \in Tasks,
             StaCreateStep(t) \/ StaRegisterStep(t) \/ StaStartStep(t)
               \/ StaRejected(t) \/ StaWaitStep(t)
      PROVE  ModeInv'
  BY <1>1 DEF StaCreateStep, StaRegisterStep, StaStartStep, StaRejected,
       StaWaitStep, AfterConnect, StaCreate, StaRegister,
       StaStart
<1>2. ASSUME NEW t \in Tasks,
             ApResetStep(t) \/ ApScanStep(t) \/ ApCreateStep(t)
               \/ ApRegisterStep(t) \/ ApStartStep(t)
      PROVE  ModeInv'
  BY <1>2 DEF ApResetStep, ApScanStep, ApCreateStep, ApRegisterStep, ApStartStep,
       AfterConnect, ApReset, ApCreate, ApRegister, ApStart
<1>3. ASSUME NEW t \in Tasks,
             HttpStartStep(t) \/ MqttStartStep(t) \/ MqttStartFails(t)
      PROVE  ModeInv'
  BY <1>3 DEF HttpStartStep, HttpStart, MqttStartStep, MqttStartFails, Panic
<1>4. CASE Boot \/ RegisterStep \/ SensorsStep \/ MqttInitStep
  BY <1>4 DEF Boot, RegisterStep, SensorsStep, MqttInitStep, Panic
<1>5. CASE EventLost \/ CallbackStarts \/ SetUriStep \/ MqttStopStep
  BY <1>5 DEF EventLost, CallbackStarts, SetUriStep, MqttStopStep, Panic
<1>6. CASE HttpStopStep
  BY <1>6 DEF HttpStopStep, HttpStop, AfterHttp, AfterSta, Stopped
<1>7. CASE StaForgetStep \/ StaUnregisterStep \/ StaReleaseStep
  BY <1>7 DEF StaForgetStep, StaUnregisterStep, StaReleaseStep, AfterSta, Stopped,
       StaForgetLoop, StaUnregister, StaRelease
<1>8. CASE \/ ApZeroStep \/ ApDeleteTaskStep \/ ApUnregisterStep \/ ApReleaseStep
           \/ WriteNvsStep
  BY <1>8 DEF ApZeroStep, ApDeleteTaskStep, ApUnregisterStep, ApReleaseStep,
       Stopped, WriteNvsStep, ApZero, ApDeleteIdleTask, ApUnregister,
       ApRelease
<1>9. CASE SysEvtStep \/ IdleStep \/ RequestArrives \/ HttpStep \/ MqttTaskStep
             \/ DriverStep
  BY <1>9, OthersKeepModes, OthersKeepServer
<1>10. CASE Reboot
  BY <1>10 DEF Reboot, BootPc
<1> QED
  BY <1>1, <1>2, <1>3, <1>4, <1>5, <1>6, <1>7, <1>8, <1>9, <1>10
  DEF Next, MainStep, LoopStep, ConnectStep

\* An event posted stays announced: a post appends to the queue.
LEMMA PostKeepsAnnounced ==
  ASSUME LoopTypeOK, NEW event, Post(event)
  PROVE  /\ Announced => Announced'
         /\ event = "FAILED_ATTEMPTS" => Announced'
<1> USE DEF LoopTypeOK, Post, Announced
<1>1. Len(queue') = Len(queue) + 1
  OBVIOUS
<1>2. \A n \in 1..Len(queue) : queue'[n] = queue[n]
  OBVIOUS
<1>3. queue'[Len(queue) + 1] = event
  OBVIOUS
<1>4. Announced => Announced'
  BY <1>1, <1>2
<1>5. event = "FAILED_ATTEMPTS" => Announced'
  <2>1. Len(queue) + 1 \in 1..Len(queue')
    BY <1>1
  <2> QED
    BY <1>3, <2>1
<1> QED
  BY <1>4, <1>5

\* When second_loop receives another event, FAILED_ATTEMPTS stays in the queue.
LEMMA ReceiveKeepsAnnounced ==
  ASSUME LoopTypeOK, NEW event, Receive(event), Announced
  PROVE  event = "FAILED_ATTEMPTS" \/ Announced'
<1> USE DEF LoopTypeOK, Receive, Announced
<1>1. PICK n \in 1..Len(queue) : queue[n] = "FAILED_ATTEMPTS"
  OBVIOUS
<1>2. CASE n = 1
  BY <1>1, <1>2
<1>3. CASE n > 1
  <2>1. n - 1 \in 1..Len(queue') /\ queue'[n - 1] = queue[n]
    BY <1>3
  <2> QED
    BY <1>1, <2>1
<1> QED
  BY <1>2, <1>3

\* The other tasks keep the event too; sys_evt posts it before it sets the bit.
LEMMA OthersAnnounce ==
  ASSUME LoopTypeOK, SysEvtStep \/ IdleStep \/ RequestArrives \/ HttpStep
                       \/ MqttTaskStep \/ DriverStep
  PROVE  /\ Announced => Announced'
         /\ sysEvt' = "setbits" /\ sysEvt # "setbits" => Announced'
         /\ "FAIL" \in bits' => "FAIL" \in bits \/ sysEvt = "setbits"
         /\ registered' = registered
         /\ bits' # bits => sta_handlers \/ sysEvt # "idle"
<1> USE DEF driverVars, staVars
<1>1. CASE StaPost
  BY <1>1, PostKeepsAnnounced DEF StaPost, PostFailedAttempts, Post
<1>2. CASE StaEvent
  <2>1. UNCHANGED <<queue, registered>>
    BY <1>2 DEF StaEvent, loopVars
  <2>2. CASE OnStaStart \/ OnDisconnectedRetry \/ OnGotIp
    BY <2>1, <2>2 DEF OnStaStart, OnDisconnectedRetry, OnGotIp, Announced
  <2>3. CASE OnDisconnectedGiveUp \/ SetFailBit
    BY <2>1, <2>3 DEF OnDisconnectedGiveUp, SetFailBit, Announced
  <2> QED
    BY <1>2, <2>2, <2>3 DEF StaEvent
<1>3. CASE StaEventPanics \/ ApEvent \/ UnhandledEvent
  BY <1>3 DEF StaEventPanics, Panic, ApEvent, OnStationEvent, UnhandledEvent,
       loopVars, Announced
<1>4. CASE IdleStep
  BY <1>4, PostKeepsAnnounced DEF IdleStep, PostIdle, Post, loopVars,
       Announced
<1>5. CASE HttpStep
  BY <1>5, PostKeepsAnnounced DEF HttpStep, HandlerStep, UploadAborts, Panic,
       HandlerPosts, Post, loopVars, Announced
<1>6. CASE RequestArrives \/ MqttTaskStep
  BY <1>6 DEF RequestArrives, MqttTaskStep, loopVars, Announced
<1>7. CASE DriverStep
  BY <1>7 DEF DriverStep, LinkUp, LinkDown, ClientJoins, ClientLeaves, loopVars,
       Announced
<1> QED
  BY <1>1, <1>2, <1>3, <1>4, <1>5, <1>6, <1>7 DEF SysEvtStep

\* The other tasks leave the mode of the driver alone.
LEMMA FailInvOthers ==
  ASSUME IInv, FailInv,
         SysEvtStep \/ IdleStep \/ RequestArrives \/ HttpStep \/ MqttTaskStep
           \/ DriverStep
  PROVE  FailInv'
<1>1. LoopTypeOK /\ (sysEvt # "idle" => sta_handlers)
  BY DEF IInv, TypeOK, Owners
<1>2. UNCHANGED <<pc, mode, sta_handlers>>
  BY OthersKeepModes DEF taskVars
<1>3. /\ \A t \in Tasks : pc'[t] \in {"sta_register", "sta_start"} => mode' = "off"
      /\ \A t \in Tasks : pc'[t] = "sta_register" => ~sta_handlers' /\ bits' = {}
  BY <1>1, <1>2, OthersAnnounce DEF FailInv
<1>4. pc'["loop"] \in {"sta_register", "sta_start", "sta_wait"}
        /\ (sysEvt' = "setbits" \/ "FAIL" \in bits') => Announced'
  BY <1>1, <1>2, OthersAnnounce DEF FailInv
<1>5. pc'["main"] \in Serving /\ pc'["loop"] \in {"idle", "set_uri"}
        /\ mode' = "sta" /\ httpd' = "off" => Announced'
  BY <1>1, <1>2, OthersAnnounce, OthersKeepServer DEF FailInv
<1>6. pc'["main"] \notin BeforeRegister => registered'
  BY <1>1, <1>2, OthersAnnounce DEF FailInv
<1> QED
  BY <1>3, <1>4, <1>5, <1>6 DEF FailInv

\* second_loop cannot receive the event while it waits for the bit, and leaves
\* idle when it does receive it.
LEMMA FailInvStep ==
  ASSUME IInv, ServerInv, ModeInv, FailInv, Next
  PROVE  FailInv'
<1> USE DEF ServerInv, FailInv, IInv, TypeOK, TaskTypeOK, DriverTypeOK, StaTypeOK,
         HandlersKnow, TurnsTaken, ModeAt, Owners, Tasks, MainLabels, LoopLabels,
         BeforeRegister, ConnectLabels, StaLabels, ApLabels, StopLabels,
         ApStopping, Serving, At, Go, Return, driverVars, staVars, httpVars,
         taskVars, loopVars
<1>1. ASSUME NEW t \in Tasks,
             StaCreateStep(t) \/ StaRegisterStep(t) \/ StaStartStep(t)
               \/ StaRejected(t) \/ StaWaitStep(t)
      PROVE  FailInv'
  <2>1. Announced' <=> Announced
    BY <1>1 DEF StaCreateStep, StaRegisterStep, StaStartStep, StaRejected,
         StaWaitStep, Announced
  <2>2. CASE StaCreateStep(t) \/ StaRegisterStep(t)
    BY <2>1, <2>2 DEF StaCreateStep, StaCreate, StaRegisterStep, StaRegister
  <2>3. CASE StaStartStep(t)
    BY <2>1, <2>3 DEF StaStartStep, StaStart, StartStation
  <2>4. CASE StaRejected(t)
    BY <2>1, <2>4 DEF StaRejected, AfterConnect
  <2>5. CASE StaWaitStep(t)
    <3>1. UNCHANGED <<registered, mode, sta_handlers, bits, sysEvt, httpd>>
      BY <2>5 DEF StaWaitStep
    <3>2. CASE t = "main"
      <4>1. pc' = [pc EXCEPT !["main"] = "register"]
        BY <2>5, <3>2 DEF StaWaitStep, AfterConnect
      <4> QED
        BY <2>1, <3>1, <4>1
    <3>3. CASE t = "loop"
      <4>1. /\ pc["loop"] = "sta_wait"
            /\ pc'["main"] = pc["main"]
            /\ pc'["loop"] \in {"http_start", "idle"}
        BY <2>5, <3>3 DEF StaWaitStep, AfterConnect
      <4>2. pc'["loop"] = "idle" => "FAIL" \in bits
        BY <2>5, <3>3 DEF StaWaitStep, StaWaitDone, StaConnectOK, AfterConnect
      <4> QED
        BY <2>1, <3>1, <4>1, <4>2
    <3> QED
      BY <2>5, <3>2, <3>3 DEF StaWaitStep, AfterConnect
  <2> QED
    BY <1>1, <2>2, <2>3, <2>4, <2>5
<1>2. ASSUME NEW t \in Tasks,
             ApResetStep(t) \/ ApScanStep(t) \/ ApCreateStep(t)
               \/ ApRegisterStep(t) \/ ApStartStep(t)
      PROVE  FailInv'
  BY <1>2 DEF ApResetStep, ApScanStep, ApCreateStep, ApRegisterStep, ApStartStep,
       ApStart, StartAccessPoint, AfterConnect, Announced
<1>3. ASSUME NEW t \in Tasks,
             HttpStartStep(t) \/ MqttStartStep(t) \/ MqttStartFails(t)
      PROVE  FailInv'
  BY <1>3 DEF HttpStartStep, HttpStart, MqttStartStep, MqttStartFails, Panic,
       Announced
<1>4. CASE Boot \/ RegisterStep \/ SensorsStep \/ MqttInitStep
  BY <1>4 DEF Boot, RegisterStep, RegisterEvents, SensorsStep, MqttInitStep,
       Panic, Announced
<1>5. CASE EventLost \/ CallbackStarts
  <2>1. CASE EventLost
    BY <2>1 DEF EventLost, Receive
  <2>2. CASE CallbackStarts
    <3>1. PICK event \in Events :
            /\ Receive(event)
            /\ pc' = [pc EXCEPT !["loop"] =
                        IF event = "INIT_MQTT" THEN "set_uri" ELSE "mqtt_stop"]
      BY <2>2 DEF CallbackStarts
    <3>2. event = "INIT_MQTT" /\ Announced => Announced'
      BY <3>1, ReceiveKeepsAnnounced
    <3>3. /\ UNCHANGED <<mode, sta_handlers, bits, sysEvt, httpd, registered>>
          /\ pc["loop"] = "idle"
      BY <2>2 DEF CallbackStarts, Receive
    <3> QED
      BY <3>1, <3>2, <3>3
  <2> QED
    BY <1>5, <2>1, <2>2
<1>6. CASE SetUriStep \/ MqttStopStep
  BY <1>6 DEF SetUriStep, MqttStopStep, Panic, Announced
<1>7. CASE HttpStopStep
  BY <1>7 DEF HttpStopStep, AfterHttp, AfterSta, Stopped, Announced
<1>8. CASE StaForgetStep \/ StaUnregisterStep \/ StaReleaseStep
  BY <1>8 DEF StaForgetStep, StaForgetLoop, StaUnregisterStep, StaUnregister,
       StaReleaseStep, StaRelease, StopDriver, AfterSta, Stopped, Announced
<1>9. CASE \/ ApZeroStep \/ ApDeleteTaskStep \/ ApUnregisterStep \/ ApReleaseStep
           \/ WriteNvsStep
  BY <1>9 DEF ApZeroStep, ApDeleteTaskStep, ApUnregisterStep, ApReleaseStep,
       ApRelease, StopDriver, Stopped, WriteNvsStep, Announced
<1>10. CASE SysEvtStep \/ IdleStep \/ RequestArrives \/ HttpStep \/ MqttTaskStep
              \/ DriverStep
  BY <1>10, FailInvOthers
<1>11. CASE Reboot
  BY <1>11 DEF Reboot, BootPc
<1> QED
  BY <1>1, <1>2, <1>3, <1>4, <1>5, <1>6, <1>7, <1>8, <1>9, <1>10, <1>11
  DEF Next, MainStep, LoopStep, ConnectStep

\* The MQTT client's task and requests leave a running client running.
LEMMA OthersKeepRunning ==
  ASSUME SysEvtStep \/ IdleStep \/ RequestArrives \/ HttpStep \/ MqttTaskStep
           \/ DriverStep
  PROVE  Running => Running'
<1>1. CASE MqttTaskStep
  BY <1>1 DEF MqttTaskStep, MqttConnected, MqttDisconnected, Running
<1>2. CASE SysEvtStep
  BY <1>2 DEF SysEvtStep, StaEvent, StaEventPanics, StaPost, ApEvent,
       UnhandledEvent, Panic, mqttVars, Running
<1>3. CASE IdleStep \/ RequestArrives \/ HttpStep \/ DriverStep
  BY <1>3 DEF IdleStep, RequestArrives, HttpStep, HandlerStep, UploadAborts, Panic,
       DriverStep, mqttVars, Running
<1> QED
  BY <1>1, <1>2, <1>3

\* A callback that leaves the station's mode up without the client has failed to
\* connect, and then the event that ends this mode is queued (FailInv).
LEMMA ClientStep ==
  ASSUME IInv, FailInv, ClientInv, Next
  PROVE  ClientInv'
<1> USE DEF FailInv, ClientInv, IInv, TypeOK, TaskTypeOK, DriverTypeOK, StaTypeOK,
         HandlersKnow, TurnsTaken, ModeAt, ModesExclusive, Owners, Tasks,
         MainLabels, LoopLabels, BeforeRegister, ConnectLabels, StaLabels,
         ApLabels, StopLabels, ApStopping, Serving, At, Go, Return, driverVars,
         staVars, apVars, mqttVars, taskVars, loopVars
<1>1. ASSUME NEW t \in Tasks,
             StaCreateStep(t) \/ StaRegisterStep(t) \/ StaStartStep(t)
               \/ StaRejected(t) \/ StaWaitStep(t)
      PROVE  ClientInv'
  <2>1. (Announced' <=> Announced) /\ (Running' <=> Running)
    BY <1>1 DEF StaCreateStep, StaRegisterStep, StaStartStep, StaRejected,
         StaWaitStep, Announced, Running
  <2>2. CASE StaCreateStep(t) \/ StaRegisterStep(t) \/ StaStartStep(t)
    BY <2>1, <2>2 DEF StaCreateStep, StaCreate, StaRegisterStep, StaRegister,
         StaStartStep, StaStart, StartStation
  <2>3. CASE StaRejected(t)
    BY <2>1, <2>3 DEF StaRejected, AfterConnect
  <2>4. CASE StaWaitStep(t)
    <3>1. UNCHANGED <<registered, mode, sta_handlers, ap_netif, bits, sysEvt>>
      BY <2>4 DEF StaWaitStep, apVars
    <3>2. CASE t = "main"
      <4>1. pc' = [pc EXCEPT !["main"] = "register"] /\ job' = job
        BY <2>4, <3>2 DEF StaWaitStep, AfterConnect
      <4> QED
        BY <2>1, <3>1, <4>1
    <3>3. CASE t = "loop"
      <4>1. /\ pc["loop"] = "sta_wait"
            /\ pc'["main"] = pc["main"]
            /\ \/ pc'["loop"] = "http_start" /\ job' = job
               \/ pc'["loop"] = "idle"
        BY <2>4, <3>3 DEF StaWaitStep, AfterConnect
      <4>2. pc'["loop"] = "idle" => "FAIL" \in bits
        BY <2>4, <3>3 DEF StaWaitStep, StaWaitDone, StaConnectOK, AfterConnect
      <4> QED
        BY <2>1, <3>1, <4>1, <4>2
    <3> QED
      BY <2>4, <3>2, <3>3
  <2> QED
    BY <1>1, <2>2, <2>3, <2>4
<1>2. ASSUME NEW t \in Tasks,
             ApResetStep(t) \/ ApScanStep(t) \/ ApCreateStep(t)
               \/ ApRegisterStep(t) \/ ApStartStep(t)
      PROVE  ClientInv'
  BY <1>2 DEF ApResetStep, ApScanStep, ApCreateStep, ApRegisterStep, ApStartStep,
       ApReset, ApCreate, ApRegister, ApStart, StartAccessPoint, AfterConnect,
       Announced, Running
<1>3. ASSUME NEW t \in Tasks, HttpStartStep(t)
      PROVE  ClientInv'
  BY <1>3 DEF HttpStartStep, Announced, Running
<1>4. ASSUME NEW t \in Tasks, MqttStartStep(t) \/ MqttStartFails(t)
      PROVE  ClientInv'
  BY <1>4 DEF MqttStartStep, MqttStart, MqttStartFails, Panic, Announced, Running
<1>5. CASE Boot \/ RegisterStep \/ SensorsStep \/ MqttInitStep
  BY <1>5 DEF Boot, RegisterStep, RegisterEvents, SensorsStep, MqttInitStep,
       Panic, Announced, Running
<1>6. CASE EventLost
  BY <1>6 DEF EventLost
<1>7. CASE CallbackStarts
  <2>1. PICK event \in Events :
          /\ Receive(event)
          /\ pc' = [pc EXCEPT !["loop"] =
                      IF event = "INIT_MQTT" THEN "set_uri" ELSE "mqtt_stop"]
    BY <1>7 DEF CallbackStarts
  <2>2. event = "INIT_MQTT" /\ Announced => Announced'
    BY <2>1, ReceiveKeepsAnnounced
  <2>3. UNCHANGED <<mode, client, panic>> /\ pc["loop"] = "idle"
    BY <1>7 DEF CallbackStarts
  <2> QED
    BY <2>1, <2>2, <2>3 DEF Running
<1>8. CASE SetUriStep \/ MqttStopStep
  BY <1>8 DEF SetUriStep, MqttSetUri, MqttStopStep, Panic, Announced, Running
<1>9. CASE HttpStopStep
  BY <1>9 DEF HttpStopStep, AfterHttp, AfterSta, Stopped
<1>10. CASE StaForgetStep \/ StaUnregisterStep \/ StaReleaseStep
  BY <1>10 DEF StaForgetStep, StaUnregisterStep, StaReleaseStep, AfterSta, Stopped
<1>11. CASE \/ ApZeroStep \/ ApDeleteTaskStep \/ ApUnregisterStep \/ ApReleaseStep
            \/ WriteNvsStep
  BY <1>11 DEF ApZeroStep, ApDeleteTaskStep, ApUnregisterStep, ApReleaseStep,
       Stopped, WriteNvsStep
<1>12. CASE SysEvtStep \/ IdleStep \/ RequestArrives \/ HttpStep \/ MqttTaskStep
              \/ DriverStep
  <2>1. panic = "none"
    BY <1>12 DEF SysEvtStep, StaEvent, StaEventPanics, StaPost, ApEvent,
         UnhandledEvent, IdleStep, RequestArrives, HttpStep, MqttTaskStep,
         DriverStep, Alive
  <2> QED
    BY <1>12, <2>1, OthersKeepModes, OthersAnnounce, OthersKeepRunning
<1>13. CASE Reboot
  BY <1>13 DEF Reboot, BootPc
<1> QED
  BY <1>1, <1>2, <1>3, <1>4, <1>5, <1>6, <1>7, <1>8, <1>9, <1>10, <1>11, <1>12,
     <1>13
  DEF Next, MainStep, LoopStep, ConnectStep

-----------------------------------------------------------------------------
(* The theorems. *)

ServiceInv == ServerInv /\ ModeInv /\ FailInv /\ ClientInv

\* The four invariants hold initially: nothing runs.
LEMMA InitService == Init => ServiceInv
<1> SUFFICES ASSUME Init PROVE ServiceInv
  OBVIOUS
<1> USE DEF Init, RamInit, BootPc, Tasks
<1>1. ServerInv
  BY DEF ServerInv, HttpInit, Down, ConnectLabels, StaLabels,
       ApLabels, ApStopping
<1>2. ModeInv
  BY DEF ModeInv, Serving
<1>3. FailInv
  BY DEF FailInv, Serving, LoopInit, BeforeRegister
<1>4. ClientInv
  BY DEF ClientInv, StaLabels
<1> QED
  BY <1>1, <1>2, <1>3, <1>4 DEF ServiceInv

\* ServiceInv is an invariant.
THEOREM ServiceInvariance == Spec => []ServiceInv
<1>1. IInv /\ ServiceInv /\ [Next]_vars => ServiceInv'
  <2> SUFFICES ASSUME IInv, ServiceInv, [Next]_vars PROVE ServiceInv'
    OBVIOUS
  <2>1. CASE Next
    BY <2>1, ServerStep, ModeInvStep, FailInvStep, ClientStep
    DEF ServiceInv, IInv
  <2>2. CASE UNCHANGED vars
    <3> USE <2>2 DEF vars, loopVars, driverVars, staVars, apVars, mqttVars,
             httpVars, taskVars, ServiceInv
    <3>1. ServerInv' /\ ModeInv'
      BY DEF ServerInv, ModeInv
    <3>2. FailInv'
      BY DEF FailInv, Announced
    <3>3. ClientInv'
      BY DEF ClientInv, Announced, Running
    <3> QED
      BY <3>1, <3>2, <3>3
  <2> QED
    BY <2>1, <2>2
<1> QED
  BY InitService, <1>1, Invariance, PTL DEF Spec

\* Whenever second_loop rests, a booted device is in exactly one mode: no callback
\* leaves it in none, however it ended.
THEOREM AlwaysInOneMode == Spec => []OneModeAtRest
<1>1. IInv /\ ServiceInv => OneModeAtRest
  BY DEF IInv, TypeOK, StaTypeOK, ApTypeOK, ModesExclusive, ServiceInv, ModeInv,
       OneModeAtRest, Booted, Resting, Quiet, ConnectLabels, StaLabels, ApLabels
<1> QED
  BY Invariance, ServiceInvariance, <1>1, PTL

\* Both halves of it: never two modes, and at rest never none.
THEOREM AlwaysOneMode == Spec => []OneMode
<1>1. ModesExclusive /\ OneModeAtRest => OneMode
  BY DEF OneMode
<1> QED
  BY ModesNeverOverlap, AlwaysInOneMode, <1>1, PTL

\* An access point at rest has its server running.
THEOREM AccessPointAlwaysServes == Spec => []AccessPointServes
<1>1. ServiceInv => AccessPointServes
  BY DEF ServiceInv, ServerInv, ModeInv, AccessPointServes,
       Booted, Resting, Quiet, Serving
<1> QED
  BY ServiceInvariance, <1>1, PTL

\* The handler that asked for a restart has answered when the device gets there.
THEOREM RestartAlwaysAnswered == Spec => []RestartAnswered
<1>1. ServiceInv => RestartAnswered
  BY DEF ServiceInv, ServerInv, RestartAnswered, Booted, Down
<1> QED
  BY ServiceInvariance, <1>1, PTL

\* No handler writes a configuration while second_loop connects with it or saves
\* it, although nothing but the order of deinit_modules keeps them apart.
THEOREM ConfigurationReadAlone == Spec => []ConfigReadAlone
<1>1. ServiceInv => ConfigReadAlone
  BY DEF ServiceInv, ServerInv, ConfigReadAlone, Booted, Down, ConnectLabels
<1> QED
  BY ServiceInvariance, <1>1, PTL

\* A station that gave up, and has no server to be asked over, has FAILED_ATTEMPTS
\* queued: the device becomes an access point again.
THEOREM FailedStationAnnounced == Spec => []FailedStationRecovers
<1>1. ServiceInv => FailedStationRecovers
  BY DEF ServiceInv, FailInv, FailedStationRecovers, Booted, Resting, Serving
<1> QED
  BY ServiceInvariance, <1>1, PTL
=============================================================================
