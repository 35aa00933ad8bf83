---------------------------- MODULE DeviceProofs -----------------------------
(***************************************************************************)
(* The theorems about module Device.  The invariant is IInv; the lemmas    *)
(* prove that every step preserves each of its conjuncts.  Touches says    *)
(* which actions change which component, so that each of the lemmas on     *)
(* types has only those to look at.                                        *)
(***************************************************************************)
EXTENDS DeviceProperties, TLAPS

\* Where aug_wifi_sta.c may rely on event_loop_handle: from its assignment, before
\* the handlers are registered, until aug_wifi_sta_disconnect clears it.
LoopHandle ==
    /\ \A t \in Tasks : pc[t] = "sta_register" => sta_loop
    /\ sta_handlers => sta_loop \/ pc["loop"] = "sta_unregister"
    /\ NullLoopOnlyInTeardown

-----------------------------------------------------------------------------
(* The initial states. *)

\* Every boot starts in the invariant: all modules down, no event registered.
LEMMA InitIInv == Init => IInv
<1> SUFFICES ASSUME Init PROVE IInv
  OBVIOUS
<1> USE DEF Init, RamInit, BootPc, Tasks
<1>1. LoopTypeOK
  <2>1. queue \in Seq(Events) /\ Len(queue) <= QueueSize
    BY QueueSizeAssumption DEF LoopInit
  <2> QED
    BY <2>1 DEF LoopInit, LoopTypeOK
<1>2. DriverTypeOK
  <2>1. clients \in 0..MaxClients
    BY MaxClientsAssumption DEF DriverInit
  <2>2. wifiEvents \in Seq(WifiEvents)
    BY DEF DriverInit
  <2> QED
    BY <2>1, <2>2, Zenon DEF DriverInit, DriverTypeOK
<1>3. StaTypeOK
  <2>1. 0 \in 0..MaxRetry /\ 0 \in 0..(MaxRetry + 1)
    BY MaxRetryAssumption
  <2> QED
    BY <2>1, Zenon DEF StaInit, StaTypeOK
<1>4. ApTypeOK
  <2>1. 0 \in Int
    OBVIOUS
  <2> QED
    BY <2>1, Zenon DEF ApInit, ApTypeOK
<1>5. MqttTypeOK /\ HttpTypeOK
  BY DEF MqttInitState, HttpInit, MqttTypeOK, HttpTypeOK, ClientStates
<1>6. TaskTypeOK
  <2>1. early \in BOOLEAN
    BY Zenon
  <2> QED
    BY <2>1 DEF TaskTypeOK, MainLabels, LoopLabels, ConnectLabels, StaLabels,
         ApLabels, StopLabels, Panics
<1>7. HandlersKnow /\ TurnsTaken
  BY DEF HttpInit, LoopInit, HandlersKnow, TurnsTaken, StopLabels
<1>8. ModeAt /\ ModesExclusive
  BY DEF StaInit, ApInit, ModeAt, ModesExclusive, ApStopping
<1>9. Owners
  BY DEF DriverInit, StaInit, ApInit, Owners
<1> QED
  BY <1>1, <1>2, <1>3, <1>4, <1>5, <1>6, <1>7, <1>8, <1>9 DEF IInv, TypeOK

-----------------------------------------------------------------------------
(* Which actions change which component. *)

\* Each component is changed by its own operations and the reboot only.
LEMMA Touches ==
  ASSUME Next
  PROVE  /\ \/ UNCHANGED loopVars
            \/ RegisterStep \/ EventLost \/ CallbackStarts
            \/ StaPost \/ IdleStep \/ HttpStep \/ Reboot
         /\ \/ UNCHANGED driverVars
            \/ \E t \in Tasks : StaStartStep(t) \/ ApStartStep(t)
            \/ StaReleaseStep \/ ApReleaseStep
            \/ StaEvent \/ StaPost \/ ApEvent \/ UnhandledEvent
            \/ DriverStep \/ Reboot
         /\ \/ UNCHANGED staVars
            \/ \E t \in Tasks : StaCreateStep(t) \/ StaRegisterStep(t)
            \/ StaForgetStep \/ StaUnregisterStep \/ StaReleaseStep
            \/ StaEvent \/ Reboot
         /\ \/ UNCHANGED apVars
            \/ \E t \in Tasks : \/ ApResetStep(t) \/ ApCreateStep(t)
                                \/ ApRegisterStep(t) \/ ApStartStep(t)
            \/ ApZeroStep \/ ApDeleteTaskStep \/ ApUnregisterStep
            \/ ApReleaseStep \/ ApEvent \/ IdleStep \/ Reboot
         /\ \/ UNCHANGED mqttVars
            \/ \E t \in Tasks : MqttStartStep(t)
            \/ MqttInitStep \/ SetUriStep \/ MqttStopStep \/ MqttTaskStep
            \/ Reboot
         /\ \/ UNCHANGED httpVars
            \/ \E t \in Tasks : HttpStartStep(t)
            \/ HttpStopStep \/ RequestArrives \/ HttpStep \/ Reboot
         /\ \/ UNCHANGED <<taskVars, panic, staSaved>>
            \/ MainStep \/ LoopStep \/ StaEventPanics \/ HttpStep \/ Reboot
<1> USE DEF Panic
<1>1. CASE \E t \in Tasks : ConnectStep(t)
  <2>1. PICK t \in Tasks : ConnectStep(t)
    BY <1>1
  <2>2. MainStep \/ LoopStep
    BY <2>1 DEF MainStep, LoopStep, Tasks
  <2>3. CASE \/ StaCreateStep(t) \/ StaRegisterStep(t) \/ StaStartStep(t)
             \/ StaRejected(t) \/ StaWaitStep(t)
    BY <2>2, <2>3 DEF StaCreateStep, StaRegisterStep, StaStartStep, StaStart,
         StaRejected, StaWaitStep
  <2>4. CASE \/ ApResetStep(t) \/ ApScanStep(t) \/ ApCreateStep(t)
             \/ ApRegisterStep(t) \/ ApStartStep(t)
    BY <2>2, <2>4 DEF ApResetStep, ApScanStep, ApCreateStep, ApRegisterStep,
         ApStartStep
  <2>5. CASE HttpStartStep(t) \/ MqttStartStep(t) \/ MqttStartFails(t)
    BY <2>2, <2>5 DEF HttpStartStep, MqttStartStep, MqttStartFails
  <2> QED
    BY <2>1, <2>3, <2>4, <2>5 DEF ConnectStep
<1>2. CASE Boot \/ RegisterStep \/ SensorsStep \/ MqttInitStep
  BY <1>2 DEF MainStep, Boot, RegisterStep, SensorsStep, MqttInitStep
<1>3. CASE \/ EventLost \/ CallbackStarts \/ SetUriStep \/ MqttStopStep
           \/ HttpStopStep \/ StaForgetStep \/ StaUnregisterStep
           \/ StaReleaseStep \/ ApZeroStep \/ ApDeleteTaskStep
           \/ ApUnregisterStep \/ ApReleaseStep \/ WriteNvsStep
  BY <1>3 DEF LoopStep, EventLost, CallbackStarts, SetUriStep, MqttStopStep,
       HttpStopStep, StaForgetStep, StaUnregisterStep, StaReleaseStep,
       ApZeroStep, ApDeleteTaskStep, ApUnregisterStep, ApReleaseStep,
       WriteNvsStep
<1>4. CASE SysEvtStep
  <2>1. CASE StaEvent \/ ApEvent \/ UnhandledEvent
    BY <2>1 DEF StaEvent, ApEvent, UnhandledEvent, KeepTasks
  <2>2. CASE StaPost \/ StaEventPanics
    BY <2>2 DEF StaEventPanics, StaPost, PostFailedAttempts, KeepTasks
  <2> QED
    BY <1>4, <2>1, <2>2 DEF SysEvtStep
<1>5. CASE IdleStep \/ RequestArrives \/ HttpStep \/ MqttTaskStep
           \/ DriverStep \/ Reboot
  BY <1>5 DEF IdleStep, RequestArrives, HttpStep, HandlerStep, UploadAborts,
       MqttTaskStep, DriverStep, KeepTasks
<1> QED
  BY <1>1, <1>2, <1>3, <1>4, <1>5 DEF Next, MainStep, LoopStep, Tasks

-----------------------------------------------------------------------------
(* Type correctness of each component. *)

\* The queue holds events of the firmware, and never more than QueueSize.
LEMMA LoopTypeStep ==
  ASSUME TypeOK, HandlersKnow, Next
  PROVE  LoopTypeOK'
<1> USE QueueSizeAssumption DEF TypeOK, LoopTypeOK, Events
<1>1. CASE UNCHANGED loopVars
  BY <1>1 DEF loopVars
<1>2. CASE RegisterStep
  BY <1>2 DEF RegisterStep, RegisterEvents
<1>3. CASE EventLost \/ CallbackStarts
  BY <1>3 DEF EventLost, CallbackStarts, Receive
<1>4. CASE StaPost
  BY <1>4 DEF StaPost, PostFailedAttempts, Post, CanPost
<1>5. CASE IdleStep
  BY <1>5 DEF IdleStep, PostIdle, Post, CanPost, loopVars
<1>6. CASE HttpStep
  BY <1>6 DEF HttpStep, HandlerStep, UploadAborts, Panic, HandlerPosts, Post,
       CanPost, HandlersKnow, Posting, loopVars
<1>7. CASE Reboot
  <2>1. queue' = <<>> /\ registered' \in BOOLEAN
    BY <1>7, Zenon DEF Reboot
  <2> QED
    BY <2>1
<1> QED
  BY <1>1, <1>2, <1>3, <1>4, <1>5, <1>6, <1>7, Touches

\* The driver's queue holds its events, and its count of stations stays within
\* what the access point accepts.
LEMMA DriverTypeStep ==
  ASSUME TypeOK, Next
  PROVE  DriverTypeOK'
<1> USE MaxClientsAssumption DEF TypeOK, DriverTypeOK, WifiEvents
<1>1. CASE UNCHANGED driverVars
  BY <1>1 DEF driverVars
<1>2. ASSUME NEW t \in Tasks, StaStartStep(t) PROVE DriverTypeOK'
  BY <1>2 DEF StaStartStep, StaStart, StartStation, Raise
<1>3. ASSUME NEW t \in Tasks, ApStartStep(t) PROVE DriverTypeOK'
  BY <1>3 DEF ApStartStep, ApStart, StartAccessPoint
<1>4. CASE StaReleaseStep \/ ApReleaseStep
  <2>1. StopDriver
    BY <1>4 DEF StaReleaseStep, StaRelease, ApReleaseStep, ApRelease
  <2>2. refused' \in BOOLEAN
    BY <2>1, Zenon DEF StopDriver
  <2> QED
    BY <2>1, <2>2 DEF StopDriver
<1>5. CASE StaEvent
  <2>1. CASE OnStaStart \/ OnDisconnectedRetry
    <3>1. refused' \in BOOLEAN
      BY <2>1, Zenon DEF OnStaStart, OnDisconnectedRetry, Connect
    <3> QED
      BY <2>1, <3>1 DEF OnStaStart, OnDisconnectedRetry, Dispatch, Connect
  <2>2. CASE OnDisconnectedGiveUp \/ SetFailBit \/ OnGotIp
    BY <2>2 DEF OnDisconnectedGiveUp, SetFailBit, OnGotIp, Dispatch
  <2> QED
    BY <1>5, <2>1, <2>2 DEF StaEvent
<1>6. CASE StaPost \/ ApEvent \/ UnhandledEvent
  BY <1>6 DEF StaPost, PostFailedAttempts, ApEvent, OnStationEvent,
       UnhandledEvent, Dispatch
<1>7. CASE DriverStep
  <2>1. CASE LinkUp \/ LinkDown
    BY <2>1 DEF LinkUp, LinkDown, Raise
  <2>2. CASE ClientJoins
    BY <2>2 DEF ClientJoins, Raise
  <2>3. CASE ClientLeaves
    BY <2>3 DEF ClientLeaves, Raise
  <2> QED
    BY <1>7, <2>1, <2>2, <2>3 DEF DriverStep
<1>8. CASE Reboot
  <2>1. refused' \in BOOLEAN
    BY <1>8, Zenon DEF Reboot
  <2> QED
    BY <1>8, <2>1 DEF Reboot
<1> QED
  BY <1>1, <1>2, <1>3, <1>4, <1>5, <1>6, <1>7, <1>8, Touches

\* The retry counter never passes MaxRetry, whatever the order of the events.
LEMMA StaTypeStep ==
  ASSUME TypeOK, Next
  PROVE  StaTypeOK'
<1> USE MaxRetryAssumption DEF TypeOK, StaTypeOK
<1>1. CASE UNCHANGED staVars
  BY <1>1 DEF staVars
<1>2. CASE \E t \in Tasks : StaCreateStep(t) \/ StaRegisterStep(t)
  BY <1>2 DEF StaCreateStep, StaCreate, StaRegisterStep, StaRegister
<1>3. CASE StaForgetStep
  BY <1>3 DEF StaForgetStep, StaForgetLoop
<1>4. CASE StaUnregisterStep
  BY <1>4 DEF StaUnregisterStep, StaUnregister
<1>5. ASSUME StaRelease PROVE StaTypeOK'
  <2>1. failures' \in 0..(MaxRetry + 1) /\ bits' \subseteq {"CONNECTED", "FAIL"}
    BY <1>5 DEF StaRelease
  <2> QED
    BY <1>5, <2>1, Zenon DEF StaRelease
<1>6. CASE StaEvent
  <2>1. CASE OnStaStart
    BY <2>1 DEF OnStaStart, staVars
  <2>2. CASE OnDisconnectedRetry \/ OnDisconnectedGiveUp
    <3>1. retry_num' \in 0..MaxRetry /\ failures' \in 0..(MaxRetry + 1)
      BY <2>2 DEF OnDisconnectedRetry, OnDisconnectedGiveUp
    <3> QED
      BY <2>2, <3>1, Zenon DEF OnDisconnectedRetry, OnDisconnectedGiveUp
  <2>3. CASE SetFailBit \/ OnGotIp
    <3>1. retry_num' \in 0..MaxRetry /\ failures' \in 0..(MaxRetry + 1)
      BY <2>3 DEF SetFailBit, OnGotIp
    <3>2. bits' \subseteq {"CONNECTED", "FAIL"}
      BY <2>3 DEF SetFailBit, OnGotIp
    <3> QED
      BY <2>3, <3>1, <3>2, Zenon DEF SetFailBit, OnGotIp
  <2> QED
    BY <1>6, <2>1, <2>2, <2>3 DEF StaEvent
<1>7. CASE Reboot
  <2>1. /\ retry_num' \in 0..MaxRetry /\ failures' \in 0..(MaxRetry + 1)
        /\ bits' \subseteq {"CONNECTED", "FAIL"}
    BY <1>7 DEF Reboot
  <2> QED
    BY <1>7, <2>1, Zenon DEF Reboot
<1> QED
  BY <1>1, <1>2, <1>3, <1>4, <1>5, <1>6, <1>7, Touches DEF StaReleaseStep

\* The access point's variables keep their types.
LEMMA ApTypeStep ==
  ASSUME TypeOK, Next
  PROVE  ApTypeOK'
<1> USE DEF TypeOK, ApTypeOK
<1>1. CASE UNCHANGED apVars
  BY <1>1 DEF apVars
<1>2. ASSUME NEW t \in Tasks, ApResetStep(t) PROVE ApTypeOK'
  <2>1. current_connections' \in Int
    BY <1>2 DEF ApResetStep, ApReset
  <2> QED
    BY <1>2, <2>1, Zenon DEF ApResetStep, ApReset
<1>3. CASE \E t \in Tasks : ApCreateStep(t) \/ ApRegisterStep(t) \/ ApStartStep(t)
  BY <1>3 DEF ApCreateStep, ApCreate, ApRegisterStep, ApRegister, ApStartStep,
       ApStart
<1>4. CASE ApZeroStep
  BY <1>4 DEF ApZeroStep, ApZero
<1>5. CASE ApDeleteTaskStep \/ ApUnregisterStep \/ ApReleaseStep
  BY <1>5, Zenon DEF ApDeleteTaskStep, ApDeleteIdleTask, ApUnregisterStep,
       ApUnregister, ApReleaseStep, ApRelease
<1>6. CASE ApEvent
  BY <1>6 DEF ApEvent, OnStationEvent
<1>7. CASE IdleStep
  BY <1>7 DEF IdleStep, IdleCheck, PostIdle
<1>8. CASE Reboot
  <2>1. current_connections' \in Int
    BY <1>8 DEF Reboot
  <2> QED
    BY <1>8, <2>1, Zenon DEF Reboot
<1> QED
  BY <1>1, <1>2, <1>3, <1>4, <1>5, <1>6, <1>7, <1>8, Touches

\* The MQTT client's variables keep their types.
LEMMA MqttTypeStep ==
  ASSUME TypeOK, Next
  PROVE  MqttTypeOK'
<1> USE DEF TypeOK, MqttTypeOK, ClientStates
<1>1. CASE UNCHANGED mqttVars
  BY <1>1 DEF mqttVars
<1>2. CASE \/ MqttInitStep \/ SetUriStep \/ MqttStopStep
           \/ \E t \in Tasks : MqttStartStep(t)
  BY <1>2 DEF MqttStartStep, MqttStart, MqttInitStep, MqttInit, SetUriStep,
       MqttSetUri, MqttSetUriRejected, MqttStopStep, MqttStop, Panic, mqttVars
<1>3. CASE MqttTaskStep
  BY <1>3, Zenon DEF MqttTaskStep, MqttConnected, MqttDisconnected
<1>4. CASE Reboot
  BY <1>4, Zenon DEF Reboot
<1> QED
  BY <1>1, <1>2, <1>3, <1>4, Touches

\* The server's variables keep their types; request is one of Requests while a
\* handler runs.
LEMMA HttpTypeStep ==
  ASSUME TypeOK, HandlersKnow, Next
  PROVE  HttpTypeOK'
<1> USE RequestsAssumption DEF TypeOK, HttpTypeOK
<1>1. CASE UNCHANGED httpVars
  BY <1>1 DEF httpVars
<1>2. CASE \E t \in Tasks : HttpStartStep(t)
  BY <1>2 DEF HttpStartStep, HttpStart
<1>3. CASE HttpStopStep
  BY <1>3 DEF HttpStopStep, HttpStop, httpVars
<1>4. CASE RequestArrives
  BY <1>4 DEF RequestArrives, HandlerStarts, FirstStep, Posting
<1>5. CASE HttpStep
  <2>1. CASE HandlerPosts \/ OptionsWritten
    BY <2>1 DEF HandlerPosts, OptionsWritten, Finish
  <2>2. CASE UploadEnds \/ HandlerReplies
    BY <2>2 DEF UploadEnds, HandlerReplies, Finish
  <2>3. CASE UploadAborts
    BY <1>1, <2>3 DEF UploadAborts, Panic
  <2> QED
    BY <1>5, <2>1, <2>2, <2>3 DEF HttpStep, HandlerStep
<1>6. CASE Reboot
  BY <1>6, Zenon DEF Reboot
<1> QED
  BY <1>1, <1>2, <1>3, <1>4, <1>5, <1>6, Touches

\* A task goes to a label of its own.
LEMMA GoType ==
  ASSUME TaskTypeOK, NEW t \in Tasks, NEW label, Go(t, label),
         t = "main" => label \in MainLabels,
         t = "loop" => label \in LoopLabels
  PROVE  TaskTypeOK'
BY DEF TaskTypeOK, Go, Tasks

\* A callback that returns leaves second_loop idle.
LEMMA ReturnType ==
  ASSUME TaskTypeOK, Return
  PROVE  TaskTypeOK'
<1>1. early' \in BOOLEAN
  BY Zenon DEF Return
<1> QED
  BY <1>1 DEF TaskTypeOK, Return, Tasks, LoopLabels

\* The tasks stay inside their own procedures: main runs no callback, and
\* second_loop does not boot the device.
LEMMA TaskTypeStep ==
  ASSUME TypeOK, HandlersKnow, Next
  PROVE  TaskTypeOK'
<1> USE DEF MainLabels, LoopLabels, ConnectLabels, StaLabels, ApLabels, StopLabels
<1>0. TaskTypeOK
  BY DEF TypeOK
<1>1. CASE UNCHANGED <<taskVars, panic, staSaved>>
  BY <1>0, <1>1 DEF TaskTypeOK, taskVars
<1>2. ASSUME NEW reason \in Panics, Panic(reason) PROVE TaskTypeOK'
  BY <1>0, <1>2 DEF TaskTypeOK, Panic, taskVars
<1>3. ASSUME NEW t \in Tasks, ConnectStep(t) PROVE TaskTypeOK'
  <2>1. ASSUME NEW ok, AfterConnect(t, ok) PROVE TaskTypeOK'
    BY <1>0, <2>1, GoType, ReturnType DEF AfterConnect, Tasks
  <2>2. CASE StaCreateStep(t) \/ StaRegisterStep(t) \/ StaStartStep(t)
    BY <1>0, <2>2, GoType DEF StaCreateStep, StaRegisterStep, StaStartStep
  <2>3. CASE StaRejected(t) \/ StaWaitStep(t) \/ ApStartStep(t)
    BY <2>1, <2>3 DEF StaRejected, StaWaitStep, ApStartStep
  <2>4. CASE ApResetStep(t) \/ ApScanStep(t) \/ ApCreateStep(t) \/ ApRegisterStep(t)
    BY <1>0, <2>4, GoType DEF ApResetStep, ApScanStep, ApCreateStep, ApRegisterStep
  <2>5. CASE HttpStartStep(t)
    BY <1>0, <2>5, GoType, ReturnType DEF HttpStartStep, Tasks
  <2>6. CASE MqttStartStep(t)
    BY <1>0, <2>6, GoType, ReturnType DEF MqttStartStep, Tasks
  <2>7. CASE MqttStartFails(t)
    BY <1>2, <2>7 DEF MqttStartFails, Panics
  <2> QED
    BY <1>3, <2>2, <2>3, <2>4, <2>5, <2>6, <2>7 DEF ConnectStep
<1>4. CASE Boot \/ RegisterStep
  BY <1>0, <1>4, GoType DEF Boot, RegisterStep, Tasks
<1>5. CASE SensorsStep \/ MqttInitStep
  BY <1>0, <1>2, <1>5, GoType DEF SensorsStep, MqttInitStep, Panics, Tasks
<1>6. CASE EventLost
  BY <1>1, <1>6 DEF EventLost
<1>7. CASE CallbackStarts
  BY <1>0, <1>7 DEF CallbackStarts, Callback, Events, TaskTypeOK, Tasks
<1>8. CASE SetUriStep
  BY <1>0, <1>2, <1>8, ReturnType DEF SetUriStep, TaskTypeOK, Panics, taskVars
<1>9. CASE MqttStopStep
  BY <1>0, <1>2, <1>9, GoType DEF MqttStopStep, Panics, Tasks
<1>10. CASE HttpStopStep \/ StaReleaseStep \/ ApReleaseStep
  <2>1. Stopped \in LoopLabels
    BY <1>0, <1>10 DEF HttpStopStep, StaReleaseStep, ApReleaseStep, At,
         HandlersKnow, Stopped
  <2>2. AfterSta \in LoopLabels /\ AfterHttp \in LoopLabels
    BY <2>1 DEF AfterSta, AfterHttp
  <2> QED
    BY <1>0, <1>10, <2>1, <2>2, GoType DEF HttpStopStep, StaReleaseStep,
         ApReleaseStep, Tasks
<1>11. CASE StaForgetStep \/ StaUnregisterStep
  BY <1>0, <1>11, GoType DEF StaForgetStep, StaUnregisterStep, Tasks
<1>12. CASE ApZeroStep \/ ApDeleteTaskStep \/ ApUnregisterStep
  BY <1>0, <1>12, GoType DEF ApZeroStep, ApDeleteTaskStep, ApUnregisterStep, Tasks
<1>13. CASE WriteNvsStep
  BY <1>0, <1>13 DEF WriteNvsStep, TaskTypeOK, Tasks
<1>14. CASE StaEventPanics \/ HttpStep
  <2>1. CASE HttpStep /\ UNCHANGED <<taskVars, panic, staSaved>>
    BY <1>1, <2>1
  <2>2. CASE StaEventPanics \/ UploadAborts
    BY <1>2, <2>2 DEF StaEventPanics, UploadAborts, Panics
  <2> QED
    BY <1>14, <2>1, <2>2 DEF HttpStep, HandlerStep, KeepTasks
<1>15. CASE Reboot
  <2>1. early' \in BOOLEAN
    BY <1>15, Zenon DEF Reboot
  <2> QED
    BY <1>0, <1>15, <2>1 DEF Reboot, BootPc, TaskTypeOK, Tasks, Panics
<1> QED
  BY <1>1, <1>3, <1>4, <1>5, <1>6, <1>7, <1>8, <1>9, <1>10, <1>11, <1>12, <1>13,
     <1>14, <1>15, Touches DEF MainStep, LoopStep, Tasks

\* Every conjunct of TypeOK, hence TypeOK, is preserved.
LEMMA TypeStep ==
  ASSUME TypeOK, HandlersKnow, Next
  PROVE  TypeOK'
BY LoopTypeStep, DriverTypeStep, StaTypeStep, ApTypeStep, MqttTypeStep,
   HttpTypeStep, TaskTypeStep DEF TypeOK

-----------------------------------------------------------------------------
(* The other conjuncts of the invariant, task by task. *)

\* Handlers that post have an event to post, and callbacks that stop the
\* modules have something to do next.
LEMMA HandlersStep ==
  ASSUME TypeOK, HandlersKnow, Next
  PROVE  HandlersKnow'
<1> USE DEF TypeOK, TaskTypeOK, HandlersKnow, Tasks, StopLabels, At, Go, Return
<1>1. CASE UNCHANGED httpVars
  <2>1. CASE UNCHANGED <<taskVars, panic, staSaved>>
    BY <1>1, <2>1 DEF httpVars, taskVars
  <2>2. CASE \E t \in Tasks : ConnectStep(t)
    BY <1>1, <2>2 DEF httpVars, ConnectStep, StaCreateStep, StaRegisterStep,
         StaStartStep, StaRejected, StaWaitStep, ApResetStep, ApScanStep,
         ApCreateStep, ApRegisterStep, ApStartStep, HttpStartStep,
         MqttStartStep, MqttStartFails, AfterConnect, Panic, taskVars
  <2>3. CASE Boot \/ RegisterStep \/ SensorsStep \/ MqttInitStep
    BY <1>1, <2>3 DEF httpVars, Boot, RegisterStep, SensorsStep, MqttInitStep,
         Panic, taskVars
  <2>4. CASE EventLost \/ CallbackStarts \/ SetUriStep \/ MqttStopStep
    BY <1>1, <2>4 DEF httpVars, EventLost, CallbackStarts, Callback, Events,
         SetUriStep, MqttStopStep, Panic, taskVars
  <2>5. CASE \/ HttpStopStep \/ StaForgetStep \/ StaUnregisterStep
             \/ StaReleaseStep \/ ApZeroStep \/ ApDeleteTaskStep
             \/ ApUnregisterStep \/ ApReleaseStep \/ WriteNvsStep
    BY <1>1, <2>5 DEF httpVars, HttpStopStep, StaForgetStep, StaUnregisterStep,
         StaReleaseStep, ApZeroStep, ApDeleteTaskStep, ApUnregisterStep,
         ApReleaseStep, WriteNvsStep
  <2>6. CASE StaEventPanics
    BY <1>1, <2>6 DEF httpVars, StaEventPanics, Panic, taskVars
  <2>7. CASE Reboot
    BY <2>7 DEF Reboot, BootPc
  <2>8. CASE HttpStep
    BY <1>1, <2>8 DEF httpVars, taskVars, HttpStep, HandlerStep, UploadAborts,
         Panic, KeepTasks
  <2> QED
    BY <2>1, <2>2, <2>3, <2>4, <2>5, <2>6, <2>7, <2>8, Touches
    DEF MainStep, LoopStep
<1>2. ASSUME NEW t \in Tasks, HttpStartStep(t) PROVE HandlersKnow'
  BY <1>2 DEF HttpStartStep, HttpStart
<1>3. CASE HttpStopStep
  BY <1>3 DEF HttpStopStep, HttpStop, httpVars
<1>4. CASE RequestArrives
  BY <1>4, RequestsAssumption DEF RequestArrives, HandlerStarts, FirstStep,
       Posting, KeepTasks, taskVars
<1>5. CASE HttpStep
  <2>1. UNCHANGED taskVars
    BY <1>5 DEF HttpStep, HandlerStep, UploadAborts, Panic, KeepTasks
  <2>2. httpd' \in {"receive", "post"} => request' \in Posting
    BY <1>5 DEF HttpStep, HandlerStep, UploadAborts, Panic, httpVars, HandlerPosts,
         OptionsWritten, UploadEnds, HandlerReplies, Finish, Posting
  <2> QED
    BY <2>1, <2>2 DEF taskVars
<1>6. CASE Reboot
  BY <1>6 DEF Reboot, BootPc
<1> QED
  BY <1>1, <1>2, <1>3, <1>4, <1>5, <1>6, Touches

\* main and second_loop take turns at aug_wifi_sta_connect and
\* aug_wifi_ap_start.
LEMMA TurnsStep ==
  ASSUME TypeOK, TurnsTaken, Next
  PROVE  TurnsTaken'
<1> USE DEF TypeOK, TaskTypeOK, TurnsTaken, Tasks, BeforeRegister,
         ConnectLabels, StaLabels, ApLabels, At, Go, Return, loopVars, taskVars
<1>1. ASSUME NEW t \in Tasks, ConnectStep(t) PROVE TurnsTaken'
  BY <1>1 DEF ConnectStep, StaCreateStep, StaRegisterStep, StaStartStep,
       StaRejected, StaWaitStep, ApResetStep, ApScanStep, ApCreateStep,
       ApRegisterStep, ApStartStep, HttpStartStep, MqttStartStep,
       MqttStartFails, AfterConnect, Panic
<1>2. CASE Boot \/ RegisterStep \/ SensorsStep \/ MqttInitStep
  BY <1>2 DEF Boot, RegisterStep, RegisterEvents, SensorsStep, MqttInitStep, Panic
<1>3. CASE LoopStep
  BY <1>1, <1>3 DEF LoopStep, EventLost, CallbackStarts, Receive, SetUriStep,
       MqttStopStep, HttpStopStep, StaForgetStep, StaUnregisterStep,
       StaReleaseStep, ApZeroStep, ApDeleteTaskStep, ApUnregisterStep,
       ApReleaseStep, WriteNvsStep, Panic
<1>4. CASE SysEvtStep
  BY <1>4 DEF SysEvtStep, StaEvent, StaEventPanics, StaPost, PostFailedAttempts,
       Post, ApEvent, UnhandledEvent, Panic, KeepTasks
<1>5. CASE IdleStep \/ RequestArrives \/ HttpStep \/ MqttTaskStep \/ DriverStep
  BY <1>5 DEF IdleStep, PostIdle, Post, RequestArrives, HttpStep, HandlerStep,
       UploadAborts, Panic, HandlerPosts, MqttTaskStep, DriverStep, KeepTasks
<1>6. CASE Reboot
  BY <1>6 DEF Reboot, BootPc
<1> QED
  BY <1>1, <1>2, <1>3, <1>4, <1>5, <1>6 DEF Next, MainStep

\* The other tasks bring no module up or down: only main and second_loop do.
LEMMA OthersKeepModes ==
  ASSUME SysEvtStep \/ IdleStep \/ RequestArrives \/ HttpStep \/ MqttTaskStep
           \/ DriverStep
  PROVE  /\ UNCHANGED <<taskVars, staSaved, mode, sta_netif, sta_handlers, sta_loop,
                        group, ap_netif, ap_handlers, idle_handle>>
         /\ idleTask' # idleTask => idleTask # "none" /\ idleTask' # "none"
         /\ sysEvt' # sysEvt /\ sysEvt' # "idle" => sta_handlers \/ sysEvt # "idle"
<1> USE DEF driverVars, staVars, apVars, KeepTasks
<1>1. CASE StaEvent
  <2>1. CASE OnStaStart \/ OnDisconnectedRetry \/ OnGotIp
    BY <1>1, <2>1 DEF StaEvent, OnStaStart, OnDisconnectedRetry, OnGotIp
  <2>2. CASE OnDisconnectedGiveUp
    BY <1>1, <2>2 DEF StaEvent, OnDisconnectedGiveUp, GivesUp
  <2>3. CASE SetFailBit
    BY <1>1, <2>3 DEF StaEvent, SetFailBit
  <2> QED
    BY <1>1, <2>1, <2>2, <2>3 DEF StaEvent
<1>2. CASE StaEventPanics
  BY <1>2 DEF StaEventPanics, Panic
<1>3. CASE StaPost \/ ApEvent \/ UnhandledEvent
  BY <1>3 DEF StaPost, PostFailedAttempts, ApEvent, OnStationEvent, UnhandledEvent
<1>4. CASE IdleStep
  BY <1>4 DEF IdleStep, IdleCheck, PostIdle
<1>5. CASE RequestArrives \/ HttpStep \/ MqttTaskStep
  BY <1>5 DEF RequestArrives, HttpStep, HandlerStep, UploadAborts, Panic,
       MqttTaskStep
<1>6. CASE DriverStep
  BY <1>6 DEF DriverStep, LinkUp, LinkDown, ClientJoins, ClientLeaves
<1> QED
  BY <1>1, <1>2, <1>3, <1>4, <1>5, <1>6 DEF SysEvtStep

\* A task that starts a mode finds the other one down, because it is at a label
\* deinit_modules leads to only when both are; and the other task cannot be
\* starting one at the same time (TurnsTaken).
LEMMA ModeStep ==
  ASSUME TypeOK, HandlersKnow, TurnsTaken, ModeAt, ModesExclusive, Next
  PROVE  ModeAt' /\ ModesExclusive'
<1> USE DEF TypeOK, TaskTypeOK, StaTypeOK, ApTypeOK, HandlersKnow, TurnsTaken,
         ModeAt, ModesExclusive, Tasks, MainLabels, LoopLabels, BeforeRegister,
         ConnectLabels, StaLabels, ApLabels, StopLabels, ApStopping,
         At, Go, Return, staVars, apVars, taskVars
<1>1. ASSUME NEW t \in Tasks,
             StaCreateStep(t) \/ StaRegisterStep(t) \/ StaStartStep(t)
               \/ StaRejected(t) \/ StaWaitStep(t)
      PROVE  ModeAt' /\ ModesExclusive'
  BY <1>1 DEF StaCreateStep, StaCreate, StaRegisterStep, StaRegister,
       StaStartStep, StaStart, StaRejected, StaWaitStep, AfterConnect
<1>2. ASSUME NEW t \in Tasks,
             ApResetStep(t) \/ ApScanStep(t) \/ ApCreateStep(t)
               \/ ApRegisterStep(t) \/ ApStartStep(t)
      PROVE  ModeAt' /\ ModesExclusive'
  BY <1>2 DEF ApResetStep, ApReset, ApScanStep, ApCreateStep, ApCreate,
       ApRegisterStep, ApRegister, ApStartStep, ApStart, AfterConnect
<1>3. ASSUME NEW t \in Tasks,
             HttpStartStep(t) \/ MqttStartStep(t) \/ MqttStartFails(t)
      PROVE  ModeAt' /\ ModesExclusive'
  BY <1>3 DEF HttpStartStep, MqttStartStep, MqttStartFails, Panic
<1>4. CASE Boot \/ RegisterStep \/ SensorsStep \/ MqttInitStep
  BY <1>4 DEF Boot, RegisterStep, SensorsStep, MqttInitStep, Panic
<1>5. CASE EventLost \/ CallbackStarts \/ SetUriStep \/ MqttStopStep
  BY <1>5 DEF EventLost, CallbackStarts, SetUriStep, MqttStopStep, Panic
<1>6. CASE HttpStopStep
  BY <1>6 DEF HttpStopStep, AfterHttp, AfterSta, Stopped
<1>7. CASE StaForgetStep \/ StaUnregisterStep \/ StaReleaseStep
  BY <1>7 DEF StaForgetStep, StaForgetLoop, StaUnregisterStep, StaUnregister,
       StaReleaseStep, StaRelease, AfterSta, Stopped
<1>8. CASE \/ ApZeroStep \/ ApDeleteTaskStep \/ ApUnregisterStep \/ ApReleaseStep
           \/ WriteNvsStep
  BY <1>8 DEF ApZeroStep, ApZero, ApDeleteTaskStep, ApDeleteIdleTask,
       ApUnregisterStep, ApUnregister, ApReleaseStep, ApRelease, Stopped,
       WriteNvsStep
<1>9. CASE SysEvtStep \/ IdleStep \/ RequestArrives \/ HttpStep \/ MqttTaskStep
             \/ DriverStep
  BY <1>9, OthersKeepModes
<1>10. CASE Reboot
  BY <1>10 DEF Reboot, BootPc
<1> QED
  BY <1>1, <1>2, <1>3, <1>4, <1>5, <1>6, <1>7, <1>8, <1>9, <1>10
  DEF Next, MainStep, LoopStep, ConnectStep

\* Handlers, driver, event group and idle task belong to the mode that is up:
\* each is given up before its mode is, and sys_evt, once inside event_handler,
\* keeps it registered (the loop's mutex).
LEMMA OwnersStep ==
  ASSUME TypeOK, HandlersKnow, TurnsTaken, ModeAt, ModesExclusive, Owners, Next
  PROVE  Owners'
<1> USE DEF TypeOK, TaskTypeOK, StaTypeOK, ApTypeOK, DriverTypeOK, HandlersKnow,
         TurnsTaken, ModeAt, ModesExclusive, Owners, Tasks, MainLabels,
         LoopLabels, BeforeRegister, ConnectLabels, StaLabels, ApLabels,
         StopLabels, ApStopping, At, Go, Return, driverVars, staVars, apVars,
         taskVars
<1>1. ASSUME NEW t \in Tasks,
             StaCreateStep(t) \/ StaRegisterStep(t) \/ StaStartStep(t)
               \/ StaRejected(t) \/ StaWaitStep(t)
      PROVE  Owners'
  BY <1>1 DEF StaCreateStep, StaCreate, StaRegisterStep, StaRegister,
       StaStartStep, StaStart, StartStation, StaRejected, StaWaitStep,
       AfterConnect
<1>2. ASSUME NEW t \in Tasks,
             ApResetStep(t) \/ ApScanStep(t) \/ ApCreateStep(t)
               \/ ApRegisterStep(t) \/ ApStartStep(t)
      PROVE  Owners'
  BY <1>2 DEF ApResetStep, ApReset, ApScanStep, ApCreateStep, ApCreate,
       ApRegisterStep, ApRegister, ApStartStep, ApStart, StartAccessPoint,
       AfterConnect
<1>3. ASSUME NEW t \in Tasks,
             HttpStartStep(t) \/ MqttStartStep(t) \/ MqttStartFails(t)
      PROVE  Owners'
  BY <1>3 DEF HttpStartStep, MqttStartStep, MqttStartFails, Panic
<1>4. CASE Boot \/ RegisterStep \/ SensorsStep \/ MqttInitStep
  BY <1>4 DEF Boot, RegisterStep, SensorsStep, MqttInitStep, Panic
<1>5. CASE EventLost \/ CallbackStarts \/ SetUriStep \/ MqttStopStep
  BY <1>5 DEF EventLost, CallbackStarts, SetUriStep, MqttStopStep, Panic
<1>6. CASE HttpStopStep
  BY <1>6 DEF HttpStopStep, AfterHttp, AfterSta, Stopped
<1>7. CASE StaForgetStep \/ StaUnregisterStep \/ StaReleaseStep
  BY <1>7 DEF StaForgetStep, StaForgetLoop, StaUnregisterStep, StaUnregister,
       LoopMutexFree, StaReleaseStep, StaRelease, StopDriver, AfterSta, Stopped
<1>8. CASE \/ ApZeroStep \/ ApDeleteTaskStep \/ ApUnregisterStep \/ ApReleaseStep
           \/ WriteNvsStep
  BY <1>8 DEF ApZeroStep, ApZero, ApDeleteTaskStep, ApDeleteIdleTask,
       ApUnregisterStep, ApUnregister, ApReleaseStep, ApRelease, StopDriver,
       Stopped, WriteNvsStep
<1>9. CASE SysEvtStep \/ IdleStep \/ RequestArrives \/ HttpStep \/ MqttTaskStep
             \/ DriverStep
  BY <1>9, OthersKeepModes
<1>10. CASE Reboot
  BY <1>10 DEF Reboot, BootPc
<1> QED
  BY <1>1, <1>2, <1>3, <1>4, <1>5, <1>6, <1>7, <1>8, <1>9, <1>10
  DEF Next, MainStep, LoopStep, ConnectStep

-----------------------------------------------------------------------------
(* The theorems. *)

\* IInv is an inductive invariant.
THEOREM Invariance == Spec => []IInv
<1>1. IInv /\ [Next]_vars => IInv'
  <2> SUFFICES ASSUME IInv, [Next]_vars PROVE IInv'
    OBVIOUS
  <2>1. CASE Next
    BY <2>1, TypeStep, HandlersStep, TurnsStep, ModeStep, OwnersStep DEF IInv
  <2>2. CASE UNCHANGED vars
    <3> USE <2>2 DEF vars, loopVars, driverVars, staVars, apVars, mqttVars,
             httpVars, taskVars, IInv
    <3>1. TypeOK'
      BY DEF TypeOK, LoopTypeOK, DriverTypeOK, StaTypeOK, ApTypeOK, MqttTypeOK,
           HttpTypeOK, TaskTypeOK
    <3>2. HandlersKnow' /\ TurnsTaken' /\ ModeAt' /\ ModesExclusive'
      BY DEF HandlersKnow, TurnsTaken, ModeAt, ModesExclusive
    <3>3. Owners'
      BY DEF Owners
    <3> QED
      BY <3>1, <3>2, <3>3
  <2> QED
    BY <2>1, <2>2
<1> QED
  BY InitIInv, <1>1, PTL DEF Spec

\* No variable ever leaves its type: the queue never overflows, the retries
\* never pass MaxRetry, and no task runs into the other's procedure.
THEOREM TypeCorrect == Spec => []TypeOK
<1>1. IInv => TypeOK
  BY DEF IInv
<1> QED
  BY Invariance, <1>1, PTL

\* The station and the access point are never up together, for any size of the
\* queues, any retry limit and any requests.
THEOREM ModesNeverOverlap == Spec => []ModesExclusive
<1>1. IInv => ModesExclusive
  BY DEF IInv
<1> QED
  BY Invariance, <1>1, PTL

\* The channel scan always finds the radio free, whichever task calls it.
THEOREM ScanFindsRadioFree == Spec => []ScanAlone
<1>1. IInv => ScanAlone
  BY DEF IInv, TypeOK, DriverTypeOK, ModeAt, Owners, ScanAlone
<1> QED
  BY Invariance, <1>1, PTL

\* event_handler never sets bits in a deleted event group, although sys_evt may
\* be inside it while second_loop tears the station down.
THEOREM BitsNeverLost == Spec => []BitsTargetLive
<1>1. IInv => BitsTargetLive
  BY DEF IInv, Owners, BitsTargetLive
<1> QED
  BY Invariance, <1>1, PTL

\* aug_wifi_ap_stop always deletes the idle task and never its caller, and no
\* idle task outlives its access point.
THEOREM IdleTaskNeverOrphan == Spec => []IdleTaskOwned
<1>1. IInv => IdleTaskOwned
  BY DEF IInv, TypeOK, TaskTypeOK, TurnsTaken, ModeAt, Owners, IdleTaskOwned,
       BeforeRegister, ConnectLabels, ApLabels, ApStopping, Tasks
<1> QED
  BY Invariance, <1>1, PTL

-----------------------------------------------------------------------------
(* The loop handle of the station. *)

\* Only aug_wifi_sta_disconnect clears the handle, and second_loop is then on
\* its way to the unregistration; main is past aug_wifi_sta_connect
\* (TurnsTaken), so no session loses a handle it has just been given.
LEMMA HandleStep ==
  ASSUME IInv, LoopHandle, Next
  PROVE  LoopHandle'
<1> USE DEF LoopHandle, NullLoopOnlyInTeardown, IInv, TypeOK, TaskTypeOK,
         HandlersKnow, TurnsTaken, Owners, Tasks, MainLabels, LoopLabels, BeforeRegister,
         ConnectLabels, StaLabels, ApLabels, StopLabels, At, Go, Return,
         staVars, taskVars
<1>1. ASSUME NEW t \in Tasks,
             StaCreateStep(t) \/ StaRegisterStep(t) \/ StaStartStep(t)
               \/ StaRejected(t) \/ StaWaitStep(t)
      PROVE  LoopHandle'
  BY <1>1 DEF StaCreateStep, StaCreate, StaRegisterStep, StaRegister,
       StaStartStep, StaStart, StaRejected, StaWaitStep, AfterConnect
<1>2. ASSUME NEW t \in Tasks,
             ApResetStep(t) \/ ApScanStep(t) \/ ApCreateStep(t)
               \/ ApRegisterStep(t) \/ ApStartStep(t)
      PROVE  LoopHandle'
  BY <1>2 DEF ApResetStep, ApScanStep, ApCreateStep, ApRegisterStep, ApStartStep,
       AfterConnect
<1>3. ASSUME NEW t \in Tasks,
             HttpStartStep(t) \/ MqttStartStep(t) \/ MqttStartFails(t)
      PROVE  LoopHandle'
  BY <1>3 DEF HttpStartStep, MqttStartStep, MqttStartFails, Panic
<1>4. CASE Boot \/ RegisterStep \/ SensorsStep \/ MqttInitStep
  BY <1>4 DEF Boot, RegisterStep, SensorsStep, MqttInitStep, Panic
<1>5. CASE EventLost \/ CallbackStarts \/ SetUriStep \/ MqttStopStep
  BY <1>5 DEF EventLost, CallbackStarts, SetUriStep, MqttStopStep, Panic
<1>6. CASE HttpStopStep
  BY <1>6 DEF HttpStopStep, AfterHttp, AfterSta, Stopped
<1>7. CASE StaForgetStep \/ StaUnregisterStep \/ StaReleaseStep
  BY <1>7 DEF StaForgetStep, StaForgetLoop, StaUnregisterStep, StaUnregister,
       StaReleaseStep, StaRelease, AfterSta, Stopped
<1>8. CASE \/ ApZeroStep \/ ApDeleteTaskStep \/ ApUnregisterStep \/ ApReleaseStep
           \/ WriteNvsStep
  BY <1>8 DEF ApZeroStep, ApDeleteTaskStep, ApUnregisterStep, ApReleaseStep,
       Stopped, WriteNvsStep
<1>9. CASE StaEventPanics
  BY <1>9 DEF StaEventPanics, GivesUp, Panic
<1>10. CASE \/ StaEvent \/ StaPost \/ ApEvent \/ UnhandledEvent \/ IdleStep
            \/ RequestArrives \/ HttpStep \/ MqttTaskStep \/ DriverStep
  <2>1. panic' \in {panic, "ota_begin"}
    BY <1>10 DEF StaEvent, StaPost, ApEvent, UnhandledEvent, IdleStep,
         RequestArrives, HttpStep, HandlerStep, UploadAborts, Panic, MqttTaskStep,
         DriverStep, KeepTasks
  <2> QED
    BY <1>10, <2>1, OthersKeepModes DEF SysEvtStep
<1>11. CASE Reboot
  BY <1>11 DEF Reboot, BootPc
<1> QED
  BY <1>1, <1>2, <1>3, <1>4, <1>5, <1>6, <1>7, <1>8, <1>9, <1>10, <1>11
  DEF Next, MainStep, LoopStep, SysEvtStep, ConnectStep

\* The NULL dereference of event_handler happens in a teardown or not at all: every
\* session, however the ones before it ended, has its handle before its handlers.
THEOREM NullLoopConfined == Spec => []NullLoopOnlyInTeardown
<1>1. Init => LoopHandle
  BY DEF Init, RamInit, StaInit, BootPc, Tasks, LoopHandle, NullLoopOnlyInTeardown
<1>2. IInv /\ LoopHandle /\ [Next]_vars => LoopHandle'
  <2> SUFFICES ASSUME IInv, LoopHandle, [Next]_vars PROVE LoopHandle'
    OBVIOUS
  <2>1. CASE UNCHANGED vars
    BY <2>1 DEF vars, staVars, taskVars, LoopHandle, NullLoopOnlyInTeardown
  <2> QED
    BY <2>1, HandleStep
<1>3. LoopHandle => NullLoopOnlyInTeardown
  BY DEF LoopHandle
<1> QED
  BY <1>1, <1>2, <1>3, Invariance, PTL DEF Spec

\* What event_handler works on is there, whatever second_loop tears down meanwhile.
THEOREM HandlerTargetsAlwaysLive == Spec => []HandlerTargetsLive
<1>1. BitsTargetLive /\ NullLoopOnlyInTeardown => HandlerTargetsLive
  BY DEF HandlerTargetsLive
<1> QED
  BY BitsNeverLost, NullLoopConfined, <1>1, PTL

-----------------------------------------------------------------------------
(* The refinement of ModeSwitch. *)

\* A step in which no module changes and second_loop does not reach esp_restart
\* is a stutter of the radio.
LEMMA RadioStutter ==
  ASSUME UNCHANGED <<sta_netif, ap_netif>>,
         (pc["loop"] = "restart") <=> (pc["loop"] = "restart")'
  PROVE  UNCHANGED <<RadioRole, pc["loop"] = "restart">>
BY DEF RadioRole

\* Every step of the device is a step of ModeSwitch or leaves its state alone:
\* StaCreate and ApCreate take a role, StaRelease and ApRelease give it up,
\* write_nvs_data leads to the restart, and a reboot ends any role.
LEMMA RadioStep ==
  ASSUME IInv, Next
  PROVE  [Radio!Next]_<<RadioRole, pc["loop"] = "restart">>
<1> USE DEF IInv, TypeOK, TaskTypeOK, StaTypeOK, ApTypeOK, Tasks, MainLabels,
         LoopLabels, ConnectLabels, StaLabels, ApLabels, StopLabels,
         BeforeRegister, ApStopping, At, Go, Return, staVars, apVars, taskVars
<1>1. ASSUME NEW t \in Tasks, StaCreateStep(t)
      PROVE  Radio!Become("station")
  BY <1>1 DEF StaCreateStep, StaCreate, ModeAt, TurnsTaken, RadioRole,
       Radio!Become
<1>2. ASSUME NEW t \in Tasks, ApCreateStep(t)
      PROVE  Radio!Become("access_point")
  BY <1>2 DEF ApCreateStep, ApCreate, ModeAt, TurnsTaken, RadioRole,
       Radio!Become
<1>3. CASE StaReleaseStep
  BY <1>3 DEF StaReleaseStep, StaRelease, AfterSta, Stopped, HandlersKnow,
       ModesExclusive, RadioRole, Radio!Next, Radio!Leave
<1>4. CASE ApReleaseStep
  BY <1>4 DEF ApReleaseStep, ApRelease, Stopped, HandlersKnow, ModeAt,
       RadioRole, Radio!Next, Radio!Leave
<1>5. CASE WriteNvsStep
  BY <1>5 DEF WriteNvsStep, ModeAt, RadioRole, Radio!Next, Radio!Restart
<1>6. CASE Reboot
  BY <1>6 DEF Reboot, BootPc, RadioRole, Radio!Next, Radio!Reset
<1>7. ASSUME NEW t \in Tasks,
             \/ StaRegisterStep(t) \/ StaStartStep(t) \/ StaRejected(t)
             \/ StaWaitStep(t) \/ ApResetStep(t) \/ ApScanStep(t)
             \/ ApRegisterStep(t) \/ ApStartStep(t) \/ HttpStartStep(t)
             \/ MqttStartStep(t) \/ MqttStartFails(t)
      PROVE  UNCHANGED <<RadioRole, pc["loop"] = "restart">>
  BY <1>7, RadioStutter DEF StaRegisterStep, StaRegister, StaStartStep, StaStart,
       StaRejected, StaWaitStep, ApResetStep, ApReset, ApScanStep,
       ApRegisterStep, ApRegister, ApStartStep, ApStart, HttpStartStep,
       MqttStartStep, MqttStartFails, AfterConnect, Panic
<1>8. CASE Boot \/ RegisterStep \/ SensorsStep \/ MqttInitStep
  BY <1>8, RadioStutter DEF Boot, RegisterStep, SensorsStep, MqttInitStep, Panic
<1>9. CASE EventLost \/ CallbackStarts \/ SetUriStep \/ MqttStopStep
  BY <1>9, RadioStutter DEF EventLost, CallbackStarts, SetUriStep, MqttStopStep,
       Panic
<1>10. CASE HttpStopStep \/ StaForgetStep \/ StaUnregisterStep
  BY <1>10, RadioStutter DEF HttpStopStep, AfterHttp, AfterSta, Stopped,
       HandlersKnow, StaForgetStep, StaForgetLoop, StaUnregisterStep,
       StaUnregister
<1>11. CASE ApZeroStep \/ ApDeleteTaskStep \/ ApUnregisterStep
  BY <1>11, RadioStutter DEF ApZeroStep, ApZero, ApDeleteTaskStep,
       ApDeleteIdleTask, ApUnregisterStep, ApUnregister
<1>12. CASE SysEvtStep \/ IdleStep \/ RequestArrives \/ HttpStep \/ MqttTaskStep
              \/ DriverStep
  BY <1>12, OthersKeepModes, RadioStutter
<1> QED
  BY <1>1, <1>2, <1>3, <1>4, <1>5, <1>6, <1>7, <1>8, <1>9, <1>10, <1>11, <1>12
  DEF Next, MainStep, LoopStep, ConnectStep, Radio!Next

\* The device implements ModeSwitch: it changes role only through "none", and
\* reaches esp_restart only from there.
THEOREM DeviceImplementsModeSwitch == Spec => ImplementsModeSwitch
<1>1. Init => Radio!Init
  BY DEF Init, RamInit, StaInit, ApInit, BootPc, Tasks, RadioRole, Radio!Init
<1>2. IInv /\ [Next]_vars => [Radio!Next]_<<RadioRole, pc["loop"] = "restart">>
  <2> SUFFICES ASSUME IInv, [Next]_vars
               PROVE  [Radio!Next]_<<RadioRole, pc["loop"] = "restart">>
    OBVIOUS
  <2>1. CASE Next
    BY <2>1, RadioStep
  <2>2. CASE UNCHANGED vars
    BY <2>2, RadioStutter DEF vars, staVars, apVars, taskVars
  <2> QED
    BY <2>1, <2>2
<1> QED
  BY <1>1, <1>2, Invariance, PTL DEF Spec, ImplementsModeSwitch, Radio!Spec
=============================================================================
