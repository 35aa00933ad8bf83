# A formal model of the MQTT temperature firmware

The firmware (`src/main`) runs on an ESP32. It is a Wi-Fi station or, when it
cannot be one, an access point; an HTTP server lets a user set it up in either
mode; while it is a station an MQTT client publishes temperatures. What makes it
hard is not any of these parts but their changes: five tasks and a driver start,
stop and interrupt one another around an event queue with two slots. This
directory models those changes in TLA+, checks them with TLC on small instances,
and proves the safety core with TLAPS for all instances.

## The system

### Tasks

| task | code | what it does |
|------|------|--------------|
| main | `main_init` (main.c:182-227) | boots the device, then sleeps for ever |
| second_loop | the callbacks of main.c:97-149 | runs one callback for each event of its queue; every change of mode happens here |
| sys_evt | `event_handler` (aug_wifi_sta.c:37), `wifi_event_handler` (aug_wifi_ap.c:29) | dispatches the Wi-Fi driver's events, holding the default loop's mutex |
| httpd | the URI handlers of aug_http_server.c | one request at a time |
| idle_check_task | aug_wifi_ap.c:46-55 | wakes periodically while the access point is up |
| MQTT task | `mqtt_event_handler` (aug_mqtt_client.c:33) | connects, loses the connection, tells the firmware |
| publish_task | main.c:47-78 | reads the sensors and publishes |

They interact by events posted to second_loop (always with `portMAX_DELAY`, so
that a full queue blocks the poster), by static variables without locks, by an
event group, by the mutex of the default loop (which registering and
unregistering a handler takes) and by calls that wait for another task
(`httpd_stop`, `xEventGroupWaitBits`).

### Components, their state, what makes them correct

| component | state | operations | must hold | module |
|-----------|-------|------------|-----------|--------|
| second_loop (main.c) | queue, handlers registered | post, receive, register | never more than two events; an event is handled or discarded once | `EventLoop` |
| station (aug_wifi_sta.c) | interface, handlers, loop handle, event group and bits, `retry_num` | connect, disconnect, event_handler | a bit is set only in a live group; giving up is announced before connect returns | `WifiSta` |
| access point (aug_wifi_ap.c) | interface, handler, `current_connections`, idle task and its handle | start, stop, event handler, idle check | the count is the number of stations; the idle task has one owner | `WifiAp` |
| MQTT client (aug_mqtt_client.c) | handle, `is_connected` | init, start, stop, set_uri, event handler | the flag tells the truth; a station is not left without its client | `MqttClient` |
| HTTP server (aug_http_server.c) | handle, handler in progress | start, stop, one handler per endpoint | answers are sent; configuration is not written while it is read; only what must be waited for holds a stop | `HttpServer` |
| main.c | where the two tasks stand | boot, four callbacks, restart | one mode at a time, exactly one at rest; what is stopped is stopped in order | `Device` |
| HTTP handlers (aug_http_server.c:23-361, 407-420; aug_utility.c) | fields of the configuration, the answer | one setter for each option, two senders of information, three posts | what is accepted is stored, a refused request stops at the option refused, an error closes the session, every text ends in its array | `QueryOptions`, `HttpHandlers` |
| firmware update (aug_http_server.c:363-405) | an OTA handle, the partitions, otadata | receive, check, select, post, answer | a firmware answered for boots, whatever fails afterwards | `Ota` |
| configuration store (aug_nvs.c, its callers, the defaults of aug_wifi.c) | three configurations in RAM, three blobs in NVS | load, set, save, restart | an interrupted save leaves a prefix; a completed one survives | `ConfigStore` |
| channel scan (aug_wifi_scan.c) | counts for each channel | count, choose | runs with the radio free; a usable channel, the least busy of those but for the access points the list has no place for | `ChannelScan`; the step in `Device` |
| sensors (aug_ds18b20.c) | table of sensors | search, set resolutions, read | the search ends; the table is in the order of the bus, and complete or full | `Sensors` |
| publish_task (main.c:47-78) | index, number of sensors | read, publish, wait | reads what exists; every sensor gets its turn | `Publisher` |
| index.html, Kconfig, sdkconfig | - | - | - | not modelled: no state |

Hard behaviours: posts to a full queue, a bit awaited without a timeout, events
dispatched while a mode is torn down, flags that outlive what they describe,
events before their handlers exist, requests served while the server is being
stopped, calls whose failure nobody notices, clients and buses that never answer,
power failures during a save. `PROJECT.json` lists each at its line.

## The modules

    EventLoop   WifiDriver   MqttClient
        \        /    |          |
         WifiSta   WifiAp   HttpServer <------- implements ------+
              \      |      /                                    |
               Device  --------- implements ---> ModeSwitch      |
                  |                                              |
           DeviceProperties  (properties, IInv) <- SessionHistory|
                  |                                     |        |
      DeviceProofs <- ServiceProofs <------------ RadioProofs    |
                                                                 |
    QueryOptions -- HttpHandlers -- HandlerProperties -----------+
                                      |          |               |
                              MCHttpHandlers   HandlerProofs <- OptionProofs
                                                                 |
    ChannelScan   Sensors -- Publisher   Ota                     |
          \                     |        /                       |
           +---------------- Lifecycle --+                       |
                                 |                               |
                        LifecycleProperties ---------------------+
                                 |
                ScanProofs, LifecycleProofs

    ConfigStore -- MCConfigStore, ConfigProofs

The device is too large for one state space, so it is cut where its parts touch
least. `Device` has everything about modes and waits; `HttpHandlers` opens the
handlers `Device` sees from outside, and is shown to implement what `Device`
assumes of them (`HttpServer`); `Lifecycle` has what happens on the way from one
reset to the next, with the upload of a firmware call by call, which is shown to
implement `HttpServer` too, and the callbacks that may keep second_loop from the
restart; `ConfigStore` has the data of the configurations.

* **EventLoop** is the queue: `Post` is the step in which
  `esp_event_post_to` returns, enabled while a slot is free.
* **WifiDriver** is the external part: the driver's mode and link, the
  associated stations, the default loop's queue, and where sys_evt stands inside
  `event_handler`. `Connect`, which is `esp_wifi_connect`, may fail: aug_wifi_sta.c
  ignores its result (42, 47), and no event follows. `refused` records it.
* **WifiSta**, **WifiAp**, **MqttClient**, **HttpServer** have one operator for
  each piece of their source file that runs without another task being able to
  interfere in a way that matters. `aug_wifi_sta_connect`, for instance, is
  `StaCreate` (lines 66-78), `StaRegister` (79-88, which waits for the loop's
  mutex), `StaStart` (90-92) and the wait (97). Giving up takes
  `event_handler` three steps: decide, post, set the bit. `MqttSetUri` and
  `MqttSetUriRejected` are the two ways of `aug_mqtt_set_uri`: the client is stopped
  before its new URI may be refused. The handler of `/ota_update` is in phase
  `receive` of HttpServer for as long as its client sends, or is silent, and leaves
  it by a post or, after an error, without one (`UploadEnds`); that
  `esp_ota_begin` may abort is `UploadAborts`.
* **Device** composes them by EXTENDS. `pc` says which call main and second_loop
  are about to make, `job` which callback runs; each action is a call with every
  effect it has. A failing `ESP_ERROR_CHECK` or a NULL dereference sets `panic`,
  after which only `Reboot` happens. `SetUriStep` aborts for a client that does not
  run (`set_uri`) and for a URI it refuses (`bad_uri`). The search for sensors is a
  step of the boot that need not come.
* **SessionHistory** adds three records to Device that constrain no step: what a
  station's session inherited from the one before (`carried`), where main stood
  when second_loop discarded the session's `FAILED_ATTEMPTS` (`lostAt`), and whether
  the driver refused its configuration (`rejected`). With them it says how far
  promises hold that fail as the documents put them: a station fails in silence in
  three ways and in no other.
* **ModeSwitch** is the promise: none, station or access point, changed only
  through none, restarted only from none.
* **ConfigStore** is separate: it follows the data of the configurations, which
  Device abstracts to "a station configuration is saved".
* **QueryOptions** has no state. It holds the two pairs of tables of
  aug_utility.c, the conversions, and what each of the four setters returns and
  stores for a value the query holds for its key. A text is a value of which the
  length and the number (`atoi`) are known.
* **HttpHandlers** runs the handlers of `/set_options`, `/init` and `/restart`
  in httpd. A request is one `HandlerStarts`; `GetQuery`, then one `SetOption` for
  each option in the order of `set_sta_options`, `AllSet` and `Reply`; or
  `SendInfo` and `HandlerPosts`. Every failing call goes to `HandlerGivesUp`,
  which is `send_unexpected_error` and `return ESP_FAIL`.
* **ChannelScan** is the two loops of `aug_get_least_freq_channel`, with bytes
  for counters. `found` is every access point the scan finds; the driver hands over
  the first `number` of them, and only those are counted. One may be on the
  channel after the last usable one (14).
* **Sensors** is `aug_ds18b20_init`. The iterator yields the devices in the order
  of their addresses; while the bus fails it returns other errors and may pass a
  device over.
* **Publisher** is `publish_task`, each call a step.
* **Ota** is `ota_update_handler`, the three partitions, and the rule by which
  the bootloader chooses one (external, as is the image check). `HandlerStep` is
  what the handler does by itself, `ClientStep` what its client does: send, close the
  connection, begin an upload. A client that does neither leaves the handler in
  `receive`: the loop of aug_http_server.c:377 asks again without an end.
* **Lifecycle** composes the last four with the queue and the MQTT client.
  `phase` says where main stands, `callback` and `job` where second_loop does
  and for which event. The callbacks of all six events are there, each with the
  waits that can hold it: `StopHttp` for the handler in progress,
  `ConnectReturns` for the station, which may never come. `OTA_UPDATE` waits
  behind them. `Reset` loses RAM and keeps the flash, after a restart, a power
  failure or an abort: a failing `ESP_ERROR_CHECK` is here the reset itself
  (`StopMqttFails`, `SetUriFails`, `StartMqttAgainFails`, ...).

Variables keep the source's names (`sta_netif`, `retry_num`,
`current_connections`, `is_connected`, ...). Some are history: no guard reads
them. In Device these are `early` (the running callback began before main_init
had ended), `failures` (disconnections since the last address or teardown) and
`refused` (the last `esp_wifi_connect` failed); so are `carried`, `lostAt` and
`rejected` in SessionHistory, `provided`, `target`, `before` and `clean` in
ConfigStore, `before`, `given` and `accepted` in HttpHandlers, `promised` in
Ota. `missed` in Sensors is history too, and bounded by `MaxMissed`.

### Assumptions of the model

* The scan of `aug_wifi_ap_start` takes seconds: sys_evt has dispatched what was
  queued when it ends (guard of `ApScanStep`).
* `register_events` is one step; second_loop's mutex is taken by each of its six
  calls, and an event arriving between two of them is lost or handled as it
  would be just before or after.
* An MQTT connection attempt is one step, as it holds the client's API lock;
  `esp_mqtt_client_stop` dispatches no event; the broker is reached only over
  the station's link, and a connection may break at any moment.
* Driver calls and allocations succeed, except `esp_wifi_set_config`, which may
  reject the configuration (`StaRejected`), and `esp_wifi_connect` (`Connect`). In
  Lifecycle the calls under `ESP_ERROR_CHECK` that can fail for a reason of the
  device's own history do.
* While `httpd_stop` waits, httpd may still serve the requests its current
  `select()` returned, so requests are allowed to arrive then.
* The idle task may wake at any time: the period is not modelled.
* A blob is written to NVS or not; a failing read counts as "not found", which
  is what the callers make of every error.
* max_retry does not change during a run of Device, where it is a natural
  number. That a request may set it to any integer is in HttpHandlers; what
  event_handler makes of a change or of a negative number is not modelled.
* In Device the station is not configured at build time (`CONFIG_WIFI_INFO` is
  unset, as in sdkconfig), so a boot without a saved configuration is an access
  point. ConfigStore has firmwares of both kinds (`WithInfo`).
* `esp_event_post_to` without data and with `portMAX_DELAY` does not fail, so
  the handlers' error path after it is left out.
* A URI is shorter than the 512 bytes its buffer has: an address longer than
  that (`CONFIG_HTTPD_MAX_URI_LEN`) is refused by esp_http_server
  (`UriAssumption`). Texts longer than every other limit are in.
* The default URI fits its array: that is the `static_assert` of
  `aug_mqtt_set_default_uri` (`DefaultUriAssumption`).
* A scan's list holds fewer than 255 access points (`ScanAssumption`; Kconfig allows
  20), the table has room for a sensor and the bus yields devices in the order of
  their numbers (`SensorsAssumption`).
* otadata never holds an image "pending verify", because rollback is not
  configured: `verify_app` finds nothing to do and is left out. The factory
  partition always holds a firmware, so the bootloader always finds one.
* A stop of the MQTT client, a write of NVS and a change of mode are single
  steps in Lifecycle: their own steps are in Device and ConfigStore. So is a reset;
  Device has the time between an abort and the reboot (`panic`).

## The runs

Real values: queue of second_loop 2 (in every run of Device; 1 in `http_handlers`
and `lifecycle`, where one slot is enough to fill it), default loop 32, one
client at most (`CONFIG_MAX_STA_CONN`). One slot in the default loop's queue is
enough to delay an event past a step of another task; two, in `device_requests`,
have a second event wait behind one that is being handled, which is what the
count of stations can get wrong.

| run | bounds | result |
|-----|--------|--------|
| `device_modes` | one retry, one client, `/init/sta`, `/init/mqtt`, 1 driver event; 1,255,404 states | `TypeOK`, `OneMode`, `ScanAlone`, `FailedStationRecovers`, `StationPublishes`, `WaitAlwaysFed`, `SilenceExplained`, `AttemptsCounted` and the refinement `ImplementsModeSwitch` hold, with the records of SessionHistory |
| `device_requests` | no retry, one client, `/init/sta`, `/init/mqtt`, `/restart`, `/set_options`, 2 driver events; 2,604,560 states | `IdleTaskOwned`, `HandlerTargetsLive`, `CountExact`, `AccessPointServes`, `RestartAnswered`, `ConfigReadAlone` hold |
| `device_waits` | one retry, no client, `/ota_update`, 1 driver event, fair; 148,121 states | `BootEnds`, `WaitHeldOnlyByFullQueue`, `StopsHeldOnlyByQueueOrUpload` hold |
| `config_store` | two firmwares whose station structures differ, one of them with station settings built in, two channels, a good and a bad URI; 149,632 states | `TypeOK`, `SavedInOrder`, `RestartKeepsConfig`, `RamFits` hold |
| `http_handlers` | the real names and limits; for each option a value that fits, one at or past its limit, one that is no mode or no number, or none; one slot in the queue; 267,000 states | `TypeOK`, `PrefixApplied`, `ErrorsClose`, `InfoShown`, `FieldsTerminated` and the refinement `ImplementsHttpServer` hold |
| `lifecycle` | a list of two and three access points on three channels, three sensors and another device for a table of two, two devices passed over, a firmware of one piece, `OTA_UPDATE`, `IDLE` and `INIT_MQTT` for a queue of one, fair; 242,181 states | `TypeOK`, `LeastBusy`, `SensorTable`, `SensorsReadable`, `PromisedImageBoots`, `UpdateUnderWay`, `RunningIntact`, the refinement `UploadImplementsHttpServer`, `SearchEnds`, `EverySensorPublishes`, `UpdateTakesEffect`, `StopHeldOnlyByUploads` hold |
| `mqtt_flag` | | `ConnectedFlagTruthful` fails: `aug_mqtt_stop` leaves `is_connected` |
| `init_mqtt` | | `InitMqttServed` fails: `/init/mqtt` to an access point aborts |
| `retry_budget` | | `FailedAttemptsEarned` fails: `retry_num` survives a teardown |
| `boot_failure` | | `FailureAnnounced` fails: `FAILED_ATTEMPTS` posted during the boot is lost |
| `full_queue` | fair | `WaitEnds` fails: event_handler and second_loop wait for each other |
| `unconfigured` | | `UnconfiguredStartsAp` fails: a zeroed station configuration is saved |

The requests that change a mode or the client are in the first two runs, with
retries and without; `RESTART` and `SET_OPTIONS` are in the second, to keep the
first small. `/ota_update` is the request of `device_waits` because it can hold
`httpd_stop` in two ways, by a silent client and by a post to a full queue, and
because its callback takes the mode down: that is when `httpd_stop` and
unregistering wait. `IDLE` and `FAILED_ATTEMPTS` are the other events there. With
one slot for driver events sys_evt is still caught inside `event_handler` at each of
these waits.

In `lifecycle` the bus has more sensors than the table has slots, and a device
of another family between them; two missed devices leave the table not full, so
both ends of the search happen. Three access points for a list of two make ties,
an empty channel, and a choice the one left out makes wrong. A firmware of one
piece can be cut short to none. `IDLE` begins a callback that may wait for the
station for ever, `INIT_MQTT` one that may abort and, as its handler posts, a
`httpd_stop` that waits for a full queue: what an update can be held by. More
firmwares, pieces, sensors or slots would tell more apart: the safety properties
are proved for any number. In `http_handlers` an option is set several times by
later requests, and the modes keep what earlier requests chose.

`retry_budget` and `boot_failure` show two promises broken, and `device_modes`
by how much: `AttemptsCounted` says what a session is given besides its own
retries, `SilenceExplained` in which three ways a station fails unannounced. One
retry is enough for a session to hand it on (`carried` = 1) and for the next to
fail early; both places where `FAILED_ATTEMPTS` can be discarded, inside
`aug_wifi_sta_connect` and right before `register_events`, are reached.
`/init/sta` is the request that ends a session and begins the next.

The device runs do not check deadlock, because the device really may
stop: a rejected configuration, or an `esp_wifi_connect` that failed, leaves a
station nobody can reach, and the full queue above blocks for ever.

The properties about a resting device say "booted": main_init has ended, and had
when the running callback began. A callback that overlaps main_init (possible
between `register_events` and its end) may find the server started behind its
back or the client not yet created; that hazard is in the model and excluded from
these properties.

### Fairness

`FairSpec` of Device has weak fairness of main, second_loop, sys_evt and httpd
(FreeRTOS runs every ready task in the end; none of them spins at a higher
priority), of the driver ending an attempt to join (it has its own timeouts) and
of the reboot after an abort. Left out are the two steps that wait for somebody who
owes nothing: the search for sensors (`MainOwes`), which repeats for as long as the
bus fails, and the receive loop of an upload (`HandlerOwes`), which repeats for as
long as the client is silent. `httpd_stop` and unregistering a handler get
strong fairness: the first waits for a moment between two handlers, of which
there are only as many as sessions in one `select()`; the second waits for a
mutex that FreeRTOS hands to the task that waits. Clients, the broker, the access
point's behaviour and the idle task owe nothing.

So each liveness property names what it depends on. `BootEnds` supposes a search that
ends; it and `WaitHeldOnlyByFullQueue` except an `esp_wifi_connect` that failed,
after which no event comes. `WaitHeldOnlyByFullQueue` and
`StopsHeldOnlyByQueueOrUpload` say that apart from that a full queue, or for
`httpd_stop` an upload that neither goes on nor breaks off, is the only cause of
a wait without an end. `WaitEnds` assumes no more and still fails, because the two
tasks are really blocked.

`FairSpec` of Lifecycle has weak fairness of main, of the steps of second_loop that
wait for nobody, of the steps of the handlers that wait for no client, and of
publish_task, and strong fairness of `httpd_stop`. Clients, the broker, the
bus and the power owe nothing, nor does `aug_wifi_sta_connect` owe its return, in
main or in a callback. So `SearchEnds` depends on a bus that comes to work,
`EverySensorPublishes` on a client that stays connected, `StopHeldOnlyByUploads` on
uploads that go on or break off and a queue that is not full, and
`UpdateTakesEffect` on a second_loop that comes out of `aug_wifi_sta_connect` again
and again, and on a queue that does not stay full. That an update answered with
success may wait for ever behind `callback_init_sta` is the case the last premise
names; `full_queue` shows the deadlock behind it.

## The proofs

For every queue length, retry limit, number of clients and set of requests
(`Device`), every firmware, size and setting (`ConfigStore`), every text and limit
that satisfies the assumptions (`HttpHandlers`), every bus, table, file and image
size (`Lifecycle`):

| theorem | states |
|---------|--------|
| `Invariance` | `Spec => []IInv` |
| `TypeCorrect` | `Spec => []TypeOK` |
| `ModesNeverOverlap`, `AlwaysInOneMode`, `AlwaysOneMode` | `Spec => []ModesExclusive`, `Spec => []OneModeAtRest`, both: `Spec => []OneMode` |
| `ScanFindsRadioFree` | `Spec => []ScanAlone` |
| `BitsNeverLost`, `NullLoopConfined`, `HandlerTargetsAlwaysLive` | `Spec => []BitsTargetLive`, `Spec => []NullLoopOnlyInTeardown`, both: `Spec => []HandlerTargetsLive` |
| `IdleTaskNeverOrphan` | `Spec => []IdleTaskOwned` |
| `DeviceImplementsModeSwitch` | `Spec => ImplementsModeSwitch` |
| `AccessPointAlwaysServes` | `Spec => []AccessPointServes` |
| `RestartAlwaysAnswered`, `ConfigurationReadAlone` | `Spec => []RestartAnswered`, `Spec => []ConfigReadAlone` |
| `FailedStationAnnounced` | `Spec => []FailedStationRecovers` |
| `WaitNeverInVain`, `CountAlwaysExact` | `Spec => []WaitAlwaysFed`, `Spec => []CountExact` |
| `SessionInvariance` | `HistorySpec => []SessionInv` |
| `AttemptsAlwaysCounted` | `HistorySpec => AttemptsCounted` |
| `SilenceAlwaysExplained`, `StationAlwaysPublishes` | `HistorySpec => []SilenceExplained`, `HistorySpec => []StationPublishes` |
| `SavesArePrefixes`, `RamAlwaysFits` | `Spec => []SavedInOrder`, `Spec => []RamFits` |
| `ConfigTypes`, `ConfigurationKept` | `Spec => []TypeOK`, `Spec => []RestartKeepsConfig` |
| `LeastBusyChosen`, `BootsOnLeastBusy` | `ScanSpec => []LeastBusy`, `Spec => []LeastBusy` |
| `LifeInvariance`, `LifecycleTypes` | `Spec => []LifeInv`, `Spec => []TypeOK` |
| `SensorTableComplete`, `SensorsAlwaysReadable` | `Spec => []SensorTable`, `Spec => []SensorsReadable` |
| `PromisedImageAlwaysBoots`, `RunningAlwaysIntact` | `Spec => []PromisedImageBoots`, `Spec => []RunningIntact` |
| `UpdateAlwaysUnderWay` | `Spec => []UpdateUnderWay` |
| `UploadRefinesHttpServer` | `Spec => UploadImplementsHttpServer` |
| `RefusedSessionsClose`, `TextsEndInside` | `Spec => []ErrorsClose`, `Spec => []FieldsTerminated` |
| `HandlersImplementServer` | `Spec => ImplementsHttpServer` |
| `InfoAlwaysShown`, `OptionsApplied`, `TypesHold` | `Spec => []InfoShown`, `Spec => []PrefixApplied`, `Spec => []TypeOK` |

None of these is inductive by itself.

**Modes** (`DeviceProofs`). `ModesExclusive` needs to know what is up at each
label (`ModeAt`: a task about to create a mode has both down), which needs to
know that main and second_loop never start a mode at the same time
(`TurnsTaken`: main does before the callbacks are registered, second_loop only
after), and that a callback which has stopped everything knows where to go
(`HandlersKnow`). `Owners` says which mode each handler, the driver, the event
group and the idle task belong to, and carries the argument for `BitsTargetLive`:
the group is created before the handlers are registered and deleted after they
are unregistered, and unregistering waits for the mutex sys_evt holds inside a
handler. `IInv` is the conjunction. `Touches` says which actions change which
component; the lemmas then go conjunct by conjunct, action by action.

**Service** (`ServiceProofs`). `ServiceInv` goes with `IInv` and has four parts.
`ServerInv`: the handle says whether httpd runs, and a callback that began after
the boot has it stopped from `httpd_stop` to `aug_http_start`; from this follow the
two properties about requests, since a handler in progress keeps `httpd_stop`
from returning. `ModeInv`: outside the labels at which a task changes the mode,
one is up. `FailInv`: while second_loop is on its way to or inside its wait, a
fail bit set or about to be set means `FAILED_ATTEMPTS` is in the queue, which
only second_loop empties. That is the point of the order post, then bit.
`ClientInv`: a callback that returns with a station's driver up has started its
client, or has failed to connect, and then `FailInv` has the event queued. A station
whose configuration was refused has neither: `mode` is off there, and the session
has it recorded (`RejectInv` below).

**Radio** (`RadioProofs`). `RadioInv` goes with `ServiceInv` and has two parts, both
about events that have left the driver and have not reached a handler.
`WaitInv`: from the start of the driver to the end of the wait, what feeds the
wait is handed on and never dropped. The start queues `STA_START`; its handler, and
that of a disconnection with retries left, makes the driver join; the driver
answers with `GOT_IP` or `STA_DISCONNECTED`; the others set a bit. An event would
be dropped if it were dispatched while the handler is not registered: `WaitInv`
says it is, throughout. An `esp_wifi_connect` that fails leaves `refused`, which is
the one way for a wait to starve. A link already up ends no attempt, which is what
`UpAnnounced` is for: its `GOT_IP` is still queued, or has set a bit. `CountInv`:
`Counted(k)` is the count once the first k queued events are handled; at k = 0 it
is `current_connections`, at the end of the queue the number of stations
associated, and in between it stays in range. Dispatching an event shifts the
sequence by one, raising one appends to it (`DispatchCounted`, `RaiseCounted`),
which takes lemmas about cardinalities of positions in a sequence. `ApFresh` is
the base case: from the reset of the count to the start of the driver no station
is associated and no event of one is queued, because the scan outlasts the queue.

**Sessions** (`RadioProofs`). `SessionInv` goes with `RadioInv` and has four
parts. `TryInv`: as long as the station's driver runs, from its start to the
driver's stop and not only while somebody waits, it has a reason to try again,
or has been given up: every event handled leaves the link joining or up, another
event, a bit, or an `esp_wifi_connect` that failed. `SilentInv`: a failure about
to be told, or told, is in the queue or was discarded before the registration,
until second_loop begins to stop the station. It needs `FailInv`, by which an
event can be discarded in the boot only. `AttemptInv`: `retry_num` is at most
what was inherited and the failures since, so that giving up, which takes
`retry_num` at `MaxRetry` and one more failure, exceeds the maximum.
`RejectInv`: an interface that is up, outside the labels that bring it up or
take it down, has its driver running or was refused; with `ClientInv` and
`SilentInv` this gives `StationPublishes` and `SilenceExplained` for every
station, not only for one whose driver runs. The records constrain nothing: a
behaviour of `HistorySpec` is one of `Spec` (`HistoryIsOfDevice`), which lends
its theorems, and each record has a next value in every step, so that no
behaviour of `Spec` is lost.

**Configurations** (`ConfigProofs`). At each phase of the save, which blobs are new
and which are old (`SaveInv`); after a complete one, at each phase of the next
boot, which configurations are back (`CleanInv`). That a load finds them needs
`RamFits` (sizes) and `TypeOK` (a configuration is not the missing blob).

**Scan** (`ScanProofs`). The loops count and compare as intended: `ScanInv` relates
each counter to the records counted so far, as cardinalities, and the least
count to the channels compared so far. A list of fewer than 255 is what keeps the
bytes from wrapping. What the list has no place for is a set of at most
`Len(found) - number` access points, which bounds how far the choice is from the
least busy channel.

**Life** (`LifecycleProofs`). `LifeInv` is the conjunction of an invariant for
each part: `SensorInv` (a sensor is still to come, in the table, or was passed
over; the table ascends, and every device still to come is past the sensors in
it), `PublishInv` (publish_task exists only after the search, and its number is
the table's length), `UploadInv` (what the target partition holds at each step
of the handler; an answer is given only when the selected partition boots; the
factory partition always does, so `BootPartition` is defined; the partition that
runs does too, since the target is another one), `BootInv` (the types of the
rest; a callback that restarts is stopping httpd or saving), `UpdateInv` (from
the post to the reset, the event is queued, behind whatever others, or the
restart is under way; a reset runs the partition selected, because `UploadInv`
says it boots), `ServerInv` (until the callbacks are registered there is no
server and no update waiting, so that no event it needs is discarded). Each part
has a lemma for each action that touches it. The refinement maps the handler to
a request for `OTA_UPDATE` from its first call to its answer, with all it does
before the post in HttpServer's phase `receive`: the end of the loop, and every
error before and after it, is `UploadEnds`. A reset is the one step `HttpServer`
does not have.

**Handlers** (`HandlerProofs`). `AnswerInv` says what has been answered at each step
of a handler, `FieldInv` that every text stored fits. The refinement maps the
steps of a handler to the phases of `HttpServer`, action by action.

**Options** (`OptionProofs`). The two columns of each table have no value twice, so a
loop over one stops at the only row that matches, and the two conversions invert
each other (`NamesInvert`). `ModesInv` then says that each mode stored is the one
its last name means, which makes `send_sta_info` succeed and show that name.
For a request, a setter stores a value exactly when it is acceptable
(`AcceptableStored`, `UnacceptableRefused`): the buffers are as large as the fields,
and as the longest name. `ApplyInv` follows the options one by one: no option is
asked for twice, the one refused is the last so far, and whether `password_id`
counts is settled before it, because it is the last option.

The assumptions are those the modules declare: `QueueSize` and `SysQueueSize`
positive, `MaxRetry` and `MaxClients` natural, `Requests` among the endpoints,
`SizeOf` a table of sizes and "none" no setting, `ScanAssumption`,
`SensorsAssumption`, `OtaAssumption`, and for the texts `TextsAssumption`,
`NamesAssumption`, `ValuesAssumption`, `DefaultUriAssumption` and
`UriAssumption`. TLC evaluates each of them on the runs.

Every invariant, every refinement and the action property the passing runs check
are proved. Only
model-checked is liveness under fairness (`BootEnds`, `WaitHeldOnlyByFullQueue`,
`StopsHeldOnlyByQueueOrUpload`, `SearchEnds`, `EverySensorPublishes`,
`UpdateTakesEffect`, `StopHeldOnlyByUploads`), which is out of the prover's reach.
A safety part of it is proved: `WaitAlwaysFed`, that the wait of `BootEnds` and
`WaitHeldOnlyByFullQueue` has somebody left to end it until `esp_wifi_connect`
fails, and `UpdateUnderWay`,
that the update of `UpdateTakesEffect` is never forgotten.

## Not modelled

* max_retry changed by a request while `event_handler` counts against it. The
  handler only compares with `<`: a smaller value makes it give up at the next
  disconnection, a larger one later. The count itself does not depend on it, so
  what the change could break is `AttemptsCounted` alone, read with the old value.
* The text of the answers and of the log, the topic names and `get_mac_hash`
  (main.c:29-45): two devices whose addresses hash alike publish under one name.
* `index_handler` and the web page, which have no state.
* `aug_mqtt_deinit`, `aug_wifi_deinit` and `aug_ds18b20_deinit`: nothing calls them.
* The build configuration. `.channel = channel` in aug_wifi.c:70-72 names a
  variable that does not exist, so `CONFIG_AP_MANUAL_CHANNEL` is taken to be off.
* A configuration half written when another task reads it: a text is one value,
  and its copy one step. ConfigReadAlone says when this cannot happen.
* The driver, esp-mqtt, esp_http_server, the 1-Wire driver, the flash and the
  bootloader, except for what the firmware relies on.

## What is left

In the order in which it would tell most:

* Two copies of one text at once: `set_options_mqtt` in httpd against
  `aug_mqtt_set_uri` in second_loop, character by character, which no lock and
  no wait keeps apart.
* max_retry as a variable of Device, set by `/set_options` while `event_handler`
  counts, with the negative numbers `atoi` may return.
* The OTA handles an upload that breaks off leaves open, counted until
  `esp_ota_begin` finds no memory; here it may find none at any upload.
* A refinement between Lifecycle and Device: both start from the same queue,
  client and server, and are related so far through `HttpServer` alone.
