----------------------------- MODULE RadioProofs ------------------------------
(***************************************************************************)
(* More theorems about module Device: what sys_evt makes of the driver's   *)
(* events.  In station mode, that the wait of aug_wifi_sta_connect always  *)
(* has something to end it; in access point mode, that the count of        *)
(* stations is exact and in range.  Both rest on invariants about the      *)
(* events that are still queued, inductive together with IInv and          *)
(* ServiceInv.  Then, over the records of SessionHistory, when a station   *)
(* gives up, when it fails in silence, and when its MQTT client runs.      *)
(***************************************************************************)
EXTENDS ServiceProofs, SessionHistory, FiniteSetTheorems

\* Some event of the station is queued.
Queued(events) == \E n \in 1..Len(wifiEvents) : wifiEvents[n] \in events

\* A link that is up has left an event or a bit behind.
UpAnnounced == link = "up" => Queued({"GOT_IP"}) \/ bits # {}

\* Something will set a bit, or make event_handler try again, or esp_wifi_connect
\* has failed.
Fed == bits # {} \/ sysEvt # "idle" \/ link = "joining" \/ refused
         \/ Queued(StaEvents)

\* A task that waits has its handler registered and its driver started.
WaitInv ==
    /\ mode # "sta" => link = "down"
    /\ \A t \in Tasks : pc[t] = "sta_start" => sta_handlers
    /\ \A t \in Tasks : pc[t] = "sta_wait" =>
         sta_handlers /\ mode = "sta" /\ UpAnnounced /\ Fed

ApEvents == {"AP_STACONNECTED", "AP_STADISCONNECTED"}

\* A new access point starts to count from zero, with no event of an earlier one
\* left, and its handler stays registered while the idle task lives.
ApFresh ==
    /\ mode # "ap" => clients = 0
    /\ \A t \in Tasks : pc[t] = "ap_scan" => current_connections = 0
    /\ \A t \in Tasks : pc[t] \in {"ap_create", "ap_register", "ap_start"} =>
         mode # "ap" /\ current_connections = 0 /\ ~Queued(ApEvents)
    /\ \A t \in Tasks : pc[t] = "ap_start" => ap_handlers
    /\ idleTask # "none" => ap_handlers
    /\ pc["loop"] \in {"sta_forget", "sta_unregister", "sta_release"} => sta_netif

CountInv == ApFresh /\ CountMatches /\ CountInRange

-----------------------------------------------------------------------------
(* Counting the events among the first k of a queue. *)

Places(q, event, k) == {n \in 1..k : q[n] = event}
CountIn(q, event, k) == Cardinality(Places(q, event, k))

\* The count is a number.
LEMMA CountInNat ==
  ASSUME NEW q, NEW event, NEW k \in Nat
  PROVE  /\ IsFiniteSet(Places(q, event, k))
         /\ CountIn(q, event, k) \in Nat
<1>1. IsFiniteSet(1..k)
  BY FS_Interval
<1>2. Places(q, event, k) \in SUBSET (1..k)
  BY DEF Places
<1>3. IsFiniteSet(Places(q, event, k))
  BY <1>1, <1>2, FS_Subset
<1> QED
  BY <1>3, FS_CardinalityType DEF CountIn

\* No event is among the first none, nor in a queue without it.
LEMMA CountInNone ==
  ASSUME NEW q, NEW event, NEW k \in Nat, \A n \in 1..k : q[n] # event
  PROVE  CountIn(q, event, k) = 0
<1>1. Places(q, event, k) = {}
  BY DEF Places
<1> QED
  BY <1>1, FS_EmptySet DEF CountIn

\* The next event adds one to its own count.
LEMMA CountInNext ==
  ASSUME NEW q, NEW event, NEW k \in Nat
  PROVE  CountIn(q, event, k + 1) =
           IF q[k + 1] = event THEN CountIn(q, event, k) + 1
                               ELSE CountIn(q, event, k)
<1>1. IsFiniteSet(Places(q, event, k))
  BY CountInNat
<1>2. k + 1 \notin Places(q, event, k)
  BY DEF Places
<1>3. CASE q[k + 1] = event
  <2>1. Places(q, event, k + 1) = Places(q, event, k) \cup {k + 1}
    BY <1>3 DEF Places
  <2>2. Cardinality(Places(q, event, k) \cup {k + 1})
          = Cardinality(Places(q, event, k)) + 1
    BY <1>1, <1>2, FS_AddElement
  <2> QED
    BY <1>3, <2>1, <2>2 DEF CountIn
<1>4. CASE q[k + 1] # event
  <2>1. Places(q, event, k + 1) = Places(q, event, k)
    BY <1>4 DEF Places
  <2> QED
    BY <1>4, <2>1 DEF CountIn
<1> QED
  BY <1>3, <1>4

\* Two queues that agree on their first k events agree on the count.
LEMMA CountInSame ==
  ASSUME NEW q, NEW r, NEW event, NEW k \in Nat, \A n \in 1..k : r[n] = q[n]
  PROVE  CountIn(r, event, k) = CountIn(q, event, k)
<1>1. Places(r, event, k) = Places(q, event, k)
  BY DEF Places
<1> QED
  BY <1>1 DEF CountIn

\* Once its first event is gone, a queue counts one of it less.
LEMMA CountInShift ==
  ASSUME NEW q, NEW r, NEW event, NEW k \in Nat, \A n \in 1..k : r[n] = q[n + 1]
  PROVE  CountIn(q, event, k + 1) =
           IF q[1] = event THEN CountIn(r, event, k) + 1
                           ELSE CountIn(r, event, k)
<1> DEFINE Later == {n \in 2..(k + 1) : q[n] = event}
           shift == [n \in Places(r, event, k) |-> n + 1]
<1>1. /\ IsFiniteSet(Places(r, event, k))
      /\ IsFiniteSet(Places(q, event, k + 1))
  BY CountInNat
<1>2. shift \in Bijection(Places(r, event, k), Later)
  <2>1. \A n \in Places(r, event, k) : n \in Nat /\ shift[n] = n + 1
    BY DEF Places
  <2>2. \A n \in Places(r, event, k) : shift[n] \in Later
    BY <2>1 DEF Places
  <2>3. \A m, n \in Places(r, event, k) : shift[m] = shift[n] => m = n
    BY <2>1
  <2>4. \A m \in Later : m - 1 \in Places(r, event, k) /\ shift[m - 1] = m
    <3> SUFFICES ASSUME NEW m \in Later
                 PROVE  m - 1 \in Places(r, event, k) /\ shift[m - 1] = m
      OBVIOUS
    <3>1. m - 1 \in 1..k /\ (m - 1) + 1 = m
      OBVIOUS
    <3>2. r[m - 1] = event
      BY <3>1
    <3>3. m - 1 \in Places(r, event, k)
      BY <3>1, <3>2 DEF Places
    <3> QED
      BY <2>1, <3>1, <3>3
  <2>5. shift \in Injection(Places(r, event, k), Later)
    BY <2>2, <2>3 DEF Injection, IsInjective
  <2>6. shift \in Surjection(Places(r, event, k), Later)
    BY <2>2, <2>4 DEF Surjection
  <2> QED
    BY <2>5, <2>6 DEF Bijection
<1>3. IsFiniteSet(Later) /\ Cardinality(Later) = CountIn(r, event, k)
  <2>1. ExistsBijection(Places(r, event, k), Later)
    BY <1>2 DEF ExistsBijection
  <2> QED
    BY <1>1, <2>1, FS_Bijection DEF CountIn
<1>4. CASE q[1] = event
  <2>1. Places(q, event, k + 1) = Later \cup {1} /\ 1 \notin Later
    BY <1>4 DEF Places
  <2>2. Cardinality(Later \cup {1}) = Cardinality(Later) + 1
    BY <1>3, <2>1, FS_AddElement
  <2> QED
    BY <1>3, <1>4, <2>1, <2>2 DEF CountIn
<1>5. CASE q[1] # event
  <2>1. Places(q, event, k + 1) = Later
    BY <1>5 DEF Places
  <2> QED
    BY <1>3, <1>5, <2>1 DEF CountIn
<1> QED
  BY <1>4, <1>5

\* A queue with one event more counts it, and the others as before.
LEMMA CountInAppend ==
  ASSUME NEW S, NEW q \in Seq(S), NEW x \in S, NEW event
  PROVE  /\ \A k \in 0..Len(q) :
              CountIn(Append(q, x), event, k) = CountIn(q, event, k)
         /\ CountIn(Append(q, x), event, Len(q) + 1) =
              IF x = event THEN CountIn(q, event, Len(q)) + 1
                           ELSE CountIn(q, event, Len(q))
<1> DEFINE r == Append(q, x)
           len == Len(q)
<1>1. len \in Nat /\ len \in 0..len
  OBVIOUS
<1>2. \A n \in 1..len : r[n] = q[n]
  OBVIOUS
<1>3. r[len + 1] = x
  OBVIOUS
<1> HIDE DEF r, len
<1>4. ASSUME NEW k \in 0..len
      PROVE  CountIn(r, event, k) = CountIn(q, event, k)
  <2>1. k \in Nat /\ \A n \in 1..k : r[n] = q[n]
    BY <1>1, <1>2
  <2> QED
    BY <2>1, CountInSame
<1>5. CountIn(r, event, len + 1) =
        IF x = event THEN CountIn(r, event, len) + 1 ELSE CountIn(r, event, len)
  BY <1>1, <1>3, CountInNext
<1>6. CountIn(r, event, len) = CountIn(q, event, len)
  BY <1>1, <1>4
<1> QED
  BY <1>4, <1>5, <1>6 DEF r, len

\* A queue that loses its head counts what is left.
LEMMA CountInTail ==
  ASSUME NEW S, NEW q \in Seq(S), q # <<>>, NEW event,
         NEW k \in 0..Len(Tail(q))
  PROVE  CountIn(q, event, k + 1) =
           IF Head(q) = event THEN CountIn(Tail(q), event, k) + 1
                              ELSE CountIn(Tail(q), event, k)
<1> DEFINE r == Tail(q)
<1>1. k \in Nat /\ Head(q) = q[1]
  OBVIOUS
<1>2. \A n \in 1..k : r[n] = q[n + 1]
  OBVIOUS
<1> HIDE DEF r
<1>3. CountIn(q, event, k + 1) =
        IF q[1] = event THEN CountIn(r, event, k) + 1 ELSE CountIn(r, event, k)
  BY <1>1, <1>2, CountInShift
<1> QED
  BY <1>1, <1>3 DEF r

-----------------------------------------------------------------------------
(* The default loop's queue. *)

\* The driver adds an event at the end.
LEMMA RaiseQueued ==
  ASSUME DriverTypeOK, NEW event \in WifiEvents, Raise(event), NEW events
  PROVE  Queued(events)' <=> Queued(events) \/ event \in events
<1>1. /\ wifiEvents \in Seq(WifiEvents)
      /\ wifiEvents' = Append(wifiEvents, event)
  BY DEF DriverTypeOK, Raise
<1>2. /\ Len(wifiEvents') = Len(wifiEvents) + 1
      /\ Len(wifiEvents) \in Nat
      /\ \A n \in 1..Len(wifiEvents) : wifiEvents'[n] = wifiEvents[n]
      /\ wifiEvents'[Len(wifiEvents) + 1] = event
  BY <1>1
<1> QED
  BY <1>2 DEF Queued

\* sys_evt takes the event at the head, and no other.
LEMMA DispatchQueued ==
  ASSUME DriverTypeOK, NEW event, Dispatch(event), NEW events
  PROVE  /\ Queued(events)' => Queued(events)
         /\ Queued(events) => Queued(events)' \/ event \in events
<1>1. /\ wifiEvents \in Seq(WifiEvents)
      /\ wifiEvents # <<>>
      /\ event = Head(wifiEvents)
      /\ wifiEvents' = Tail(wifiEvents)
  BY DEF DriverTypeOK, Dispatch
<1>2. /\ Len(wifiEvents) = Len(wifiEvents') + 1
      /\ Len(wifiEvents') \in Nat
      /\ \A n \in 1..Len(wifiEvents') : wifiEvents'[n] = wifiEvents[n + 1]
      /\ wifiEvents[1] = event
  BY <1>1
<1>3. Queued(events)' => Queued(events)
  <2> SUFFICES ASSUME NEW n \in 1..Len(wifiEvents'), wifiEvents'[n] \in events
               PROVE  Queued(events)
    BY DEF Queued
  <2>1. n + 1 \in 1..Len(wifiEvents)
    BY <1>2
  <2> QED
    BY <1>2, <2>1 DEF Queued
<1>4. Queued(events) => Queued(events)' \/ event \in events
  <2> SUFFICES ASSUME NEW n \in 1..Len(wifiEvents), wifiEvents[n] \in events,
                      event \notin events
               PROVE  Queued(events)'
    BY DEF Queued
  <2>1. n # 1
    BY <1>2
  <2>2. n - 1 \in 1..Len(wifiEvents') /\ wifiEvents'[n - 1] = wifiEvents[n]
    BY <1>2, <2>1
  <2> QED
    BY <2>2 DEF Queued
<1> QED
  BY <1>3, <1>4

\* Occurrences counts in the queue of the default loop.
LEMMA OccurrencesCount ==
  ASSUME NEW event, NEW k
  PROVE  /\ Occurrences(event, k) = CountIn(wifiEvents, event, k)
         /\ Occurrences(event, k)' = CountIn(wifiEvents', event, k)
         /\ k \in Nat => Occurrences(event, k) \in Nat
<1>1. /\ Occurrences(event, k) = CountIn(wifiEvents, event, k)
      /\ Occurrences(event, k)' = CountIn(wifiEvents', event, k)
  BY DEF Occurrences, CountIn, Places
<1> QED
  BY <1>1, CountInNat

\* An event raised changes only the last count.
LEMMA RaiseCounted ==
  ASSUME DriverTypeOK, ApTypeOK, NEW event \in WifiEvents, Raise(event),
         UNCHANGED current_connections
  PROVE  /\ Len(wifiEvents') = Len(wifiEvents) + 1
         /\ \A k \in 0..Len(wifiEvents) : Counted(k)' = Counted(k)
         /\ Counted(Len(wifiEvents))' =
              CASE event = "AP_STACONNECTED"    -> Counted(Len(wifiEvents)) + 1
                [] event = "AP_STADISCONNECTED" -> Counted(Len(wifiEvents)) - 1
                [] OTHER                        -> Counted(Len(wifiEvents))
<1>0. PICK len \in Nat : len = Len(wifiEvents)
  BY DEF DriverTypeOK
<1>1. /\ wifiEvents \in Seq(WifiEvents)
      /\ wifiEvents' = Append(wifiEvents, event)
      /\ current_connections \in Int
      /\ current_connections' = current_connections
  BY DEF DriverTypeOK, ApTypeOK, Raise
<1>2. Len(wifiEvents') = len + 1
  BY <1>0, <1>1
<1>3. ASSUME NEW e
      PROVE  /\ \A k \in 0..len : Occurrences(e, k)' = Occurrences(e, k)
             /\ Occurrences(e, len + 1)' =
                  IF event = e THEN Occurrences(e, len) + 1
                               ELSE Occurrences(e, len)
  <2>1. /\ \A k \in 0..len :
             CountIn(wifiEvents', e, k) = CountIn(wifiEvents, e, k)
        /\ CountIn(wifiEvents', e, len + 1) =
             IF event = e THEN CountIn(wifiEvents, e, len) + 1
                          ELSE CountIn(wifiEvents, e, len)
    BY <1>0, <1>1, CountInAppend
  <2>2. \A k : Occurrences(e, k)' = CountIn(wifiEvents', e, k)
    BY DEF Occurrences, CountIn, Places
  <2>3. \A k : Occurrences(e, k) = CountIn(wifiEvents, e, k)
    BY OccurrencesCount
  <2> QED
    BY <2>1, <2>2, <2>3
<1>4. \A e : \A k \in 0..len : Occurrences(e, k) \in Int
  BY OccurrencesCount
<1>5. \A k \in 0..len : Counted(k)' = Counted(k)
  BY <1>1, <1>3 DEF Counted
<1>6. len \in 0..len
  OBVIOUS
<1>7. Counted(len + 1)' =
        CASE event = "AP_STACONNECTED"    -> Counted(len) + 1
          [] event = "AP_STADISCONNECTED" -> Counted(len) - 1
          [] OTHER                        -> Counted(len)
  BY <1>1, <1>3, <1>4, <1>6 DEF Counted
<1> QED
  BY <1>0, <1>2, <1>5, <1>7

\* An event handled moves from the queue to the count.
LEMMA DispatchCounted ==
  ASSUME DriverTypeOK, ApTypeOK, NEW event, Dispatch(event),
         current_connections' =
           CASE event = "AP_STACONNECTED"    -> current_connections + 1
             [] event = "AP_STADISCONNECTED" -> current_connections - 1
             [] OTHER                        -> current_connections
  PROVE  /\ Len(wifiEvents) = Len(wifiEvents') + 1
         /\ \A k \in 0..Len(wifiEvents') : Counted(k)' = Counted(k + 1)
<1>1. /\ wifiEvents \in Seq(WifiEvents)
      /\ wifiEvents # <<>>
      /\ event = Head(wifiEvents)
      /\ wifiEvents' = Tail(wifiEvents)
      /\ current_connections \in Int
  BY DEF DriverTypeOK, ApTypeOK, Dispatch
<1>2. PICK len \in Nat : len = Len(wifiEvents') /\ Len(wifiEvents) = len + 1
  <2>1. Len(wifiEvents') \in Nat /\ Len(wifiEvents) = Len(wifiEvents') + 1
    BY <1>1
  <2> QED
    BY <2>1
<1>3. ASSUME NEW e, NEW k \in 0..len
      PROVE  /\ Occurrences(e, k + 1) =
                  IF event = e THEN Occurrences(e, k)' + 1
                               ELSE Occurrences(e, k)'
             /\ Occurrences(e, k)' \in Nat
  <2>1. CountIn(wifiEvents, e, k + 1) =
          IF event = e THEN CountIn(wifiEvents', e, k) + 1
                       ELSE CountIn(wifiEvents', e, k)
    BY <1>1, <1>2, CountInTail
  <2>2. CountIn(wifiEvents', e, k) \in Nat
    BY CountInNat
  <2>3. Occurrences(e, k)' = CountIn(wifiEvents', e, k)
    BY OccurrencesCount
  <2>4. Occurrences(e, k + 1) = CountIn(wifiEvents, e, k + 1)
    BY OccurrencesCount
  <2> QED
    BY <2>1, <2>2, <2>3, <2>4
<1>4. ASSUME NEW k \in 0..len
      PROVE  Counted(k)' = Counted(k + 1)
  <2>1. PICK up \in Nat, down \in Nat :
             /\ Occurrences("AP_STACONNECTED", k)' = up
             /\ Occurrences("AP_STADISCONNECTED", k)' = down
    BY <1>3
  <2>2. PICK c \in Int : c = current_connections
    BY <1>1
  <2>3. Counted(k)' = current_connections' + up - down
    BY <2>1 DEF Counted
  <2>4. Counted(k + 1) =
          c + Occurrences("AP_STACONNECTED", k + 1)
            - Occurrences("AP_STADISCONNECTED", k + 1)
    BY <2>2 DEF Counted
  <2>5. CASE event = "AP_STACONNECTED"
    <3>1. current_connections' = c + 1
      BY <2>2, <2>5
    <3>2. /\ Occurrences("AP_STACONNECTED", k + 1) = up + 1
          /\ Occurrences("AP_STADISCONNECTED", k + 1) = down
      BY <1>3, <2>1, <2>5
    <3>3. (c + 1) + up - down = c + (up + 1) - down
      OBVIOUS
    <3> QED
      BY <2>3, <2>4, <3>1, <3>2, <3>3
  <2>6. CASE event = "AP_STADISCONNECTED"
    <3>1. current_connections' = c - 1
      BY <2>2, <2>6
    <3>2. /\ Occurrences("AP_STACONNECTED", k + 1) = up
          /\ Occurrences("AP_STADISCONNECTED", k + 1) = down + 1
      BY <1>3, <2>1, <2>6
    <3>3. (c - 1) + up - down = c + up - (down + 1)
      OBVIOUS
    <3> QED
      BY <2>3, <2>4, <3>1, <3>2, <3>3
  <2>7. CASE event \notin ApEvents
    <3>1. event # "AP_STACONNECTED" /\ event # "AP_STADISCONNECTED"
      BY <2>7 DEF ApEvents
    <3>2. current_connections' = c
      BY <2>2, <3>1
    <3>3. /\ Occurrences("AP_STACONNECTED", k + 1) = up
          /\ Occurrences("AP_STADISCONNECTED", k + 1) = down
      BY <1>3, <2>1, <3>1
    <3> QED
      BY <2>3, <2>4, <3>2, <3>3
  <2> QED
    BY <2>5, <2>6, <2>7 DEF ApEvents
<1> QED
  BY <1>2, <1>4

-----------------------------------------------------------------------------
(* Who adds events, who takes them, and what they do to the count. *)

\* The steps of the other tasks, by what they do to the queue: the driver raises
\* an event of the station or, with its number of clients, one of the access
\* point; sys_evt dispatches one, and counts it if the handler is registered.
LEMMA EventFlow ==
  ASSUME SysEvtStep \/ IdleStep \/ RequestArrives \/ HttpStep \/ MqttTaskStep
           \/ DriverStep
  PROVE  \/ UNCHANGED <<clients, wifiEvents, current_connections>>
         \/ /\ \E event \in StaEvents : Raise(event) \/ Dispatch(event)
            /\ UNCHANGED <<clients, current_connections>>
         \/ ClientJoins /\ UNCHANGED current_connections
         \/ ClientLeaves /\ UNCHANGED current_connections
         \/ OnStationEvent
         \/ /\ \E event \in ApEvents : Dispatch(event)
            /\ ~ap_handlers
            /\ UNCHANGED <<clients, current_connections>>
<1> USE DEF driverVars, apVars, StaEvents, ApEvents
<1>1. CASE StaEvent
  <2>1. CASE OnStaStart \/ OnDisconnectedRetry \/ OnDisconnectedGiveUp \/ OnGotIp
    BY <1>1, <2>1 DEF StaEvent, OnStaStart, OnDisconnectedRetry,
         OnDisconnectedGiveUp, OnGotIp
  <2>2. CASE SetFailBit
    BY <1>1, <2>2 DEF StaEvent, SetFailBit
  <2> QED
    BY <1>1, <2>1, <2>2 DEF StaEvent
<1>2. CASE StaEventPanics \/ StaPost
  BY <1>2 DEF StaEventPanics, Panic, StaPost, PostFailedAttempts
<1>3. CASE ApEvent
  BY <1>3 DEF ApEvent
<1>4. CASE UnhandledEvent
  BY <1>4 DEF UnhandledEvent, WifiEvents
<1>5. CASE IdleStep
  BY <1>5 DEF IdleStep, IdleCheck, PostIdle
<1>6. CASE RequestArrives \/ HttpStep \/ MqttTaskStep
  BY <1>6 DEF RequestArrives, HttpStep, HandlerStep, UploadAborts,
       Panic, MqttTaskStep
<1>7. CASE DriverStep
  BY <1>7 DEF DriverStep, LinkUp, LinkDown
<1> QED
  BY <1>1, <1>2, <1>3, <1>4, <1>5, <1>6, <1>7 DEF SysEvtStep

\* Nobody is counted, and nothing queued for the access point, while it is not up.
LEMMA FreshOthers ==
  ASSUME IInv, ApFresh,
         SysEvtStep \/ IdleStep \/ RequestArrives \/ HttpStep \/ MqttTaskStep
           \/ DriverStep
  PROVE  ApFresh'
<1>1. DriverTypeOK /\ (mode = "ap" => ap_netif) /\ (ap_handlers => ap_netif)
  BY DEF IInv, TypeOK, Owners
<1>2. /\ UNCHANGED <<pc, mode, ap_handlers, sta_netif, ap_netif>>
      /\ idleTask' # "none" => idleTask # "none"
  BY OthersKeepModes DEF taskVars
<1>3. mode' # "ap" => clients' = 0
  <2>1. CASE ClientJoins \/ ClientLeaves
    BY <1>1, <1>2, <2>1 DEF ClientJoins, ClientLeaves, ApFresh, DriverTypeOK
  <2>2. CASE OnStationEvent
    BY <1>2, <2>2 DEF OnStationEvent, ApFresh
  <2> QED
    BY <1>2, <2>1, <2>2, EventFlow DEF ApFresh
<1>4. mode # "ap" /\ ~Queued(ApEvents) =>
        ~Queued(ApEvents)' /\ current_connections' = current_connections
  <2> SUFFICES ASSUME mode # "ap", ~Queued(ApEvents)
               PROVE  ~Queued(ApEvents)' /\ current_connections' = current_connections
    OBVIOUS
  <2>1. CASE UNCHANGED <<wifiEvents, current_connections>>
    BY <2>1 DEF Queued
  <2>2. CASE /\ \E event \in StaEvents : Raise(event) \/ Dispatch(event)
             /\ UNCHANGED current_connections
    <3>1. PICK event \in StaEvents : Raise(event) \/ Dispatch(event)
      BY <2>2
    <3>2. event \in WifiEvents /\ event \notin ApEvents
      BY DEF StaEvents, WifiEvents, ApEvents
    <3> QED
      BY <1>1, <2>2, <3>1, <3>2, RaiseQueued, DispatchQueued
  <2>3. \A event \in ApEvents : ~Dispatch(event)
    BY <1>1 DEF DriverTypeOK, Dispatch, Queued
  <2>4. ~ClientJoins /\ ~ClientLeaves
    BY DEF ClientJoins, ClientLeaves, ApFresh
  <2> QED
    BY <2>1, <2>2, <2>3, <2>4, EventFlow DEF OnStationEvent, ApEvents
<1>5. ASSUME NEW t \in Tasks, pc[t] = "ap_scan"
      PROVE  current_connections' = current_connections
  <2>1. ~ap_netif
    BY <1>5 DEF IInv, ModeAt
  <2>2. ~ap_handlers /\ mode # "ap"
    BY <1>1, <2>1
  <2> QED
    BY <2>2, EventFlow DEF OnStationEvent
<1> QED
  BY <1>2, <1>3, <1>4, <1>5 DEF ApFresh

\* main and second_loop bring an access point up from the reset of the count on;
\* aug_wifi_ap_stop unregisters the handler only once the idle task is gone.
LEMMA FreshStep ==
  ASSUME IInv, FailInv, ApFresh, Next
  PROVE  ApFresh'
<1> USE DEF FailInv, ApFresh, IInv, TypeOK, TaskTypeOK, DriverTypeOK, StaTypeOK,
         ApTypeOK, HandlersKnow, TurnsTaken, ModeAt, ModesExclusive, Owners, Tasks,
         MainLabels, LoopLabels, BeforeRegister, ConnectLabels, StaLabels, ApLabels,
         StopLabels, ApStopping, At, Go, Return, driverVars, staVars, apVars,
         taskVars
<1>1. ASSUME NEW t \in Tasks,
             StaCreateStep(t) \/ StaRegisterStep(t) \/ StaStartStep(t)
               \/ StaRejected(t) \/ StaWaitStep(t)
      PROVE  ApFresh'
  <2>1. ~Queued(ApEvents) => ~Queued(ApEvents)'
    <3>1. CASE UNCHANGED wifiEvents
      BY <3>1 DEF Queued
    <3>2. CASE Raise("STA_START")
      BY <3>2, RaiseQueued DEF WifiEvents, ApEvents
    <3> QED
      BY <1>1, <3>1, <3>2 DEF StaCreateStep, StaRegisterStep, StaStartStep,
           StaStart, StartStation, StaRejected, StaWaitStep
  <2>2. CASE StaCreateStep(t) \/ StaRegisterStep(t)
    BY <2>1, <2>2 DEF StaCreateStep, StaCreate, StaRegisterStep, StaRegister
  <2>3. CASE StaStartStep(t)
    BY <2>1, <2>3 DEF StaStartStep, StaStart, StartStation
  <2>4. CASE StaRejected(t) \/ StaWaitStep(t)
    BY <2>1, <2>4 DEF StaRejected, StaWaitStep, AfterConnect
  <2> QED
    BY <1>1, <2>2, <2>3, <2>4
<1>2. ASSUME NEW t \in Tasks,
             ApResetStep(t) \/ ApScanStep(t) \/ ApCreateStep(t)
               \/ ApRegisterStep(t) \/ ApStartStep(t)
      PROVE  ApFresh'
  <2>1. Queued(ApEvents)' <=> Queued(ApEvents)
    BY <1>2 DEF ApResetStep, ApScanStep, ApCreateStep, ApRegisterStep, ApStartStep,
         ApStart, StartAccessPoint, Queued
  <2>2. CASE ApResetStep(t)
    BY <2>1, <2>2 DEF ApResetStep, ApReset
  <2>3. CASE ApScanStep(t)
    <3>1. ~Queued(ApEvents)
      BY <2>3 DEF ApScanStep, Queued
    <3> QED
      BY <2>1, <2>3, <3>1 DEF ApScanStep
  <2>4. CASE ApCreateStep(t) \/ ApRegisterStep(t)
    BY <2>1, <2>4 DEF ApCreateStep, ApCreate, ApRegisterStep, ApRegister
  <2>5. CASE ApStartStep(t)
    BY <2>1, <2>5 DEF ApStartStep, ApStart, StartAccessPoint, AfterConnect
  <2> QED
    BY <1>2, <2>2, <2>3, <2>4, <2>5
<1>3. ASSUME NEW t \in Tasks,
             HttpStartStep(t) \/ MqttStartStep(t) \/ MqttStartFails(t)
      PROVE  ApFresh'
  BY <1>3 DEF HttpStartStep, MqttStartStep, MqttStartFails, Panic, Queued
<1>4. CASE Boot \/ RegisterStep \/ SensorsStep \/ MqttInitStep
  BY <1>4 DEF Boot, RegisterStep, SensorsStep, MqttInitStep, Panic, Queued
<1>5. CASE EventLost \/ CallbackStarts \/ SetUriStep \/ MqttStopStep
  BY <1>5 DEF EventLost, CallbackStarts, SetUriStep, MqttStopStep, Panic, Queued
<1>6. CASE HttpStopStep
  BY <1>6 DEF HttpStopStep, AfterHttp, AfterSta, Stopped, Queued
<1>7. CASE StaForgetStep \/ StaUnregisterStep \/ StaReleaseStep
  BY <1>7 DEF StaForgetStep, StaForgetLoop, StaUnregisterStep, StaUnregister,
       StaReleaseStep, StaRelease, StopDriver, AfterSta, Stopped, Queued
<1>8. CASE \/ ApZeroStep \/ ApDeleteTaskStep \/ ApUnregisterStep \/ ApReleaseStep
           \/ WriteNvsStep
  BY <1>8 DEF ApZeroStep, ApZero, ApDeleteTaskStep, ApDeleteIdleTask,
       ApUnregisterStep, ApUnregister, ApReleaseStep, ApRelease, StopDriver,
       Stopped, WriteNvsStep, Queued
<1>9. CASE SysEvtStep \/ IdleStep \/ RequestArrives \/ HttpStep \/ MqttTaskStep
             \/ DriverStep
  BY <1>9, FreshOthers
<1>10. CASE Reboot
  BY <1>10 DEF Reboot, BootPc
<1> QED
  BY <1>1, <1>2, <1>3, <1>4, <1>5, <1>6, <1>7, <1>8, <1>9, <1>10
  DEF Next, MainStep, LoopStep, ConnectStep

\* While the idle task lives, no step of main or second_loop touches the count
\* but the one that starts the task, and the one after which it is deleted.
LEMMA TasksKeepCount ==
  ASSUME IInv, ApFresh, MainStep \/ LoopStep, Counting'
  PROVE  \/ \E t \in Tasks : ApStartStep(t)
         \/ Counting /\ UNCHANGED <<clients, wifiEvents, current_connections>>
<1> USE DEF Counting, ApFresh, IInv, TypeOK, TaskTypeOK, StaTypeOK, ApTypeOK,
         TurnsTaken, ModeAt, ModesExclusive, Owners, Tasks, MainLabels, LoopLabels,
         BeforeRegister, ConnectLabels, StaLabels, ApLabels, StopLabels, ApStopping,
         At, Go, Return, driverVars, staVars, apVars, taskVars
<1>1. ASSUME NEW t \in Tasks, ConnectStep(t), ~ApStartStep(t)
      PROVE  Counting /\ UNCHANGED <<clients, wifiEvents, current_connections>>
  <2>1. CASE StaCreateStep(t) \/ StaRegisterStep(t) \/ StaStartStep(t)
               \/ StaRejected(t) \/ StaWaitStep(t)
    BY <1>1, <2>1 DEF StaCreateStep, StaRegisterStep, StaStartStep, StaStart,
         StartStation, StaRejected, StaWaitStep, AfterConnect
  <2>2. CASE ApResetStep(t) \/ ApScanStep(t) \/ ApCreateStep(t)
               \/ ApRegisterStep(t)
    BY <1>1, <2>2 DEF ApResetStep, ApReset, ApScanStep, ApCreateStep, ApCreate,
         ApRegisterStep, ApRegister
  <2>3. CASE HttpStartStep(t) \/ MqttStartStep(t) \/ MqttStartFails(t)
    BY <1>1, <2>3 DEF HttpStartStep, MqttStartStep, MqttStartFails, Panic
  <2> QED
    BY <1>1, <2>1, <2>2, <2>3 DEF ConnectStep
<1>2. CASE Boot \/ RegisterStep \/ SensorsStep \/ MqttInitStep
  BY <1>2 DEF Boot, RegisterStep, SensorsStep, MqttInitStep, Panic
<1>3. CASE EventLost \/ CallbackStarts \/ SetUriStep \/ MqttStopStep
  BY <1>3 DEF EventLost, CallbackStarts, SetUriStep, MqttStopStep, Panic
<1>4. CASE HttpStopStep \/ StaForgetStep \/ StaUnregisterStep \/ WriteNvsStep
  BY <1>4 DEF HttpStopStep, StaForgetStep, StaUnregisterStep, WriteNvsStep
<1>5. CASE StaReleaseStep \/ ApZeroStep \/ ApDeleteTaskStep \/ ApUnregisterStep
           \/ ApReleaseStep
  BY <1>5 DEF StaReleaseStep, ApZeroStep, ApZero, ApDeleteTaskStep,
       ApDeleteIdleTask, ApUnregisterStep, ApUnregister, ApReleaseStep, ApRelease
<1> QED
  BY <1>1, <1>2, <1>3, <1>4, <1>5 DEF MainStep, LoopStep

\* The count stays exact and in range.
LEMMA CountStep ==
  ASSUME IInv, TypeOK', ApFresh, CountMatches, CountInRange, Next
  PROVE  CountMatches' /\ CountInRange'
<1> SUFFICES ASSUME Counting'
             PROVE  /\ Counted(Len(wifiEvents))' = clients'
                    /\ \A k \in 0..Len(wifiEvents') : Counted(k)' \in 0..MaxClients
  BY DEF CountMatches, CountInRange
<1>1. /\ DriverTypeOK /\ ApTypeOK
      /\ clients \in 0..MaxClients /\ clients' \in 0..MaxClients
      /\ 0 \in 0..MaxClients
  BY MaxClientsAssumption DEF IInv, TypeOK, DriverTypeOK
<1>2. Len(wifiEvents) \in Nat /\ Len(wifiEvents') \in Nat
  BY DEF IInv, TypeOK, DriverTypeOK
<1>3. ASSUME NEW t \in Tasks, ApStartStep(t)
      PROVE  /\ Counted(Len(wifiEvents))' = clients'
             /\ \A k \in 0..Len(wifiEvents') : Counted(k)' \in 0..MaxClients
  <2>1. /\ pc[t] = "ap_start"
        /\ UNCHANGED <<clients, wifiEvents, current_connections>>
    BY <1>3 DEF ApStartStep, At, ApStart, StartAccessPoint
  <2>2. clients = 0 /\ current_connections = 0 /\ ~Queued(ApEvents)
    BY <2>1 DEF ApFresh
  <2>3. ASSUME NEW k \in 0..Len(wifiEvents)
        PROVE  Counted(k) = 0
    <3>1. \A n \in 1..k : wifiEvents[n] \notin ApEvents
      BY <1>2, <2>2 DEF Queued
    <3>2. \A event \in ApEvents : Occurrences(event, k) = 0
      BY <1>2, <3>1, CountInNone, OccurrencesCount
    <3> QED
      BY <2>2, <3>2 DEF Counted, ApEvents
  <2>4. \A k : Counted(k)' = Counted(k)
    BY <2>1 DEF Counted, Occurrences
  <2> QED
    BY <1>1, <1>2, <2>1, <2>2, <2>3, <2>4 DEF Counted, Occurrences
<1>4. CASE Counting /\ UNCHANGED <<clients, wifiEvents, current_connections>>
  <2>1. \A k : Counted(k)' = Counted(k)
    BY <1>4 DEF Counted, Occurrences
  <2>2. Counted(Len(wifiEvents))' = Counted(Len(wifiEvents))
    BY <1>4 DEF Counted, Occurrences
  <2> QED
    BY <1>4, <2>1, <2>2 DEF CountMatches, CountInRange
<1>5. CASE SysEvtStep \/ IdleStep \/ RequestArrives \/ HttpStep \/ MqttTaskStep
             \/ DriverStep
  <2>1. /\ ap_handlers
        /\ Counted(Len(wifiEvents)) = clients
        /\ \A k \in 0..Len(wifiEvents) : Counted(k) \in 0..MaxClients
    <3>1. pc' = pc /\ idleTask # "none"
      BY <1>5, OthersKeepModes DEF Counting, taskVars
    <3> QED
      BY <3>1 DEF Counting, ApFresh, CountMatches, CountInRange
  <2>2. ASSUME NEW event \in WifiEvents, Raise(event),
               UNCHANGED current_connections,
               clients' = CASE event = "AP_STACONNECTED"    -> clients + 1
                            [] event = "AP_STADISCONNECTED" -> clients - 1
                            [] OTHER                        -> clients
        PROVE  /\ Counted(Len(wifiEvents))' = clients'
               /\ \A k \in 0..Len(wifiEvents') : Counted(k)' \in 0..MaxClients
    <3>1. /\ Len(wifiEvents') = Len(wifiEvents) + 1
          /\ \A k \in 0..Len(wifiEvents) : Counted(k)' = Counted(k)
      BY <1>1, <2>2, RaiseCounted
    <3>2. Counted(Len(wifiEvents))' = clients'
      BY <1>1, <2>1, <2>2, RaiseCounted
    <3>3. PICK len \in Nat : len = Len(wifiEvents')
      BY <1>2
    <3>4. Counted(len)' = clients'
      BY <3>2, <3>3 DEF Counted, Occurrences
    <3> QED
      BY <1>1, <1>2, <2>1, <3>1, <3>2, <3>3, <3>4
  <2>3. ASSUME NEW event, Dispatch(event), UNCHANGED clients,
               current_connections' =
                 CASE event = "AP_STACONNECTED"    -> current_connections + 1
                   [] event = "AP_STADISCONNECTED" -> current_connections - 1
                   [] OTHER                        -> current_connections
        PROVE  /\ Counted(Len(wifiEvents))' = clients'
               /\ \A k \in 0..Len(wifiEvents') : Counted(k)' \in 0..MaxClients
    <3>1. /\ Len(wifiEvents) = Len(wifiEvents') + 1
          /\ \A k \in 0..Len(wifiEvents') : Counted(k)' = Counted(k + 1)
      BY <1>1, <2>3, DispatchCounted
    <3>2. PICK len \in Nat : len = Len(wifiEvents')
      BY <1>2
    <3>3. Counted(Len(wifiEvents))' = Counted(len)'
      BY <3>2 DEF Counted, Occurrences
    <3> QED
      BY <1>2, <2>1, <2>3, <3>1, <3>2, <3>3
  <2>4. CASE ClientJoins /\ UNCHANGED current_connections
    BY <1>1, <2>2, <2>4 DEF ClientJoins, WifiEvents
  <2>5. CASE ClientLeaves /\ UNCHANGED current_connections
    BY <1>1, <2>2, <2>5 DEF ClientLeaves, WifiEvents
  <2>6. CASE /\ \E event \in StaEvents : Raise(event) \/ Dispatch(event)
             /\ UNCHANGED <<clients, current_connections>>
    <3>1. PICK event \in StaEvents : Raise(event) \/ Dispatch(event)
      BY <2>6
    <3>2. event \in WifiEvents /\ event \notin ApEvents
      BY DEF StaEvents, WifiEvents, ApEvents
    <3> QED
      BY <2>2, <2>3, <2>6, <3>1, <3>2 DEF ApEvents
  <2>7. CASE OnStationEvent
    BY <2>3, <2>7 DEF OnStationEvent
  <2>8. CASE UNCHANGED <<clients, wifiEvents, current_connections>>
    <3>1. Counting
      BY <1>5, OthersKeepModes DEF Counting, taskVars
    <3> QED
      BY <1>4, <2>8, <3>1
  <2> QED
    BY <1>5, <2>1, <2>4, <2>5, <2>6, <2>7, <2>8, EventFlow
<1>6. CASE MainStep \/ LoopStep
  BY <1>3, <1>4, <1>6, TasksKeepCount
<1>7. CASE Reboot
  BY <1>7 DEF Reboot, Counting
<1> QED
  BY <1>5, <1>6, <1>7 DEF Next

-----------------------------------------------------------------------------
(* The wait for a bit. *)

\* While the station's driver runs with its handler registered, every event that
\* is handled leaves another reason to go on: a new attempt, which may fail, a bit,
\* or the post before the bit.
LEMMA FedOthers ==
  ASSUME IInv, sta_handlers, mode = "sta", UpAnnounced, Fed,
         SysEvtStep \/ IdleStep \/ RequestArrives \/ HttpStep \/ MqttTaskStep
           \/ DriverStep
  PROVE  UpAnnounced' /\ Fed'
<1> USE DEF UpAnnounced, Fed
<1>1. /\ DriverTypeOK
      /\ link \in {"down", "joining", "up"}
  BY DEF IInv, TypeOK, DriverTypeOK
<1>2. Queued({"GOT_IP"})' => Queued(StaEvents)'
  BY DEF Queued, StaEvents
<1>3. CASE UNCHANGED <<link, wifiEvents, sysEvt, bits, refused>>
  BY <1>3 DEF Queued
<1>4. CASE OnStaStart
  <2>1. /\ Dispatch("STA_START")
        /\ \/ link' = IF link = "down" THEN "joining" ELSE link
           \/ UNCHANGED link /\ refused'
        /\ UNCHANGED <<bits, sysEvt>>
    BY <1>4 DEF OnStaStart, Connect, staVars
  <2>2. Queued({"GOT_IP"}) => Queued({"GOT_IP"})'
    BY <1>1, <2>1, DispatchQueued
  <2> QED
    BY <1>1, <1>2, <2>1, <2>2
<1>5. CASE OnDisconnectedRetry
  <2>1. /\ Dispatch("STA_DISCONNECTED")
        /\ \/ link' = IF link = "down" THEN "joining" ELSE link
           \/ UNCHANGED link /\ refused'
        /\ UNCHANGED <<bits, sysEvt>>
    BY <1>5 DEF OnDisconnectedRetry, Connect
  <2>2. Queued({"GOT_IP"}) => Queued({"GOT_IP"})'
    BY <1>1, <2>1, DispatchQueued
  <2> QED
    BY <1>1, <1>2, <2>1, <2>2
<1>6. CASE OnDisconnectedGiveUp
  <2>1. /\ Dispatch("STA_DISCONNECTED")
        /\ UNCHANGED <<link, bits>>
        /\ sysEvt' = "post"
    BY <1>6 DEF OnDisconnectedGiveUp
  <2>2. Queued({"GOT_IP"}) => Queued({"GOT_IP"})'
    BY <1>1, <2>1, DispatchQueued
  <2> QED
    BY <2>1, <2>2
<1>7. CASE SetFailBit \/ OnGotIp
  BY <1>7 DEF SetFailBit, OnGotIp
<1>8. CASE StaPost
  BY <1>8 DEF StaPost, PostFailedAttempts, staVars, Queued
<1>9. CASE ApEvent \/ UnhandledEvent
  <2>1. /\ \E event \in ApEvents : Dispatch(event)
        /\ UNCHANGED <<link, bits, sysEvt, refused>>
    BY <1>9 DEF ApEvent, OnStationEvent, UnhandledEvent, ApEvents, staVars
  <2>2. PICK event \in ApEvents : Dispatch(event)
    BY <2>1
  <2>3. /\ Queued({"GOT_IP"}) => Queued({"GOT_IP"})'
        /\ Queued(StaEvents) => Queued(StaEvents)'
    BY <1>1, <2>2, DispatchQueued DEF ApEvents, StaEvents
  <2> QED
    BY <2>1, <2>3
<1>10. CASE LinkUp \/ LinkDown
  <2>1. CASE LinkUp
    <3>1. Raise("GOT_IP")
      BY <2>1 DEF LinkUp
    <3>2. Queued({"GOT_IP"})'
      BY <1>1, <3>1, RaiseQueued DEF WifiEvents
    <3> QED
      BY <1>2, <3>2
  <2>2. CASE LinkDown
    <3>1. Raise("STA_DISCONNECTED") /\ link' = "down"
      BY <2>2 DEF LinkDown
    <3>2. Queued(StaEvents)'
      BY <1>1, <3>1, RaiseQueued DEF WifiEvents, StaEvents
    <3> QED
      BY <3>1, <3>2
  <2> QED
    BY <1>10, <2>1, <2>2
<1>11. CASE DriverStep /\ (ClientJoins \/ ClientLeaves)
  <2>1. /\ \E event \in ApEvents : Raise(event)
        /\ UNCHANGED <<link, sysEvt, bits, refused>>
    BY <1>11 DEF DriverStep, ClientJoins, ClientLeaves, ApEvents, staVars
  <2>2. PICK event \in ApEvents : Raise(event)
    BY <2>1
  <2>3. event \in WifiEvents
    BY DEF ApEvents, WifiEvents
  <2>4. /\ Queued({"GOT_IP"}) => Queued({"GOT_IP"})'
        /\ Queued(StaEvents) => Queued(StaEvents)'
    BY <1>1, <2>2, <2>3, RaiseQueued
  <2> QED
    BY <2>1, <2>4
<1>12. CASE StaEventPanics \/ IdleStep \/ RequestArrives \/ HttpStep \/ MqttTaskStep
  BY <1>3, <1>12 DEF StaEventPanics, Panic, IdleStep, RequestArrives,
       HttpStep, HandlerStep, UploadAborts, MqttTaskStep, driverVars, staVars
<1> QED
  BY <1>4, <1>5, <1>6, <1>7, <1>8, <1>9, <1>10, <1>11, <1>12
  DEF SysEvtStep, StaEvent, DriverStep

\* A link needs the driver in station mode.
LEMMA LinkOthers ==
  ASSUME mode # "sta" => link = "down",
         SysEvtStep \/ IdleStep \/ RequestArrives \/ HttpStep \/ MqttTaskStep
           \/ DriverStep
  PROVE  mode' # "sta" => link' = "down"
<1>1. mode' = mode
  BY OthersKeepModes
<1>2. CASE UNCHANGED link
  BY <1>1, <1>2
<1>3. CASE StaEvent
  BY <1>1, <1>3 DEF StaEvent, OnStaStart, OnDisconnectedRetry,
       OnDisconnectedGiveUp, SetFailBit, OnGotIp, Connect
<1>4. CASE DriverStep
  BY <1>1, <1>4 DEF DriverStep, LinkUp, LinkDown, ClientJoins, ClientLeaves
<1>5. CASE \/ StaEventPanics \/ StaPost \/ ApEvent \/ UnhandledEvent \/ IdleStep
           \/ RequestArrives \/ HttpStep \/ MqttTaskStep
  BY <1>2, <1>5 DEF StaEventPanics, Panic, StaPost, PostFailedAttempts, ApEvent,
       OnStationEvent, UnhandledEvent, IdleStep, RequestArrives, HttpStep,
       HandlerStep, UploadAborts, MqttTaskStep, driverVars
<1> QED
  BY <1>3, <1>4, <1>5 DEF SysEvtStep

\* aug_wifi_sta_connect starts the driver with its handler registered and the link
\* down, and nothing takes either away before it has its bit: second_loop is the
\* one that waits, or has not received an event yet.
LEMMA WaitInvStep ==
  ASSUME IInv, FailInv, WaitInv, Next
  PROVE  WaitInv'
<1> USE DEF FailInv, WaitInv, IInv, TypeOK, TaskTypeOK, DriverTypeOK, StaTypeOK,
         ApTypeOK, HandlersKnow, TurnsTaken, ModeAt, ModesExclusive, Owners, Tasks,
         MainLabels, LoopLabels, BeforeRegister, ConnectLabels, StaLabels, ApLabels,
         StopLabels, ApStopping, At, Go, Return, driverVars, staVars, taskVars
<1>1. ASSUME UNCHANGED <<link, wifiEvents, sysEvt, bits, refused>>
      PROVE  (UpAnnounced /\ Fed) => (UpAnnounced /\ Fed)'
  BY <1>1 DEF UpAnnounced, Fed, Queued
<1>2. ASSUME NEW t \in Tasks,
             StaCreateStep(t) \/ StaRegisterStep(t) \/ StaStartStep(t)
               \/ StaRejected(t) \/ StaWaitStep(t)
      PROVE  WaitInv'
  <2>1. CASE StaCreateStep(t) \/ StaRegisterStep(t)
    BY <2>1 DEF StaCreateStep, StaCreate, StaRegisterStep, StaRegister
  <2>2. CASE StaStartStep(t)
    <3>1. Queued(StaEvents)'
      BY <2>2, RaiseQueued DEF StaStartStep, StaStart, StartStation, WifiEvents,
           StaEvents
    <3>2. link' = "down" /\ mode' = "sta" /\ sta_handlers'
      BY <2>2 DEF StaStartStep, StaStart, StartStation
    <3>3. UpAnnounced' /\ Fed'
      BY <3>1, <3>2 DEF UpAnnounced, Fed
    <3> QED
      BY <2>2, <3>2, <3>3 DEF StaStartStep
  <2>3. CASE StaRejected(t) \/ StaWaitStep(t)
    BY <1>1, <2>3 DEF StaRejected, StaWaitStep, AfterConnect
  <2> QED
    BY <1>2, <2>1, <2>2, <2>3
<1>3. ASSUME NEW t \in Tasks,
             ApResetStep(t) \/ ApScanStep(t) \/ ApCreateStep(t)
               \/ ApRegisterStep(t) \/ ApStartStep(t)
      PROVE  WaitInv'
  BY <1>1, <1>3 DEF ApResetStep, ApScanStep, ApCreateStep, ApRegisterStep,
       ApStartStep, ApStart, StartAccessPoint, AfterConnect
<1>4. ASSUME NEW t \in Tasks,
             HttpStartStep(t) \/ MqttStartStep(t) \/ MqttStartFails(t)
      PROVE  WaitInv'
  BY <1>1, <1>4 DEF HttpStartStep, MqttStartStep, MqttStartFails, Panic
<1>5. CASE Boot \/ RegisterStep \/ SensorsStep \/ MqttInitStep
  BY <1>1, <1>5 DEF Boot, RegisterStep, SensorsStep, MqttInitStep, Panic
<1>6. CASE EventLost \/ CallbackStarts \/ SetUriStep \/ MqttStopStep
  BY <1>1, <1>6 DEF EventLost, CallbackStarts, SetUriStep, MqttStopStep, Panic
<1>7. CASE HttpStopStep
  BY <1>1, <1>7 DEF HttpStopStep, AfterHttp, AfterSta, Stopped
<1>8. CASE StaForgetStep \/ StaUnregisterStep \/ StaReleaseStep
  BY <1>1, <1>8 DEF StaForgetStep, StaForgetLoop, StaUnregisterStep, StaUnregister,
       StaReleaseStep, StaRelease, StopDriver, AfterSta, Stopped
<1>9. CASE \/ ApZeroStep \/ ApDeleteTaskStep \/ ApUnregisterStep \/ ApReleaseStep
           \/ WriteNvsStep
  BY <1>1, <1>9 DEF ApZeroStep, ApDeleteTaskStep, ApUnregisterStep, ApReleaseStep,
       ApRelease, StopDriver, Stopped, WriteNvsStep
<1>10. CASE SysEvtStep \/ IdleStep \/ RequestArrives \/ HttpStep \/ MqttTaskStep
              \/ DriverStep
  BY <1>10, OthersKeepModes, FedOthers, LinkOthers
<1>11. CASE Reboot
  BY <1>11 DEF Reboot, BootPc
<1> QED
  BY <1>2, <1>3, <1>4, <1>5, <1>6, <1>7, <1>8, <1>9, <1>10, <1>11
  DEF Next, MainStep, LoopStep, ConnectStep

-----------------------------------------------------------------------------
(* The theorems. *)

RadioInv == WaitInv /\ CountInv

\* Nothing waits and nothing counts when the device starts.
LEMMA InitRadio == Init => RadioInv
<1> SUFFICES ASSUME Init PROVE RadioInv
  OBVIOUS
<1> USE DEF Init, RamInit, BootPc, Tasks
<1>1. WaitInv
  BY DEF WaitInv, DriverInit
<1>2. ApFresh
  BY DEF ApFresh, DriverInit, ApInit
<1>3. CountMatches /\ CountInRange
  BY DEF CountMatches, CountInRange, Counting, ApInit
<1> QED
  BY <1>1, <1>2, <1>3 DEF RadioInv, CountInv

\* RadioInv is an invariant.
THEOREM RadioInvariance == Spec => []RadioInv
<1>1. IInv /\ IInv' /\ ServiceInv /\ RadioInv /\ [Next]_vars => RadioInv'
  <2> SUFFICES ASSUME IInv, IInv', ServiceInv, RadioInv, [Next]_vars
               PROVE  RadioInv'
    OBVIOUS
  <2>1. CASE Next
    <3>1. WaitInv' /\ ApFresh'
      BY <2>1, WaitInvStep, FreshStep DEF ServiceInv, RadioInv, CountInv
    <3>2. CountMatches' /\ CountInRange'
      BY <2>1, CountStep DEF IInv, RadioInv, CountInv
    <3> QED
      BY <3>1, <3>2 DEF RadioInv, CountInv
  <2>2. CASE UNCHANGED vars
    <3> USE <2>2 DEF vars, driverVars, staVars, apVars, taskVars, RadioInv, CountInv
    <3>1. WaitInv'
      BY DEF WaitInv, UpAnnounced, Fed, Queued
    <3>2. ApFresh'
      BY DEF ApFresh, Queued
    <3>3. CountMatches' /\ CountInRange'
      BY DEF CountMatches, CountInRange, Counting, Counted, Occurrences
    <3> QED
      BY <3>1, <3>2, <3>3
  <2> QED
    BY <2>1, <2>2
<1> QED
  BY InitRadio, <1>1, Invariance, ServiceInvariance, PTL DEF Spec

\* aug_wifi_sta_connect waits in vain, in main or in second_loop, only after an
\* esp_wifi_connect that failed, for any retry limit and however long the default
\* loop's queue is.
THEOREM WaitNeverInVain == Spec => []WaitAlwaysFed
<1>1. RadioInv => WaitAlwaysFed
  BY DEF RadioInv, WaitInv, Fed, Queued, WaitAlwaysFed
<1> QED
  BY RadioInvariance, <1>1, PTL

\* What current_connections says, with the events still queued, is the number of
\* stations associated, and never leaves 0..MaxClients on the way, whichever
\* events come first and for any number of stations.
THEOREM CountAlwaysExact == Spec => []CountExact
<1>1. RadioInv => CountExact
  BY DEF RadioInv, CountInv, CountExact
<1> QED
  BY RadioInvariance, <1>1, PTL

-----------------------------------------------------------------------------
(* A station that is down: event_handler has something to do, or gave up. *)

\* The events after which event_handler tries to connect.
TryEvents == {"STA_START", "STA_DISCONNECTED"}

Trying == \/ "FAIL" \in bits \/ sysEvt # "idle" \/ link # "down" \/ refused
          \/ Queued(TryEvents)

\* The handler stays registered while the station's driver runs, and has a reason
\* to try again until it gives up.
TryInv ==
    /\ mode = "sta" /\ pc["loop"] # "sta_release" => sta_handlers
    /\ mode = "sta" /\ sta_handlers => Trying

\* Every event that is handled leaves another reason to try, or the failure.
LEMMA TryOthers ==
  ASSUME IInv, sta_handlers, mode = "sta", Trying,
         SysEvtStep \/ IdleStep \/ RequestArrives \/ HttpStep \/ MqttTaskStep
           \/ DriverStep
  PROVE  Trying'
<1> USE DEF Trying
<1>1. DriverTypeOK
  BY DEF IInv, TypeOK
<1>2. CASE UNCHANGED <<link, wifiEvents, sysEvt, bits, refused>>
  BY <1>2 DEF Queued
<1>3. CASE OnStaStart \/ OnDisconnectedRetry
  BY <1>3 DEF OnStaStart, OnDisconnectedRetry, Connect
<1>4. CASE OnDisconnectedGiveUp
  BY <1>4 DEF OnDisconnectedGiveUp
<1>5. CASE SetFailBit
  BY <1>5 DEF SetFailBit
<1>6. CASE OnGotIp
  <2>1. /\ Dispatch("GOT_IP")
        /\ UNCHANGED <<link, sysEvt, refused>>
        /\ "FAIL" \in bits => "FAIL" \in bits'
    BY <1>6 DEF OnGotIp
  <2>2. Queued(TryEvents) => Queued(TryEvents)'
    BY <1>1, <2>1, DispatchQueued DEF TryEvents
  <2> QED
    BY <2>1, <2>2
<1>7. CASE StaPost
  BY <1>7 DEF StaPost, PostFailedAttempts
<1>8. CASE ApEvent \/ UnhandledEvent
  <2>1. /\ \E event \in ApEvents : Dispatch(event)
        /\ UNCHANGED <<link, bits, sysEvt, refused>>
    BY <1>8 DEF ApEvent, OnStationEvent, UnhandledEvent, ApEvents, staVars
  <2>2. PICK event \in ApEvents : Dispatch(event)
    BY <2>1
  <2>3. Queued(TryEvents) => Queued(TryEvents)'
    BY <1>1, <2>2, DispatchQueued DEF ApEvents, TryEvents
  <2> QED
    BY <2>1, <2>3
<1>9. CASE LinkUp
  BY <1>9 DEF LinkUp
<1>10. CASE LinkDown
  <2>1. Raise("STA_DISCONNECTED")
    BY <1>10 DEF LinkDown
  <2>2. Queued(TryEvents)'
    BY <1>1, <2>1, RaiseQueued DEF WifiEvents, TryEvents
  <2> QED
    BY <2>2
<1>11. CASE DriverStep /\ (ClientJoins \/ ClientLeaves)
  <2>1. /\ \E event \in ApEvents : Raise(event)
        /\ UNCHANGED <<link, sysEvt, bits, refused>>
    BY <1>11 DEF DriverStep, ClientJoins, ClientLeaves, ApEvents, staVars
  <2>2. PICK event \in ApEvents : Raise(event)
    BY <2>1
  <2>3. Queued(TryEvents) => Queued(TryEvents)'
    BY <1>1, <2>2, RaiseQueued DEF ApEvents, WifiEvents
  <2> QED
    BY <2>1, <2>3
<1>12. CASE StaEventPanics \/ IdleStep \/ RequestArrives \/ HttpStep \/ MqttTaskStep
  BY <1>2, <1>12 DEF StaEventPanics, Panic, IdleStep, RequestArrives,
       HttpStep, HandlerStep, UploadAborts, MqttTaskStep, driverVars, staVars
<1> QED
  BY <1>3, <1>4, <1>5, <1>6, <1>7, <1>8, <1>9, <1>10, <1>11, <1>12
  DEF SysEvtStep, StaEvent, DriverStep

\* The two tasks start the driver with its handler registered and STA_START queued,
\* and unregister the handler only to stop the driver next.
LEMMA TryStep ==
  ASSUME IInv, FailInv, WaitInv, TryInv, Next
  PROVE  TryInv'
<1> USE DEF TryInv, IInv, TypeOK, TaskTypeOK, DriverTypeOK, StaTypeOK, ApTypeOK,
         TurnsTaken, ModeAt, Owners, Tasks, MainLabels, LoopLabels,
         BeforeRegister, ConnectLabels, StaLabels, ApLabels, ApStopping, At, Go,
         Return, driverVars, staVars, taskVars
<1>1. ASSUME UNCHANGED <<link, wifiEvents, sysEvt, bits, refused>>
      PROVE  Trying' <=> Trying
  BY <1>1 DEF Trying, Queued
<1>2. ASSUME NEW t \in Tasks, StaCreateStep(t) \/ StaRegisterStep(t)
      PROVE  TryInv'
  <2>1. mode # "sta"
    BY <1>2 DEF StaCreateStep, StaRegisterStep, FailInv
  <2> QED
    BY <1>2, <2>1 DEF StaCreateStep, StaRegisterStep
<1>3. ASSUME NEW t \in Tasks, StaStartStep(t)
      PROVE  TryInv'
  <2>1. Queued(TryEvents)'
    BY <1>3, RaiseQueued DEF StaStartStep, StaStart, StartStation, WifiEvents,
         TryEvents
  <2>2. sta_handlers'
    BY <1>3 DEF StaStartStep, StaStart, WaitInv
  <2> QED
    BY <2>1, <2>2 DEF Trying
<1>4. ASSUME NEW t \in Tasks, StaRejected(t) \/ StaWaitStep(t)
      PROVE  TryInv'
  BY <1>1, <1>4 DEF StaRejected, StaWaitStep, AfterConnect
<1>5. ASSUME NEW t \in Tasks,
             ApResetStep(t) \/ ApScanStep(t) \/ ApCreateStep(t)
               \/ ApRegisterStep(t) \/ ApStartStep(t)
      PROVE  TryInv'
  BY <1>1, <1>5 DEF ApResetStep, ApScanStep, ApCreateStep, ApRegisterStep,
       ApStartStep, ApStart, StartAccessPoint, AfterConnect
<1>6. ASSUME NEW t \in Tasks,
             HttpStartStep(t) \/ MqttStartStep(t) \/ MqttStartFails(t)
      PROVE  TryInv'
  BY <1>1, <1>6 DEF HttpStartStep, MqttStartStep, MqttStartFails, Panic
<1>7. CASE Boot \/ RegisterStep \/ SensorsStep \/ MqttInitStep
  BY <1>1, <1>7 DEF Boot, RegisterStep, SensorsStep, MqttInitStep, Panic
<1>8. CASE EventLost \/ CallbackStarts \/ SetUriStep \/ MqttStopStep
  BY <1>1, <1>8 DEF EventLost, CallbackStarts, SetUriStep, MqttStopStep, Panic
<1>9. CASE HttpStopStep
  BY <1>1, <1>9 DEF HttpStopStep
<1>10. CASE StaForgetStep \/ StaUnregisterStep
  BY <1>1, <1>10 DEF StaForgetStep, StaForgetLoop, StaUnregisterStep, StaUnregister
<1>11. CASE StaReleaseStep \/ ApReleaseStep
  BY <1>11 DEF StaReleaseStep, StaRelease, ApReleaseStep, ApRelease, StopDriver
<1>12. CASE ApZeroStep \/ ApDeleteTaskStep \/ ApUnregisterStep \/ WriteNvsStep
  BY <1>1, <1>12 DEF ApZeroStep, ApDeleteTaskStep, ApUnregisterStep, WriteNvsStep
<1>13. CASE SysEvtStep \/ IdleStep \/ RequestArrives \/ HttpStep \/ MqttTaskStep
              \/ DriverStep
  BY <1>13, OthersKeepModes, TryOthers
<1>14. CASE Reboot
  BY <1>14 DEF Reboot
<1> QED
  BY <1>2, <1>3, <1>4, <1>5, <1>6, <1>7, <1>8, <1>9, <1>10, <1>11, <1>12, <1>13,
     <1>14
  DEF Next, MainStep, LoopStep, ConnectStep

-----------------------------------------------------------------------------
(* What SessionHistory records. *)

Excused == Announced \/ lostAt \in BeforeRegister

\* A failure is in the queue, or was discarded before the events were registered,
\* until second_loop begins to stop the station.
SilentInv ==
    sta_netif /\ pc["loop"] \notin StopLabels
              /\ (sysEvt = "setbits" \/ "FAIL" \in bits)
        => Excused

\* The counter is made of this session's failures and of what it inherited.
AttemptInv ==
    /\ carried \in Nat
    /\ retry_num <= carried + failures

\* The records: lostAt changes only as the session ends or its event is discarded.
LEMMA ExcuseKept ==
  ASSUME LoopTypeOK, FailInv, Excused, RecordLost, ~StaReleaseStep, ~Reboot,
         EventLost \/ (lostAt' = lostAt /\ (Announced => Announced'))
  PROVE  Excused'
<1>1. CASE EventLost
  <2>1. PICK event \in Events : Receive(event)
    BY <1>1 DEF EventLost
  <2>2. event = Head(queue) /\ ~registered
    BY <1>1, <2>1 DEF EventLost, Receive
  <2>3. pc["main"] \in BeforeRegister
    BY <2>2 DEF FailInv
  <2>4. CASE event = "FAILED_ATTEMPTS"
    BY <1>1, <2>2, <2>3, <2>4 DEF RecordLost, Excused
  <2>5. CASE event # "FAILED_ATTEMPTS"
    <3>1. lostAt' = lostAt
      BY <2>2, <2>5 DEF RecordLost
    <3> QED
      BY <2>1, <2>5, <3>1, ReceiveKeepsAnnounced DEF Excused
  <2> QED
    BY <2>4, <2>5
<1>2. CASE lostAt' = lostAt /\ (Announced => Announced')
  BY <1>2 DEF Excused
<1> QED
  BY <1>1, <1>2

\* Only second_loop, which is idle then, discards an event.
LEMMA LostKept ==
  ASSUME RecordLost, ~StaReleaseStep, ~Reboot, ~EventLost
  PROVE  lostAt' = lostAt
BY DEF RecordLost

\* The event precedes the bit; after it is received as a callback, second_loop stops
\* the station before it rests again.
LEMMA SilentStep ==
  ASSUME IInv, FailInv, SilentInv, Next, RecordLost
  PROVE  SilentInv'
<1> USE DEF IInv, TypeOK, TaskTypeOK, DriverTypeOK, StaTypeOK, ApTypeOK, TurnsTaken,
         ModeAt, Owners, Tasks, LoopLabels, ConnectLabels, StaLabels, ApLabels,
         StopLabels, ApStopping, At, Go, Return, driverVars, staVars, taskVars,
         loopVars
<1>1. ASSUME UNCHANGED <<sta_netif, sysEvt, bits>>, Excused => Excused',
             pc["loop"] \in StopLabels => pc'["loop"] \in StopLabels
      PROVE  SilentInv'
  BY <1>1 DEF SilentInv
<1>2. ASSUME UNCHANGED queue, ~StaReleaseStep, ~Reboot, ~EventLost
      PROVE  Excused => Excused'
  BY <1>2, LostKept DEF Excused, Announced
<1>3. ASSUME NEW t \in Tasks, StaCreateStep(t)
      PROVE  SilentInv'
  <2>1. bits' = {} /\ sysEvt' = sysEvt
    BY <1>3 DEF StaCreateStep, StaCreate
  <2>2. sysEvt = "idle"
    BY <1>3 DEF StaCreateStep
  <2> QED
    BY <2>1, <2>2 DEF SilentInv
<1>4. CASE StaReleaseStep
  BY <1>4 DEF StaReleaseStep, StaRelease, SilentInv
<1>5. CASE Reboot
  BY <1>5 DEF Reboot, SilentInv
<1>6. CASE EventLost
  <2>1. ~StaReleaseStep /\ ~Reboot
    BY <1>6 DEF EventLost, StaReleaseStep, Reboot
  <2>2. Excused => Excused'
    BY <1>6, <2>1, ExcuseKept
  <2> QED
    BY <1>1, <1>6, <2>2 DEF EventLost
<1>7. CASE CallbackStarts
  <2>1. PICK event \in Events :
             /\ Receive(event)
             /\ pc' = [pc EXCEPT !["loop"] =
                         IF event = "INIT_MQTT" THEN "set_uri" ELSE "mqtt_stop"]
    BY <1>7 DEF CallbackStarts
  <2>2. CASE event = "INIT_MQTT"
    <3>1. ~StaReleaseStep /\ ~Reboot /\ ~EventLost
      BY <1>7 DEF CallbackStarts, EventLost, StaReleaseStep, Reboot
    <3>2. Excused => Excused'
      BY <2>1, <2>2, <3>1, LostKept, ReceiveKeepsAnnounced DEF Excused
    <3> QED
      BY <1>1, <1>7, <3>2 DEF CallbackStarts
  <2>3. CASE event # "INIT_MQTT"
    BY <2>1, <2>3 DEF SilentInv
  <2> QED
    BY <2>2, <2>3
<1>8. CASE /\ SysEvtStep \/ IdleStep \/ RequestArrives \/ HttpStep \/ MqttTaskStep
                \/ DriverStep
           /\ ~StaReleaseStep /\ ~Reboot /\ ~EventLost
  <2>1. UNCHANGED <<sta_netif, pc>>
    BY <1>8, OthersKeepModes
  <2>2. /\ Announced => Announced'
        /\ sysEvt' = "setbits" /\ sysEvt # "setbits" => Announced'
        /\ "FAIL" \in bits' => "FAIL" \in bits \/ sysEvt = "setbits"
    BY <1>8, OthersAnnounce
  <2>3. lostAt' = lostAt
    BY <1>8, LostKept
  <2> QED
    BY <2>1, <2>2, <2>3 DEF SilentInv, Excused
<1>9. ASSUME NEW t \in Tasks,
             StaRegisterStep(t) \/ StaStartStep(t) \/ StaRejected(t) \/ StaWaitStep(t),
             ~StaReleaseStep, ~Reboot, ~EventLost
      PROVE  SilentInv'
  BY <1>1, <1>2, <1>9 DEF StaRegisterStep, StaRegister, StaStartStep, StaStart,
       StartStation, StaRejected, StaWaitStep, AfterConnect
<1>10. ASSUME NEW t \in Tasks,
              ApResetStep(t) \/ ApScanStep(t) \/ ApCreateStep(t)
                \/ ApRegisterStep(t) \/ ApStartStep(t),
              ~StaReleaseStep, ~Reboot, ~EventLost
       PROVE  SilentInv'
  BY <1>1, <1>2, <1>10 DEF ApResetStep, ApScanStep, ApCreateStep, ApRegisterStep,
       ApStartStep, ApStart, StartAccessPoint, AfterConnect
<1>11. ASSUME NEW t \in Tasks,
              HttpStartStep(t) \/ MqttStartStep(t) \/ MqttStartFails(t),
              ~StaReleaseStep, ~Reboot, ~EventLost
       PROVE  SilentInv'
  BY <1>1, <1>2, <1>11 DEF HttpStartStep, MqttStartStep, MqttStartFails, Panic
<1>12. CASE /\ Boot \/ RegisterStep \/ SensorsStep \/ MqttInitStep
            /\ ~StaReleaseStep /\ ~Reboot /\ ~EventLost
  BY <1>1, <1>2, <1>12 DEF Boot, RegisterStep, RegisterEvents, SensorsStep,
       MqttInitStep, Panic
<1>13. CASE /\ SetUriStep \/ MqttStopStep \/ WriteNvsStep
            /\ ~StaReleaseStep /\ ~Reboot /\ ~EventLost
  BY <1>1, <1>2, <1>13 DEF SetUriStep, MqttStopStep, WriteNvsStep, Panic
<1>14. CASE HttpStopStep \/ ApReleaseStep
  BY <1>14 DEF HttpStopStep, AfterHttp, ApReleaseStep, SilentInv
<1>15. CASE \/ StaForgetStep \/ StaUnregisterStep
            \/ ApZeroStep \/ ApDeleteTaskStep \/ ApUnregisterStep
  BY <1>15 DEF StaForgetStep, StaUnregisterStep, ApZeroStep, ApDeleteTaskStep,
       ApUnregisterStep, SilentInv
<1> QED
  BY <1>3, <1>4, <1>5, <1>6, <1>7, <1>8, <1>9, <1>10, <1>11, <1>12, <1>13, <1>14,
     <1>15
  DEF Next, MainStep, LoopStep, ConnectStep

\* Only event_handler and aug_wifi_sta_disconnect write the counters.
LEMMA RetryFlow ==
  ASSUME Next
  PROVE  \/ retry_num' = 0
         \/ UNCHANGED <<retry_num, failures>>
         \/ OnDisconnectedRetry
         \/ OnDisconnectedGiveUp
         \/ StaReleaseStep
<1> USE DEF staVars
<1>1. CASE SysEvtStep
  BY <1>1 DEF SysEvtStep, StaEvent, OnStaStart, SetFailBit, OnGotIp, StaEventPanics,
       Panic, StaPost, PostFailedAttempts, ApEvent, UnhandledEvent
<1>2. CASE IdleStep \/ RequestArrives \/ HttpStep \/ MqttTaskStep \/ DriverStep
  BY <1>2 DEF IdleStep, RequestArrives, HttpStep, HandlerStep, UploadAborts,
       Panic, MqttTaskStep, DriverStep
<1>3. CASE Boot \/ RegisterStep \/ SensorsStep \/ MqttInitStep
  BY <1>3 DEF Boot, RegisterStep, SensorsStep, MqttInitStep, Panic
<1>4. ASSUME NEW t \in Tasks, ConnectStep(t)
      PROVE  UNCHANGED <<retry_num, failures>>
  <2>1. CASE StaCreateStep(t) \/ StaRegisterStep(t) \/ StaStartStep(t)
               \/ StaRejected(t) \/ StaWaitStep(t)
    BY <2>1 DEF StaCreateStep, StaCreate, StaRegisterStep, StaRegister, StaStartStep,
         StaStart, StaRejected, StaWaitStep
  <2>2. CASE ApResetStep(t) \/ ApScanStep(t) \/ ApCreateStep(t)
               \/ ApRegisterStep(t) \/ ApStartStep(t)
    BY <2>2 DEF ApResetStep, ApScanStep, ApCreateStep, ApRegisterStep, ApStartStep
  <2>3. CASE HttpStartStep(t) \/ MqttStartStep(t) \/ MqttStartFails(t)
    BY <2>3 DEF HttpStartStep, MqttStartStep, MqttStartFails, Panic
  <2> QED
    BY <1>4, <2>1, <2>2, <2>3 DEF ConnectStep
<1>5. CASE EventLost \/ CallbackStarts \/ SetUriStep \/ MqttStopStep \/ HttpStopStep
  BY <1>5 DEF EventLost, CallbackStarts, SetUriStep, MqttStopStep, HttpStopStep, Panic
<1>6. CASE StaForgetStep \/ StaUnregisterStep
  BY <1>6 DEF StaForgetStep, StaForgetLoop, StaUnregisterStep, StaUnregister
<1>7. CASE \/ ApZeroStep \/ ApDeleteTaskStep \/ ApUnregisterStep \/ ApReleaseStep
           \/ WriteNvsStep
  BY <1>7 DEF ApZeroStep, ApDeleteTaskStep, ApUnregisterStep, ApReleaseStep,
       WriteNvsStep
<1>8. CASE Reboot
  BY <1>8 DEF Reboot
<1> QED
  BY <1>1, <1>2, <1>3, <1>4, <1>5, <1>6, <1>7, <1>8
  DEF Next, MainStep, LoopStep, Tasks

\* A disconnection counts for both, an address and the failure clear the counter,
\* and what a session leaves in it is inherited.
LEMMA AttemptStep ==
  ASSUME IInv, IInv', AttemptInv, Next, RecordCarried
  PROVE  AttemptInv'
<1>1. /\ MaxRetry \in Nat
      /\ retry_num \in 0..MaxRetry /\ failures \in 0..(MaxRetry + 1)
      /\ retry_num' \in 0..MaxRetry /\ failures' \in 0..(MaxRetry + 1)
  BY MaxRetryAssumption DEF IInv, TypeOK, StaTypeOK
<1>2. carried \in Nat /\ retry_num <= carried + failures
  BY DEF AttemptInv
<1>3. CASE StaReleaseStep
  <2>1. retry_num' = retry_num /\ carried' = retry_num
    BY <1>3 DEF RecordCarried, StaReleaseStep, StaRelease
  <2>2. failures' = 0
    BY <1>3 DEF StaReleaseStep, StaRelease
  <2>3. retry_num \in Nat
    BY <1>1
  <2>4. retry_num <= retry_num + 0
    BY <2>3
  <2> QED
    BY <2>1, <2>2, <2>3, <2>4 DEF AttemptInv
<1>4. CASE retry_num' = 0 /\ ~StaReleaseStep
  <2>1. carried' = 0
    BY <1>4 DEF RecordCarried
  <2>2. failures' \in Nat
    BY <1>1
  <2>3. \A n \in Nat : 0 <= 0 + n
    OBVIOUS
  <2>4. 0 <= 0 + failures' /\ 0 \in Nat
    BY <2>2, <2>3
  <2> QED
    BY <1>4, <2>1, <2>4 DEF AttemptInv
<1>5. ASSUME ~StaReleaseStep, retry_num' # 0
      PROVE  carried' = carried
  BY <1>5 DEF RecordCarried
<1>6. CASE UNCHANGED <<retry_num, failures>> /\ ~StaReleaseStep /\ retry_num' # 0
  BY <1>2, <1>5, <1>6 DEF AttemptInv
<1>7. CASE OnDisconnectedRetry /\ ~StaReleaseStep /\ retry_num' # 0
  <2>1. /\ retry_num' = retry_num + 1
        /\ failures' = IF failures <= MaxRetry THEN failures + 1 ELSE failures
    BY <1>7 DEF OnDisconnectedRetry
  <2>2. failures' = failures + 1 \/ failures' = MaxRetry + 1
    BY <1>1, <2>1
  <2>3. retry_num' <= carried + failures'
    BY <1>1, <1>2, <2>1, <2>2
  <2> QED
    BY <1>2, <1>5, <1>7, <2>3 DEF AttemptInv
<1>8. CASE OnDisconnectedGiveUp /\ ~StaReleaseStep /\ retry_num' # 0
  <2>1. /\ retry_num' = retry_num
        /\ failures' = IF failures <= MaxRetry THEN failures + 1 ELSE failures
    BY <1>8 DEF OnDisconnectedGiveUp
  <2>2. failures' >= failures
    BY <1>1, <2>1
  <2>3. retry_num' <= carried + failures'
    BY <1>1, <1>2, <2>1, <2>2
  <2> QED
    BY <1>2, <1>5, <1>8, <2>3 DEF AttemptInv
<1> QED
  BY <1>3, <1>4, <1>6, <1>7, <1>8, RetryFlow

\* event_handler begins to post only by giving up.
LEMMA PostBegins ==
  ASSUME Next, sysEvt = "idle", sysEvt' = "post"
  PROVE  OnDisconnectedGiveUp
<1> USE DEF driverVars
<1>1. CASE SysEvtStep
  BY <1>1 DEF SysEvtStep, StaEvent, OnStaStart, OnDisconnectedRetry, SetFailBit,
       OnGotIp, StaEventPanics, Panic, StaPost, PostFailedAttempts, ApEvent,
       OnStationEvent, UnhandledEvent
<1>2. CASE IdleStep \/ RequestArrives \/ HttpStep \/ MqttTaskStep
  BY <1>2 DEF IdleStep, RequestArrives, HttpStep, HandlerStep, UploadAborts,
       Panic, MqttTaskStep
<1>3. CASE DriverStep
  BY <1>3 DEF DriverStep, LinkUp, LinkDown, ClientJoins, ClientLeaves
<1>4. CASE Boot \/ RegisterStep \/ SensorsStep \/ MqttInitStep
  BY <1>4 DEF Boot, RegisterStep, SensorsStep, MqttInitStep, Panic
<1>5. ASSUME NEW t \in Tasks, ConnectStep(t)
      PROVE  FALSE
  <2>1. CASE StaCreateStep(t) \/ StaRegisterStep(t) \/ StaStartStep(t)
               \/ StaRejected(t) \/ StaWaitStep(t)
    BY <2>1 DEF StaCreateStep, StaRegisterStep, StaStartStep, StaStart, StartStation,
         StaRejected, StaWaitStep
  <2>2. CASE ApResetStep(t) \/ ApScanStep(t) \/ ApCreateStep(t)
               \/ ApRegisterStep(t) \/ ApStartStep(t)
    BY <2>2 DEF ApResetStep, ApScanStep, ApCreateStep, ApRegisterStep, ApStartStep,
         ApStart, StartAccessPoint
  <2>3. CASE HttpStartStep(t) \/ MqttStartStep(t) \/ MqttStartFails(t)
    BY <2>3 DEF HttpStartStep, MqttStartStep, MqttStartFails, Panic
  <2> QED
    BY <1>5, <2>1, <2>2, <2>3 DEF ConnectStep
<1>6. CASE EventLost \/ CallbackStarts \/ SetUriStep \/ MqttStopStep \/ HttpStopStep
  BY <1>6 DEF EventLost, CallbackStarts, SetUriStep, MqttStopStep, HttpStopStep, Panic
<1>7. CASE StaForgetStep \/ StaUnregisterStep \/ StaReleaseStep
  BY <1>7 DEF StaForgetStep, StaUnregisterStep, StaReleaseStep, StaRelease, StopDriver
<1>8. CASE \/ ApZeroStep \/ ApDeleteTaskStep \/ ApUnregisterStep \/ ApReleaseStep
           \/ WriteNvsStep
  BY <1>8 DEF ApZeroStep, ApDeleteTaskStep, ApUnregisterStep, ApReleaseStep,
       ApRelease, StopDriver, WriteNvsStep
<1>9. CASE Reboot
  BY <1>9 DEF Reboot
<1> QED
  BY <1>1, <1>2, <1>3, <1>4, <1>5, <1>6, <1>7, <1>8, <1>9
  DEF Next, MainStep, LoopStep, Tasks

\* A station whose driver was never started had its configuration refused.
RejectInv ==
    sta_netif /\ mode = "off" /\ pc["loop"] \notin StopLabels
              /\ (\A t \in Tasks : pc[t] \notin {"sta_register", "sta_start"})
        => rejected

\* The other tasks keep the mode, and the record ends with the station only.
LEMMA RejectedKept ==
  ASSUME RecordRejected, ~StaReleaseStep, ~Reboot, rejected
  PROVE  rejected'
BY DEF RecordRejected

\* A station that is created is started or refused; when a task is done stopping
\* modules, there is none.
LEMMA RejectStep ==
  ASSUME IInv, WaitInv, RejectInv, Next, RecordRejected
  PROVE  RejectInv'
<1> USE DEF IInv, WaitInv, RejectInv, TypeOK, TaskTypeOK, TurnsTaken, ModeAt,
         ModesExclusive, Owners, Tasks, MainLabels, LoopLabels, BeforeRegister,
         ConnectLabels, StaLabels, ApLabels, StopLabels, ApStopping, At, Go, Return,
         driverVars, staVars, taskVars
<1>1. CASE StaReleaseStep
  BY <1>1 DEF StaReleaseStep, StaRelease
<1>2. CASE Reboot
  BY <1>2 DEF Reboot
<1>3. ASSUME UNCHANGED <<sta_netif, mode>>, ~StaReleaseStep, ~Reboot,
             pc["loop"] \in StopLabels => pc'["loop"] \in StopLabels,
             \A t \in Tasks : pc[t] \in {"sta_register", "sta_start"} => pc'[t] = pc[t]
      PROVE  RejectInv'
  BY <1>3, RejectedKept
<1>4. ASSUME NEW t \in Tasks, StaCreateStep(t) \/ StaRegisterStep(t)
      PROVE  RejectInv'
  BY <1>4 DEF StaCreateStep, StaRegisterStep
<1>5. ASSUME NEW t \in Tasks, StaStartStep(t)
      PROVE  RejectInv'
  BY <1>5 DEF StaStartStep, StaStart, StartStation
<1>6. ASSUME NEW t \in Tasks, StaRejected(t), ~StaReleaseStep, ~Reboot
      PROVE  RejectInv'
  BY <1>6 DEF RecordRejected
<1>7. ASSUME NEW t \in Tasks, StaWaitStep(t)
      PROVE  RejectInv'
  BY <1>7 DEF StaWaitStep
<1>8. ASSUME NEW t \in Tasks,
             ApResetStep(t) \/ ApScanStep(t) \/ ApCreateStep(t)
               \/ ApRegisterStep(t) \/ ApStartStep(t)
      PROVE  RejectInv'
  BY <1>8 DEF ApResetStep, ApScanStep, ApCreateStep, ApRegisterStep, ApStartStep,
       ApStart, StartAccessPoint
<1>9. ASSUME NEW t \in Tasks, ~StaReleaseStep, ~Reboot,
             HttpStartStep(t) \/ MqttStartStep(t) \/ MqttStartFails(t)
      PROVE  RejectInv'
  BY <1>3, <1>9 DEF HttpStartStep, MqttStartStep, MqttStartFails, Panic
<1>10. CASE /\ Boot \/ RegisterStep \/ SensorsStep \/ MqttInitStep
            /\ ~StaReleaseStep /\ ~Reboot
  BY <1>3, <1>10 DEF Boot, RegisterStep, SensorsStep, MqttInitStep, Panic
<1>11. CASE /\ EventLost \/ CallbackStarts \/ SetUriStep \/ MqttStopStep
            /\ ~StaReleaseStep /\ ~Reboot
  BY <1>3, <1>11 DEF EventLost, CallbackStarts, SetUriStep, MqttStopStep, Panic
<1>12. CASE HttpStopStep
  BY <1>12 DEF HttpStopStep, AfterHttp, AfterSta, Stopped
<1>13. CASE /\ StaForgetStep \/ StaUnregisterStep \/ ApZeroStep \/ ApDeleteTaskStep
                 \/ ApUnregisterStep \/ WriteNvsStep
            /\ ~StaReleaseStep /\ ~Reboot
  BY <1>13 DEF StaForgetStep, StaUnregisterStep, ApZeroStep, ApDeleteTaskStep,
       ApUnregisterStep, WriteNvsStep
<1>14. CASE ApReleaseStep
  BY <1>14 DEF ApReleaseStep
<1>15. CASE /\ SysEvtStep \/ IdleStep \/ RequestArrives \/ HttpStep \/ MqttTaskStep
                 \/ DriverStep
            /\ ~StaReleaseStep /\ ~Reboot
  BY <1>3, <1>15, OthersKeepModes
<1> QED
  BY <1>1, <1>2, <1>4, <1>5, <1>6, <1>7, <1>8, <1>9, <1>10, <1>11, <1>12, <1>13,
     <1>14, <1>15
  DEF Next, MainStep, LoopStep, ConnectStep

\* The records constrain nothing.
LEMMA HistoryIsOfDevice == HistorySpec => Spec
<1>1. [HistoryNext]_<<vars, historyVars>> => [Next]_vars
  BY DEF HistoryNext
<1> QED
  BY <1>1, PTL DEF HistorySpec, Spec

SessionInv == TryInv /\ SilentInv /\ AttemptInv /\ RejectInv

\* SessionInv is an invariant of the device with its records.
THEOREM SessionInvariance == HistorySpec => []SessionInv
<1>1. Init /\ HistoryInit => SessionInv
  BY DEF Init, RamInit, DriverInit, StaInit, HistoryInit, SessionInv, TryInv,
       SilentInv, AttemptInv, RejectInv
<1>2. IInv /\ IInv' /\ ServiceInv /\ RadioInv /\ SessionInv
        /\ [HistoryNext]_<<vars, historyVars>> => SessionInv'
  <2> SUFFICES ASSUME IInv, IInv', ServiceInv, RadioInv, SessionInv,
                      [HistoryNext]_<<vars, historyVars>>
               PROVE  SessionInv'
    OBVIOUS
  <2>1. CASE HistoryNext
    <3>1. FailInv /\ WaitInv /\ TryInv /\ SilentInv /\ AttemptInv /\ RejectInv
      BY DEF ServiceInv, RadioInv, SessionInv
    <3>2. Next /\ RecordCarried /\ RecordLost /\ RecordRejected
      BY <2>1 DEF HistoryNext
    <3>3. TryInv'
      BY <3>1, <3>2, TryStep
    <3>4. SilentInv'
      BY <3>1, <3>2, SilentStep
    <3>5. AttemptInv'
      BY <3>1, <3>2, AttemptStep
    <3>6. RejectInv'
      BY <3>1, <3>2, RejectStep
    <3> QED
      BY <3>3, <3>4, <3>5, <3>6 DEF SessionInv
  <2>2. CASE UNCHANGED <<vars, historyVars>>
    <3> USE <2>2 DEF vars, historyVars, loopVars, driverVars, staVars, taskVars,
             SessionInv
    <3>1. TryInv'
      BY DEF TryInv, Trying, Queued
    <3>2. SilentInv'
      BY DEF SilentInv, Excused, Announced
    <3>3. AttemptInv' /\ RejectInv'
      BY DEF AttemptInv, RejectInv
    <3> QED
      BY <3>1, <3>2, <3>3
  <2> QED
    BY <2>1, <2>2
<1> QED
  BY <1>1, <1>2, HistoryIsOfDevice, Invariance, ServiceInvariance, RadioInvariance,
     PTL DEF HistorySpec

\* A session that gives up has failed more than MaxRetry times, but for the retries
\* the session before it left behind, for every retry limit.
THEOREM AttemptsAlwaysCounted == HistorySpec => AttemptsCounted
<1>1. IInv /\ SessionInv /\ [HistoryNext]_<<vars, historyVars>>
        => [sysEvt = "idle" /\ sysEvt' = "post" => carried + failures' > MaxRetry]_
             <<sysEvt, carried, failures>>
  <2> SUFFICES ASSUME IInv, SessionInv, HistoryNext,
                      sysEvt = "idle", sysEvt' = "post"
               PROVE  carried + failures' > MaxRetry
    BY DEF vars, historyVars, driverVars, staVars
  <2>1. /\ retry_num >= MaxRetry
        /\ failures' = IF failures <= MaxRetry THEN failures + 1 ELSE failures
    BY PostBegins DEF HistoryNext, OnDisconnectedGiveUp, GivesUp
  <2>2. /\ MaxRetry \in Nat /\ carried \in Nat
        /\ retry_num \in 0..MaxRetry /\ failures \in 0..(MaxRetry + 1)
        /\ retry_num <= carried + failures
    BY MaxRetryAssumption DEF IInv, TypeOK, StaTypeOK, SessionInv, AttemptInv
  <2>3. failures' >= failures + 1 \/ failures' = MaxRetry + 1
    BY <2>1, <2>2
  <2>4. failures' \in Nat
    BY <2>1, <2>2
  <2> QED
    BY <2>1, <2>2, <2>3, <2>4
<1> QED
  BY <1>1, SessionInvariance, HistoryIsOfDevice, Invariance,
     PTL DEF HistorySpec, AttemptsCounted

\* A station that is down with nothing pending has its event queued, or failed in
\* one of three ways: the event was discarded before main_init had registered it, the
\* driver refused the configuration, or esp_wifi_connect failed; for every retry
\* limit and queue, and all that clients ask.
THEOREM SilenceAlwaysExplained == HistorySpec => []SilenceExplained
<1>1. IInv /\ SessionInv => SilenceExplained
  <2> SUFFICES ASSUME IInv, SessionInv, Resting, sta_netif,
                      pc["main"] \notin {"sta_register", "sta_start"},
                      link = "down", wifiEvents = <<>>, sysEvt = "idle"
               PROVE  Announced \/ lostAt \in BeforeRegister \/ rejected \/ refused
    BY DEF SilenceExplained
  <2>1. pc["loop"] = "idle" /\ mode \in {"off", "sta"}
    BY DEF IInv, TypeOK, DriverTypeOK, ModesExclusive, Owners, Resting
  <2>2. CASE mode = "sta"
    <3>1. ~Queued(TryEvents)
      BY DEF Queued
    <3>2. "FAIL" \in bits \/ refused
      BY <2>1, <2>2, <3>1 DEF SessionInv, TryInv, Trying
    <3> QED
      BY <2>1, <3>2 DEF SessionInv, SilentInv, Excused, StopLabels
  <2>3. CASE mode = "off"
    BY <2>1, <2>3 DEF SessionInv, RejectInv, StopLabels, Tasks
  <2> QED
    BY <2>1, <2>2, <2>3
<1> QED
  BY <1>1, SessionInvariance, HistoryIsOfDevice, Invariance, PTL

\* A station has its MQTT client running, or FAILED_ATTEMPTS queued, or was refused
\* by the driver: a callback that stopped the client has started it again unless the
\* connection failed.
THEOREM StationAlwaysPublishes == HistorySpec => []StationPublishes
<1>1. IInv /\ ServiceInv /\ SessionInv => StationPublishes
  <2> SUFFICES ASSUME IInv, ServiceInv, SessionInv, Booted, panic = "none",
                      pc["loop"] \in {"idle", "set_uri"}, sta_netif
               PROVE  Running \/ Announced \/ rejected
    BY DEF StationPublishes
  <2>1. pc["main"] = "done" /\ mode \in {"off", "sta"}
    BY DEF IInv, TypeOK, DriverTypeOK, ModesExclusive, Owners, Booted
  <2>2. CASE mode = "sta"
    BY <2>1, <2>2 DEF ServiceInv, ClientInv
  <2>3. CASE mode = "off"
    BY <2>1, <2>3 DEF SessionInv, RejectInv, StopLabels, Tasks
  <2> QED
    BY <2>1, <2>2, <2>3
<1> QED
  BY <1>1, SessionInvariance, HistoryIsOfDevice, Invariance, ServiceInvariance, PTL
=============================================================================
