------------------------------ MODULE EventLoop ------------------------------
(***************************************************************************)
(* The user event loop "second_loop" of main.c: a queue of QueueSize       *)
(* events drained by a task of its own.  Every producer of the firmware    *)
(* posts with portMAX_DELAY, so a post to a full queue blocks its task     *)
(* until a slot is free: Post is enabled only when CanPost holds.  An      *)
(* event received while no handler is registered is discarded.             *)
(***************************************************************************)
EXTENDS Integers, Sequences

CONSTANT
    QueueSize   \* event_loop_args.queue_size, 2 in main.c

ASSUME QueueSizeAssumption == QueueSize \in Nat \ {0}

Events == {"FAILED_ATTEMPTS", "IDLE", "INIT_STA", "INIT_MQTT", "OTA_UPDATE",
           "RESTART"}

VARIABLES
    queue,      \* events posted and not yet received by second_loop
    registered  \* register_events() has run

loopVars == <<queue, registered>>

LoopTypeOK ==
    /\ queue \in Seq(Events)
    /\ Len(queue) <= QueueSize
    /\ registered \in BOOLEAN

LoopInit ==
    /\ queue = <<>>
    /\ registered = FALSE

CanPost == Len(queue) < QueueSize

\* Mutant of Post: the queue takes one event too many.
PostPastTheEnd(event) ==
    /\ Len(queue) <= QueueSize
    /\ queue' = Append(queue, event)
    /\ UNCHANGED registered

\* esp_event_post_to(.., portMAX_DELAY), the step in which it returns.
Post(event) ==
    /\ CanPost
    /\ queue' = Append(queue, event)
    /\ UNCHANGED registered

\* second_loop receives the oldest event.
Receive(event) ==
    /\ queue # <<>>
    /\ event = Head(queue)
    /\ queue' = Tail(queue)
    /\ UNCHANGED registered

\* register_events(): one handler for each event.
RegisterEvents ==
    /\ registered' = TRUE
    /\ UNCHANGED queue
==============================================================================
