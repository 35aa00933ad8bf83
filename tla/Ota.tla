--------------------------------- MODULE Ota ----------------------------------
(***************************************************************************)
(* ota_update_handler of aug_http_server.c, the partitions of the flash    *)
(* and the bootloader.  The flash has a factory partition and two for      *)
(* updates (CONFIG_PARTITION_TABLE_TWO_OTA) and keeps what is written      *)
(* through every reset; a file comes in pieces, and a partition boots when *)
(* it holds every piece of a firmware.                                     *)
(*                                                                         *)
(* The state otadata keeps of an image is never "pending verify", because  *)
(* CONFIG_BOOTLOADER_APP_ROLLBACK_ENABLE is not set: verify_app of main.c  *)
(* finds nothing to do.                                                    *)
(***************************************************************************)
EXTENDS EventLoop, FiniteSets

CONSTANTS
    Files,       \* the files clients upload
    Firmwares,   \* those that are firmwares for this device
    Size         \* the pieces of a firmware

ASSUME OtaAssumption ==
    /\ Firmwares \subseteq Files
    /\ Files \cap {"factory", "none"} = {}
    /\ Size \in Nat \ {0}

Partitions == {0, 1, 2}   \* factory, ota_0, ota_1
Contents == [file : Files \cup {"factory", "none"}, pieces : 0..Size]
Erased == [file |-> "none", pieces |-> 0]

VARIABLES
    flash,      \* what each partition holds
    boot,       \* the partition otadata selects
    running,    \* the partition the firmware runs from
    httpd,      \* the httpd task: off, waiting, the step of the handler, or "other":
                \* another handler is about to post its event
    left,       \* content_len, in pieces
    file,       \* the file the client sends
    promised    \* history: the file of the last upload, once answered 200

flashVars == <<flash, boot>>
uploadVars == <<httpd, left, file>>
otaVars == <<flashVars, running, uploadVars, promised>>

OtaTypeOK ==
    /\ flash \in [Partitions -> Contents]
    /\ boot \in Partitions
    /\ running \in Partitions
    /\ httpd \in {"off", "wait", "other", "receive", "select", "post", "reply"}
    /\ left \in 0..Size
    /\ file \in Files \cup {"none"}
    /\ promised \in Files \cup {"none"}

OtaInit ==
    /\ flash = [p \in Partitions |->
                   IF p = 0 THEN [file |-> "factory", pieces |-> Size] ELSE Erased]
    /\ boot = 0
    /\ running = 0
    /\ httpd = "off"
    /\ left = 0
    /\ file = "none"
    /\ promised = "none"

\* The image check of the bootloader, esp_ota_end and esp_ota_set_boot_partition.
Bootable(p) ==
    flash[p].file \in Firmwares \cup {"factory"} /\ flash[p].pieces = Size

\* The bootloader takes the selected partition if it boots; otherwise the
\* nearest one before it, and then the nearest after it.
BootPartition ==
    LET upTo == {p \in Partitions : p <= boot /\ Bootable(p)}
        past == {p \in Partitions : p > boot /\ Bootable(p)}
    IN  IF upTo # {} THEN CHOOSE p \in upTo : \A q \in upTo : q <= p
                     ELSE CHOOSE p \in past : \A q \in past : p <= q

\* Mutant of Target: asks for the one after the selected one.
TargetOfBoot == IF boot = 1 THEN 2 ELSE 1

\* esp_ota_get_next_update_partition(NULL): the one after the running one.
Target == IF running = 1 THEN 2 ELSE 1
-----------------------------------------------------------------------------
(* ota_update_handler.  A client that falls silent makes httpd_req_recv time *)
(* out and the loop call it again, for as long as it takes.                   *)

\* The handler begins: esp_ota_begin erases the partition.
UploadStarts ==
    /\ httpd = "wait"
    /\ flash' = [flash EXCEPT ![Target] = Erased]
    /\ httpd' = "receive"
    /\ file' \in Files
    /\ left' \in 0..Size
    /\ promised' = "none"
    /\ UNCHANGED <<boot, running, loopVars>>

HandlerReturns == httpd' = "wait" /\ left' = 0 /\ file' = "none"

\* httpd_req_recv and esp_ota_write.
ReceivePiece ==
    /\ httpd = "receive"
    /\ left > 0
    /\ flash' = [flash EXCEPT ![Target] =
                    [file |-> file, pieces |-> flash[Target].pieces + 1]]
    /\ left' = left - 1
    /\ UNCHANGED <<boot, running, httpd, file, promised, loopVars>>

\* The connection breaks or the write fails: the partition stays as it is, and
\* the OTA handle is not released.
ReceiveFails ==
    /\ httpd = "receive"
    /\ left > 0
    /\ HandlerReturns
    /\ UNCHANGED <<flash, boot, running, promised, loopVars>>

\* Mutant of EndUpload: an image that fails the check is checked again.
EndUploadRetries ==
    /\ httpd = "receive"
    /\ left = 0
    /\ IF Bootable(Target) THEN httpd' = "select" ELSE UNCHANGED httpd
    /\ UNCHANGED <<flash, boot, running, left, file, promised, loopVars>>

\* esp_ota_end checks the image.
EndUpload ==
    /\ httpd = "receive"
    /\ left = 0
    /\ \/ Bootable(Target) /\ httpd' = "select" /\ UNCHANGED <<left, file>>
       \/ HandlerReturns
    /\ UNCHANGED <<flash, boot, running, promised, loopVars>>

\* Mutant of SelectBoot: "||" is written "&&", and the call never made.
SelectBootSkipped ==
    /\ httpd = "select"
    /\ httpd' = "post"
    /\ UNCHANGED <<flash, boot, running, left, file, promised, loopVars>>

\* esp_ota_set_boot_partition writes otadata.
SelectBoot ==
    /\ httpd = "select"
    /\ \/ boot' = Target /\ httpd' = "post" /\ UNCHANGED <<left, file>>
       \/ HandlerReturns /\ UNCHANGED boot
    /\ UNCHANGED <<flash, running, promised, loopVars>>

\* Mutant of PostUpdate: the event is left out.
UpdateNotPosted ==
    /\ httpd = "post"
    /\ httpd' = "reply"
    /\ UNCHANGED <<flashVars, running, left, file, promised, loopVars>>

PostUpdate ==
    /\ httpd = "post"
    /\ Post("OTA_UPDATE")
    /\ httpd' = "reply"
    /\ UNCHANGED <<flashVars, running, left, file, promised>>

\* The answer 200 reaches the client, or the client is gone.
ReplyUpdate ==
    /\ httpd = "reply"
    /\ HandlerReturns
    /\ promised' \in {file, promised}
    /\ UNCHANGED <<flashVars, running, loopVars>>

\* The steps of the handler that wait for nobody but second_loop.
HandlerStep == EndUpload \/ SelectBoot \/ PostUpdate \/ ReplyUpdate
ClientStep == UploadStarts \/ ReceivePiece \/ ReceiveFails
==============================================================================
