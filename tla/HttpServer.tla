----------------------------- MODULE HttpServer ------------------------------
(***************************************************************************)
(* aug_http_server.c over esp_http_server, whose task httpd is external:   *)
(* it runs the URI handlers one at a time and httpd_stop returns only once *)
(* the handler in progress has finished.  The handlers of /init/sta and    *)
(* /init/mqtt answer first and post afterwards; those of /ota_update and   *)
(* /restart post first and answer afterwards; those of /set_options write  *)
(* the configuration in RAM and answer.  That of /ota_update first         *)
(* receives the image, for as long as its client keeps the connection.     *)
(***************************************************************************)
EXTENDS EventLoop

CONSTANT
    Requests  \* the requests clients make

Posting == {"INIT_STA", "INIT_MQTT", "OTA_UPDATE", "RESTART"}

ASSUME RequestsAssumption == Requests \subseteq Posting \cup {"SET_OPTIONS"}

VARIABLES
    server,   \* server # NULL
    httpd,    \* the httpd task: off, waiting, or the step of a handler
    request   \* the request whose handler runs

httpVars == <<server, httpd, request>>

HttpTypeOK ==
    /\ server \in BOOLEAN
    /\ httpd \in {"off", "wait", "write", "receive", "post", "reply"}
    /\ request \in Requests \cup {"none"}

HttpInit ==
    /\ server = FALSE
    /\ httpd = "off"
    /\ request = "none"

\* aug_http_start(): httpd_start fails while a server holds the port, and then
\* leaves the handle as it is.
HttpStart ==
    /\ IF httpd = "off" THEN server' = TRUE /\ httpd' = "wait"
                        ELSE UNCHANGED <<server, httpd>>
    /\ UNCHANGED request

\* Mutant of HttpStop: does not wait for the handler in progress.
HttpStopAtOnce ==
    /\ server' = FALSE
    /\ UNCHANGED <<httpd, request>>

\* aug_http_stop_webserver() returns: no handler runs.
HttpStop ==
    /\ httpd \in {"off", "wait"}
    /\ httpd' = "off"
    /\ server' = FALSE
    /\ UNCHANGED request

FirstStep(r) ==
    CASE r = "SET_OPTIONS"                -> "write"
      [] r \in {"INIT_STA", "INIT_MQTT"}  -> "reply"
      [] r = "OTA_UPDATE"                 -> "receive"
      [] r = "RESTART"                    -> "post"

\* httpd calls the handler of request r.
HandlerStarts(r) ==
    /\ httpd = "wait"
    /\ request' = r
    /\ httpd' = FirstStep(r)
    /\ UNCHANGED server

Finish ==
    /\ httpd' = "wait"
    /\ request' = "none"
    /\ UNCHANGED server

\* The receive loop of ota_update_handler ends: the image is complete, and the next
\* to boot; or an error is answered.  A client that sends nothing is waited for.
UploadEnds ==
    /\ httpd = "receive"
    /\ \/ httpd' = "post" /\ UNCHANGED <<server, request>>
       \/ Finish

\* set_sta_options or set_options_mqtt has written the options.
OptionsWritten ==
    /\ httpd = "write"
    /\ httpd' = "reply"
    /\ UNCHANGED <<server, request>>

\* esp_event_post_to returns in a handler.
HandlerPosts ==
    /\ httpd = "post"
    /\ Post(request)
    /\ IF request \in {"OTA_UPDATE", "RESTART"}
         THEN httpd' = "reply" /\ UNCHANGED <<server, request>>
         ELSE Finish

\* Mutant of HandlerReplies: the answer waits for second_loop to catch up.
HandlerRepliesLast ==
    /\ httpd = "reply"
    /\ queue = <<>>
    /\ \/ /\ request \in {"INIT_STA", "INIT_MQTT"}
          /\ httpd' = "post"
          /\ UNCHANGED <<server, request>>
       \/ Finish

\* The answer is sent; /init/sta and /init/mqtt go on to post if that succeeded.
HandlerReplies ==
    /\ httpd = "reply"
    /\ \/ /\ request \in {"INIT_STA", "INIT_MQTT"}
          /\ httpd' = "post"
          /\ UNCHANGED <<server, request>>
       \/ Finish
==============================================================================
