----------------------------- MODULE HttpHandlers -----------------------------
(***************************************************************************)
(* The handlers of aug_http_server.c that set options, announce them and   *)
(* post events, each cut at its calls.  The task httpd runs one handler at *)
(* a time; a handler that returns anything but ESP_OK has its session      *)
(* closed.  The module refines HttpServer, which only says when a handler  *)
(* writes, posts and answers.  The handler of /ota_update is in Ota.       *)
(*                                                                         *)
(* esp_event_post_to without data and with portMAX_DELAY does not fail, so *)
(* the error path after it is left out.                                    *)
(***************************************************************************)
EXTENDS QueryOptions, EventLoop

CONSTANT
    Values   \* what a query may hold for each key

ASSUME ValuesAssumption ==
    Values \in [Keys -> SUBSET (Texts \cup {NotFound, LookupFails})]

\* esp_http_server refuses an address of more than 512 characters
\* (HTTPD_MAX_URI_LEN): what it leaves for a URI fits the buffer.
ASSUME UriAssumption ==
    \A value \in Values["uri"] \cap Texts : Length[value] < BufferSize("uri")

\* CONFIG_BROKER_URI fits uri_str: the static_assert of aug_mqtt_set_default_uri.
ASSUME DefaultUriAssumption ==
    "default_uri" \in Texts /\ "" \in Texts
    /\ Length["default_uri"] < FieldSize["uri"]

VARIABLES
    server,    \* server # NULL
    httpd,     \* off, waiting, or the step of a handler
    request,   \* the request whose handler runs
    config,    \* the static station configuration, and uri_str
    option,    \* the index of the option whose setter is called next
    answers,   \* what the handler has sent
    result,    \* what the handler returned
    before,    \* history: config when the handler was called
    given,     \* history: what the query held for the options so far
    accepted   \* history: the name each mode was last set to

handlerVars == <<config, option, answers, result, before, given, accepted>>
vars == <<loopVars, server, httpd, request, handlerVars>>

Setters == {"SET_STA", "SET_MQTT"}
HandlerRequests == Setters \cup {"INIT_STA", "INIT_MQTT", "RESTART"}

\* The options of each /set_options, in order.
Options(r) == CASE r = "SET_STA" -> StaKeys [] r = "SET_MQTT" -> MqttKeys

Configs == [ssid : Texts, password : Texts, max_retry : Int,
            auth_mode : {AuthModesEnum[i] : i \in 1..8},
            sae_mode : {SaeModesEnum[i] : i \in 1..4},
            password_id : Texts, uri : Texts]

\* memset of the station's configuration and aug_mqtt_set_default_uri.
DefaultConfig ==
    [ssid |-> "", password |-> "", max_retry |-> 0, auth_mode |-> "OPEN",
     sae_mode |-> "UNSPECIFIED", password_id |-> "", uri |-> "default_uri"]

Answer(status, about) == [status |-> status, about |-> about]
NoAnswer == <<>>

TypeOK ==
    /\ LoopTypeOK
    /\ server \in BOOLEAN
    /\ httpd \in {"off", "wait", "query", "set", "info", "post", "refused",
                  "reply", "done"}
    /\ request \in HandlerRequests \cup {"none"}
    /\ config \in Configs
    /\ before \in Configs
    /\ option \in 1..(Len(StaKeys) + 1)
    /\ \A i \in DOMAIN answers :
          /\ answers[i].status \in {200, 400, 500}
          /\ \A j \in DOMAIN answers[i].about :
                answers[i].about[j] \in Keys \cup Texts
    /\ result \in {"none", "ESP_OK", "ESP_FAIL"}
    /\ Len(given) < option
    /\ accepted \in [{"auth_mode", "sae_mode"} -> Texts]

\* The server starts after register_events (main.c:220, 222).
Init ==
    /\ queue = <<>>
    /\ registered = TRUE
    /\ server = FALSE
    /\ httpd = "off"
    /\ request = "none"
    /\ config = DefaultConfig
    /\ before = DefaultConfig
    /\ option = 1
    /\ answers = NoAnswer
    /\ result = "none"
    /\ given = <<>>
    /\ accepted = [auth_mode |-> "open", sae_mode |-> "unspecified"]
-----------------------------------------------------------------------------
(* The task httpd, and second_loop as the handlers see it. *)

ServerStarts ==
    /\ httpd = "off"
    /\ server' = TRUE
    /\ httpd' = "wait"
    /\ UNCHANGED <<loopVars, request, handlerVars>>

\* aug_http_stop_webserver returns: no handler runs.
ServerStops ==
    /\ httpd = "wait"
    /\ server' = FALSE
    /\ httpd' = "off"
    /\ UNCHANGED <<loopVars, request, handlerVars>>

SecondLoopReceives ==
    /\ \E event \in Events : Receive(event)
    /\ UNCHANGED <<server, httpd, request, handlerVars>>

FirstStep(r) ==
    CASE r \in Setters                   -> "query"
      [] r \in {"INIT_STA", "INIT_MQTT"} -> "info"
      [] r = "RESTART"                   -> "post"

HandlerStarts ==
    /\ httpd = "wait"
    /\ \E r \in HandlerRequests :
          /\ request' = r
          /\ httpd' = FirstStep(r)
    /\ before' = config
    /\ UNCHANGED <<loopVars, server, config, option, answers, result, given,
                   accepted>>

\* The handler has returned: httpd closes the session unless it was ESP_OK.
HandlerDone ==
    /\ httpd = "done"
    /\ httpd' = "wait"
    /\ request' = "none"
    /\ option' = 1
    /\ answers' = NoAnswer
    /\ result' = "none"
    /\ given' = <<>>
    /\ before' = DefaultConfig
    /\ UNCHANGED <<loopVars, server, config, accepted>>

Goto(step) ==
    /\ httpd' = step
    /\ UNCHANGED <<server, request, before>>

Send(answer) == answers' = Append(answers, answer)

Returns(value) ==
    /\ Goto("done")
    /\ result' = value

\* Mutant of HandlerGivesUp: the error is answered and ESP_OK returned.
HandlerShrugs ==
    /\ httpd = "refused"
    /\ Send(Answer(500, <<>>))
    /\ Returns("ESP_OK")
    /\ UNCHANGED <<loopVars, config, option, given, accepted>>

\* send_unexpected_error(req); return ESP_FAIL;
HandlerGivesUp ==
    /\ httpd = "refused"
    /\ Send(Answer(500, <<>>))
    /\ Returns("ESP_FAIL")
    /\ UNCHANGED <<loopVars, config, option, given, accepted>>
-----------------------------------------------------------------------------
(* set_options_sta_handler and set_options_mqtt_handler. *)

\* httpd_req_get_url_query_str, which fails when the URL has no query.
GetQuery ==
    /\ httpd = "query"
    /\ Goto("set") \/ Goto("refused")
    /\ UNCHANGED <<loopVars, config, option, answers, result, given, accepted>>

Remember(key, value) ==
    /\ given' = Append(given, value)
    /\ accepted' = IF key \in DOMAIN accepted /\ Lookup(key, value) = "ESP_OK"
                        /\ Valid(key, value)
                     THEN [accepted EXCEPT ![key] = value] ELSE accepted

\* The answer of a setter that fails, before the handler's own.
RefusalOf(key, value) ==
    IF Lookup(key, value) = LookupFails THEN Answer(500, <<>>)
                                        ELSE Answer(400, <<key>>)

\* One setter: it looks its key up, converts the value and stores it.
SetOption ==
    /\ httpd = "set"
    /\ option <= Len(Options(request))
    /\ LET key == Options(request)[option]
       IN  \E value \in Values[key] :
              /\ Remember(key, value)
              /\ \/ /\ Skipped(config, key)
                    /\ Goto("set")
                    /\ UNCHANGED <<config, answers>>
                 \/ /\ ~Skipped(config, key)
                    /\ SetterResult(key, value) = "ESP_OK"
                    /\ config' = AfterSetter(config, key, value)
                    /\ Goto("set")
                    /\ UNCHANGED answers
                 \/ /\ ~Skipped(config, key)
                    /\ SetterResult(key, value) # "ESP_OK"
                    /\ config' = AfterSetter(config, key, value)
                    /\ Send(RefusalOf(key, value))
                    /\ Goto("refused")
    /\ option' = option + 1
    /\ UNCHANGED <<loopVars, result>>

AllSet ==
    /\ httpd = "set"
    /\ option > Len(Options(request))
    /\ Goto("reply")
    /\ UNCHANGED <<loopVars, config, option, answers, result, given, accepted>>

\* The handler's last call sends the answer; what it returns is returned.
Reply ==
    /\ httpd = "reply"
    /\ \/ Send(Answer(200, <<>>)) /\ Returns("ESP_OK")
       \/ Returns("ESP_FAIL") /\ UNCHANGED answers
    /\ UNCHANGED <<loopVars, config, option, given, accepted>>
-----------------------------------------------------------------------------
(* init_sta_handler, init_mqtt_handler and restart_handler. *)

\* The modes have names; otherwise send_sta_info answers with an error itself.
InfoReady ==
    request = "INIT_STA" => AuthKnown(config.auth_mode) /\ SaeKnown(config.sae_mode)

\* The modes as the answer names them.
InfoShows ==
    IF request = "INIT_STA"
      THEN <<Convert(AuthModesEnum, AuthModesStr, config.auth_mode),
             Convert(SaeModesEnum, SaeModesStr, config.sae_mode)>>
      ELSE <<>>

\* send_sta_info and send_mqtt_info.
SendInfo ==
    /\ httpd = "info"
    /\ \/ /\ InfoReady
          /\ Send(Answer(200, InfoShows))
          /\ Goto("post")
       \/ /\ InfoReady
          /\ Goto("refused")
          /\ UNCHANGED answers
       \/ /\ ~InfoReady
          /\ Send(Answer(500, <<>>))
          /\ Goto("refused")
    /\ UNCHANGED <<loopVars, config, option, result, given, accepted>>

\* Mutant of HandlerPosts: /init/mqtt posts the event of /init/sta.
HandlerPostsWrong ==
    /\ httpd = "post"
    /\ Post(IF request = "INIT_MQTT" THEN "INIT_STA" ELSE request)
    /\ \/ request = "RESTART" /\ Goto("reply") /\ UNCHANGED result
       \/ request # "RESTART" /\ Returns("ESP_OK")
    /\ UNCHANGED <<config, option, answers, given, accepted>>

\* esp_event_post_to; /restart answers afterwards.
HandlerPosts ==
    /\ httpd = "post"
    /\ Post(request)
    /\ \/ request = "RESTART" /\ Goto("reply") /\ UNCHANGED result
       \/ request # "RESTART" /\ Returns("ESP_OK")
    /\ UNCHANGED <<config, option, answers, given, accepted>>

Next ==
    \/ ServerStarts \/ ServerStops \/ SecondLoopReceives
    \/ HandlerStarts \/ HandlerDone \/ HandlerGivesUp
    \/ GetQuery \/ SetOption \/ AllSet \/ Reply
    \/ SendInfo \/ HandlerPosts

Spec == Init /\ [][Next]_vars
==============================================================================
