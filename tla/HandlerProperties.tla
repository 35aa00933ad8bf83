-------------------------- MODULE HandlerProperties ---------------------------
(***************************************************************************)
(* What the handlers of HttpHandlers promise to the client that called     *)
(* them, and to the rest of the firmware (HttpServer).                     *)
(***************************************************************************)
EXTENDS HttpHandlers

\* What each name means, apart from the tables of aug_utility.c.
Meaning ==
    [auth_mode |->
        [open |-> "OPEN", wep |-> "WEP", wpa_psk |-> "WPA_PSK",
         wpa2_psk |-> "WPA2_PSK", wpa_wpa2_psk |-> "WPA_WPA2_PSK",
         wpa3_psk |-> "WPA3_PSK", wpa2_wpa3_psk |-> "WPA2_WPA3_PSK",
         wapi_psk |-> "WAPI_PSK"],
     sae_mode |->
        [unspecified |-> "UNSPECIFIED", hunt_and_peck |-> "HUNT_AND_PECK",
         h2e |-> "HASH_TO_ELEMENT", both |-> "BOTH"]]

Wanted(key, value) ==
    CASE key \in DOMAIN Meaning -> Meaning[key][value]
      [] key = "max_retry"      -> Atoi[value]
      [] key \in TextKeys       -> value

\* A value no client may set: no room for it, or no mode of that name.
Unacceptable(key, value) ==
    /\ value # NotFound
    /\ \/ value = LookupFails
       \/ key \in DOMAIN Meaning /\ value \notin DOMAIN Meaning[key]
       \/ key \in TextKeys /\ Length[value] >= FieldSize[key]
       \/ key = "max_retry" /\ Length[value] > 23

\* set_sta_options looks at password_id only in the modes that use it.
Counts(key) ==
    key = "password_id" => config.sae_mode \in {"HASH_TO_ELEMENT", "BOTH"}

\* A request to /set_options is not applied as a whole: the options before the
\* first unacceptable one are set as asked, that one and the later ones are
\* left as they were, and so is everything the query does not name.  The
\* client is told 200 only when all is set, and first of all which option was
\* refused, or of an unexpected error when that one could not be looked up.
PrefixApplied ==
    request \in Setters /\ httpd = "done" =>
        LET keys == Options(request)
            bad  == {i \in DOMAIN given :
                        Counts(keys[i]) /\ Unacceptable(keys[i], given[i])}
            set  == {i \in DOMAIN given :
                        /\ Counts(keys[i]) /\ given[i] # NotFound
                        /\ \A j \in bad : i < j}
        IN  /\ \A key \in Keys :
                  IF \E i \in set : keys[i] = key
                    THEN config[key] =
                            Wanted(key, given[CHOOSE i \in set : keys[i] = key])
                    ELSE config[key] = before[key]
            /\ result = "ESP_OK" => bad = {} /\ Len(given) = Len(keys)
            /\ bad # {} => answers[1] =
                  IF given[Min(bad)] = LookupFails
                    THEN Answer(500, <<>>) ELSE Answer(400, <<keys[Min(bad)]>>)

\* httpd would go on with a session whose client has been sent two answers, or
\* an error: the handlers return ESP_OK only after the one answer 200, although
\* a refused option is answered by its setter and by the handler.
ErrorsClose ==
    httpd = "done" =>
        (result = "ESP_OK" <=> Len(answers) = 1 /\ answers[1].status = 200)

\* The answer of /init/sta names the modes by the names they were set with,
\* however long ago: the conversion back never fails, which would be answered
\* twice.
InfoShown ==
    request = "INIT_STA" /\ answers # NoAnswer =>
        /\ answers[1].status = 200 =>
              answers[1].about = <<accepted["auth_mode"], accepted["sae_mode"]>>
        /\ Len(answers) = 1

\* Every text in a static array ends inside it: the setters copy no more than
\* the array holds, terminator included, and later readers (the driver, %s in
\* send_sta_info, the MQTT client) find the end.
FieldsTerminated == \A key \in TextKeys : Length[config[key]] < FieldSize[key]
-----------------------------------------------------------------------------
(***************************************************************************)
(* The handlers implement those of HttpServer, which Device composes with  *)
(* the other tasks.                                                        *)
(***************************************************************************)
Phase ==
    CASE httpd \in {"query", "set"}             -> "write"
      [] httpd \in {"info", "refused", "reply"} -> "reply"
      [] httpd = "done"                         -> "wait"
      [] OTHER                                  -> httpd

Serving ==
    IF httpd = "done" THEN "none"
    ELSE IF request \in Setters THEN "SET_OPTIONS" ELSE request

Abstract == INSTANCE HttpServer WITH
                Requests <- {"SET_OPTIONS", "INIT_STA", "INIT_MQTT", "RESTART"},
                httpd <- Phase, request <- Serving

AbstractStep ==
    \/ UNCHANGED loopVars /\ (Abstract!HttpStart \/ Abstract!HttpStop)
    \/ UNCHANGED loopVars /\ \E r \in {"SET_OPTIONS", "INIT_STA", "INIT_MQTT",
                                       "RESTART"} : Abstract!HandlerStarts(r)
    \/ UNCHANGED loopVars /\ (Abstract!OptionsWritten \/ Abstract!HandlerReplies)
    \/ Abstract!HandlerPosts
    \/ SecondLoopReceives

\* Each step of a handler is a step of HttpServer or none: it posts the event
\* of its request and no other, once, and never posts or answers earlier than
\* Device assumes.
ImplementsHttpServer ==
    /\ Abstract!HttpInit
    /\ [][AbstractStep]_<<loopVars, server, Phase, Serving>>
==============================================================================
