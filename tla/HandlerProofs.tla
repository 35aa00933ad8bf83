---------------------------- MODULE HandlerProofs -----------------------------
(***************************************************************************)
(* The theorems about module HttpHandlers, for texts of any number and     *)
(* length and a queue of any size: the sessions of refused requests are    *)
(* closed, the texts set fit their fields, and the handlers implement      *)
(* those of HttpServer.                                                    *)
(***************************************************************************)
EXTENDS HandlerProperties, TLAPS

-----------------------------------------------------------------------------
(* What each step of a handler has answered and returned so far. *)

OneAnswer(status) == \E about : answers = <<Answer(status, about)>>

AnswerInv ==
    /\ httpd \in {"query", "set"} => request \in Setters
    /\ httpd = "info" => request \in {"INIT_STA", "INIT_MQTT"}
    /\ httpd = "post" => request \in {"INIT_STA", "INIT_MQTT", "RESTART"}
    /\ httpd \in {"off", "wait", "query", "set", "info", "reply"} =>
         answers = NoAnswer
    /\ httpd = "post" =>
         IF request = "RESTART" THEN answers = NoAnswer ELSE OneAnswer(200)
    /\ httpd = "refused" =>
         answers = NoAnswer \/ OneAnswer(400) \/ OneAnswer(500)
    /\ ErrorsClose

\* One answer 200, and nothing else, is what ESP_OK stands for.
LEMMA CountAnswers ==
  ASSUME NEW about, NEW first, NEW second
  PROVE  /\ Len(<<Answer(200, about)>>) = 1
         /\ <<Answer(200, about)>>[1].status = 200
         /\ Append(NoAnswer, first) = <<first>>
         /\ Len(Append(<<first>>, second)) = 2
  BY DEF Answer, NoAnswer

LEMMA InitAnswers == Init => AnswerInv
  BY DEF Init, AnswerInv, ErrorsClose

LEMMA AnswerStep == AnswerInv /\ [Next]_vars => AnswerInv'
<1> SUFFICES ASSUME AnswerInv, [Next]_vars PROVE AnswerInv'
  OBVIOUS
<1> USE DEF AnswerInv, ErrorsClose
<1>1. CASE ServerStarts \/ ServerStops
  BY <1>1 DEF ServerStarts, ServerStops, handlerVars, OneAnswer
<1>2. CASE SecondLoopReceives
  BY <1>2 DEF SecondLoopReceives, handlerVars, OneAnswer
<1>3. CASE HandlerStarts
  <2>1. PICK r \in HandlerRequests : request' = r /\ httpd' = FirstStep(r)
    BY <1>3 DEF HandlerStarts
  <2>2. r \in Setters \/ r \in {"INIT_STA", "INIT_MQTT"} \/ r = "RESTART"
    BY DEF HandlerRequests
  <2>3. httpd = "wait" /\ answers' = NoAnswer
    BY <1>3 DEF HandlerStarts
  <2> QED
    BY <2>1, <2>2, <2>3 DEF FirstStep, Setters
<1>4. CASE HandlerDone
  BY <1>4 DEF HandlerDone
<1>5. CASE HandlerGivesUp
  <2>1. /\ httpd = "refused" /\ httpd' = "done" /\ result' = "ESP_FAIL"
        /\ answers' = Append(answers, Answer(500, <<>>))
    BY <1>5 DEF HandlerGivesUp, Send, Returns, Goto
  <2>2. CASE answers = NoAnswer
    <3>1. answers' = <<Answer(500, <<>>)>>
      BY <2>1, <2>2 DEF NoAnswer
    <3>2. answers'[1].status # 200
      BY <3>1 DEF Answer
    <3> QED
      BY <2>1, <3>2
  <2>3. CASE OneAnswer(400) \/ OneAnswer(500)
    <3>1. PICK first : answers = <<first>>
      BY <2>3 DEF OneAnswer
    <3>2. Len(answers') = 2
      BY <2>1, <3>1, CountAnswers
    <3> QED
      BY <2>1, <3>2
  <2> QED
    BY <2>1, <2>2, <2>3
<1>6. CASE GetQuery
  BY <1>6 DEF GetQuery, Goto
<1>7. CASE SetOption
  <2>1. /\ httpd = "set" /\ answers = NoAnswer /\ UNCHANGED request
    BY <1>7 DEF SetOption, Goto
  <2>2. \/ httpd' = "set" /\ answers' = answers
        \/ /\ httpd' = "refused"
           /\ \E key, value : answers' = Append(answers, RefusalOf(key, value))
    BY <1>7 DEF SetOption, Goto, Send
  <2>3. ASSUME NEW key, NEW value, answers' = Append(answers, RefusalOf(key, value))
        PROVE  OneAnswer(400)' \/ OneAnswer(500)'
    <3>1. answers' = <<RefusalOf(key, value)>>
      BY <2>1, <2>3 DEF NoAnswer
    <3> QED
      BY <3>1 DEF RefusalOf, OneAnswer
  <2> QED
    BY <2>1, <2>2, <2>3
<1>8. CASE AllSet
  BY <1>8 DEF AllSet, Goto
<1>9. CASE Reply
  <2>1. /\ httpd = "reply" /\ answers = NoAnswer /\ httpd' = "done"
        /\ \/ answers' = Append(answers, Answer(200, <<>>)) /\ result' = "ESP_OK"
           \/ answers' = answers /\ result' = "ESP_FAIL"
    BY <1>9 DEF Reply, Returns, Goto, Send
  <2>2. CASE answers' = Append(answers, Answer(200, <<>>)) /\ result' = "ESP_OK"
    BY <2>1, <2>2, CountAnswers
  <2>3. CASE answers' = answers /\ result' = "ESP_FAIL"
    BY <2>1, <2>3 DEF NoAnswer
  <2> QED
    BY <2>1, <2>2, <2>3
<1>10. CASE SendInfo
  <2>1. /\ httpd = "info" /\ answers = NoAnswer /\ UNCHANGED request
        /\ request \in {"INIT_STA", "INIT_MQTT"}
    BY <1>10 DEF SendInfo, Goto
  <2>2. \/ httpd' = "post" /\ answers' = Append(answers, Answer(200, InfoShows))
        \/ httpd' = "refused" /\ answers' = answers
        \/ httpd' = "refused" /\ answers' = Append(answers, Answer(500, <<>>))
    BY <1>10 DEF SendInfo, Goto, Send
  <2>3. ASSUME NEW status, NEW about,
               answers' = Append(answers, Answer(status, about))
        PROVE  OneAnswer(status)'
    BY <2>1, <2>3 DEF OneAnswer, NoAnswer
  <2> QED
    BY <2>1, <2>2, <2>3
<1>11. CASE HandlerPosts
  <2>1. /\ httpd = "post" /\ answers' = answers
        /\ \/ request = "RESTART" /\ httpd' = "reply" /\ answers = NoAnswer
           \/ httpd' = "done" /\ result' = "ESP_OK" /\ OneAnswer(200)
    BY <1>11 DEF HandlerPosts, Goto, Returns
  <2>2. OneAnswer(200) => Len(answers) = 1 /\ answers[1].status = 200
    BY CountAnswers DEF OneAnswer
  <2> QED
    BY <2>1, <2>2
<1>12. CASE UNCHANGED vars
  BY <1>12 DEF vars, handlerVars, OneAnswer
<1> QED
  BY <1>1, <1>2, <1>3, <1>4, <1>5, <1>6, <1>7, <1>8, <1>9, <1>10, <1>11, <1>12
     DEF Next

\* A handler returns ESP_OK, and keeps its session, only after the one answer
\* 200; a refused request is answered once or twice and its session closed.
THEOREM RefusedSessionsClose == Spec => []ErrorsClose
<1>1. AnswerInv => ErrorsClose
  BY DEF AnswerInv
<1> QED
  BY <1>1, InitAnswers, AnswerStep, PTL DEF Spec
-----------------------------------------------------------------------------
(* The refinement. *)

\* Each step of a handler is one of HttpServer's, or changes nothing it sees.
LEMMA RefinementStep ==
  ASSUME AnswerInv, [Next]_vars
  PROVE  [AbstractStep]_<<loopVars, server, Phase, Serving>>
<1> USE DEF AbstractStep, Phase, Serving
<1>1. CASE ServerStarts
  BY <1>1 DEF ServerStarts, Abstract!HttpStart
<1>2. CASE ServerStops
  BY <1>2 DEF ServerStops, Abstract!HttpStop
<1>3. CASE SecondLoopReceives
  BY <1>3
<1>4. CASE HandlerStarts
  <2>1. PICK r \in HandlerRequests : request' = r /\ httpd' = FirstStep(r)
    BY <1>4 DEF HandlerStarts
  <2>2. httpd = "wait" /\ UNCHANGED <<loopVars, server>>
    BY <1>4 DEF HandlerStarts
  <2>3. CASE r \in Setters
    BY <2>1, <2>2, <2>3
       DEF Abstract!HandlerStarts, FirstStep, Abstract!FirstStep, Setters
  <2>4. CASE r \in {"INIT_STA", "INIT_MQTT", "RESTART"}
    BY <2>1, <2>2, <2>4
       DEF Abstract!HandlerStarts, FirstStep, Abstract!FirstStep, Setters
  <2> QED
    BY <2>3, <2>4 DEF HandlerRequests
<1>5. CASE HandlerDone
  BY <1>5 DEF HandlerDone, Setters
<1>6. CASE HandlerGivesUp
  BY <1>6 DEF HandlerGivesUp, Returns, Goto, Abstract!HandlerReplies, Abstract!Finish
<1>7. CASE GetQuery
  BY <1>7 DEF GetQuery, Goto, Abstract!OptionsWritten
<1>8. CASE SetOption
  <2>1. /\ httpd = "set" /\ httpd' \in {"set", "refused"}
        /\ UNCHANGED <<loopVars, server, request>>
    BY <1>8 DEF SetOption, Goto
  <2> QED
    BY <2>1 DEF Abstract!OptionsWritten
<1>9. CASE AllSet
  BY <1>9 DEF AllSet, Goto, Abstract!OptionsWritten
<1>10. CASE Reply
  BY <1>10 DEF Reply, Returns, Goto, Abstract!HandlerReplies, Abstract!Finish
<1>11. CASE SendInfo
  <2>1. /\ httpd = "info" /\ httpd' \in {"post", "refused"}
        /\ request \in {"INIT_STA", "INIT_MQTT"}
        /\ UNCHANGED <<loopVars, server, request>>
    BY <1>11 DEF SendInfo, Goto, AnswerInv
  <2> QED
    BY <2>1 DEF Setters, Abstract!HandlerReplies
<1>12. CASE HandlerPosts
  <2>1. /\ httpd = "post" /\ request \in {"INIT_STA", "INIT_MQTT", "RESTART"}
        /\ Post(request) /\ UNCHANGED <<server, request>>
        /\ IF request = "RESTART" THEN httpd' = "reply" ELSE httpd' = "done"
    BY <1>12 DEF HandlerPosts, Goto, Returns, AnswerInv
  <2>2. Phase = "post" /\ Serving = request
    BY <2>1 DEF Setters
  <2>3. Abstract!Post(Serving)
    BY <2>1, <2>2 DEF Post, CanPost, Abstract!Post, Abstract!CanPost
  <2>4. IF Serving = "RESTART" THEN Phase' = "reply" /\ Serving' = Serving
                               ELSE Phase' = "wait" /\ Serving' = "none"
    BY <2>1, <2>2 DEF Setters
  <2>5. Abstract!HandlerPosts
    BY <2>1, <2>2, <2>3, <2>4 DEF Abstract!HandlerPosts, Abstract!Finish
  <2> QED
    BY <2>5
<1>13. CASE UNCHANGED vars
  BY <1>13 DEF vars, loopVars
<1> QED
  BY <1>1, <1>2, <1>3, <1>4, <1>5, <1>6, <1>7, <1>8, <1>9, <1>10, <1>11, <1>12,
     <1>13 DEF Next

\* The handlers of aug_http_server.c are those Device composes with the rest:
\* one event for each request, of its own kind, in the order HttpServer says.
THEOREM HandlersImplementServer == Spec => ImplementsHttpServer
<1>1. Init => Abstract!HttpInit
  BY DEF Init, Abstract!HttpInit, Phase, Serving, Setters
<1>2. AnswerInv /\ [Next]_vars => [AbstractStep]_<<loopVars, server, Phase, Serving>>
  BY RefinementStep
<1> QED
  BY <1>1, <1>2, InitAnswers, AnswerStep, PTL DEF Spec, ImplementsHttpServer
-----------------------------------------------------------------------------
(* The texts of the configurations. *)

\* Every text is one and ends inside its field.
FieldInv ==
    /\ option \in Nat \ {0}
    /\ DOMAIN config = {"ssid", "password", "max_retry", "auth_mode", "sae_mode",
                        "password_id", "uri"}
    /\ \A key \in TextKeys :
          config[key] \in Texts /\ Length[config[key]] < FieldSize[key]

\* The buffer of a text is no larger than its field.
LEMMA BufferFits ==
  ASSUME NEW key \in TextKeys, NEW value \in Texts \cup {NotFound, LookupFails},
         Lookup(key, value) = "ESP_OK"
  PROVE  value \in Texts /\ Length[value] < FieldSize[key]
<1>1. value \in Texts /\ Length[value] < BufferSize(key)
  BY DEF Lookup, NotFound, LookupFails
<1>2. Length[value] \in Nat
  BY <1>1, TextsAssumption
<1>3. BufferSize(key) \in Nat /\ FieldSize[key] \in Nat
      /\ BufferSize(key) <= FieldSize[key]
  BY DEF TextKeys, BufferSize, FieldSize
<1> QED
  BY <1>1, <1>2, <1>3

LEMMA InitFields == Init => FieldInv
<1> SUFFICES ASSUME Init PROVE FieldInv
  OBVIOUS
<1>1. config = DefaultConfig
  BY DEF Init
<1>2. Length[""] = 0
  BY TextsAssumption, DefaultUriAssumption
<1>3. /\ DOMAIN config = {"ssid", "password", "max_retry", "auth_mode",
                          "sae_mode", "password_id", "uri"}
      /\ config["ssid"] = "" /\ config["password"] = ""
      /\ config["password_id"] = "" /\ config["uri"] = "default_uri"
  BY <1>1 DEF DefaultConfig
<1>4. Length[""] < 32 /\ Length[""] < 64
  <2>1. Length[""] \in Nat
    BY TextsAssumption, DefaultUriAssumption
  <2>2. \A n \in Nat : n = 0 => n < 32 /\ n < 64
    OBVIOUS
  <2> QED
    BY <1>2, <2>1, <2>2, Zenon
<1>5. ASSUME NEW key \in TextKeys
      PROVE  config[key] \in Texts /\ Length[config[key]] < FieldSize[key]
  <2>1. CASE key = "uri"
    BY <1>3, <2>1, DefaultUriAssumption
  <2>2. CASE key # "uri"
    <3>1. config[key] = ""
      BY <1>3, <2>2 DEF TextKeys
    <3>2. FieldSize[key] = 32 \/ FieldSize[key] = 64
      BY <2>2 DEF TextKeys, FieldSize
    <3> QED
      BY <1>4, <3>1, <3>2, DefaultUriAssumption
  <2> QED
    BY <2>1, <2>2
<1>6. option \in Nat \ {0}
  BY DEF Init
<1> QED
  BY <1>3, <1>5, <1>6 DEF FieldInv

LEMMA FieldStep == FieldInv /\ AnswerInv /\ [Next]_vars => FieldInv'
<1> SUFFICES ASSUME FieldInv, AnswerInv, [Next]_vars PROVE FieldInv'
  OBVIOUS
<1>1. CASE UNCHANGED config /\ option' \in {option, 1}
  BY <1>1 DEF FieldInv
<1>2. CASE SetOption
  <2> DEFINE key == Options(request)[option]
  <2>1. httpd = "set" /\ option <= Len(Options(request)) /\ option' = option + 1
    BY <1>2 DEF SetOption
  <2>2. request \in Setters /\ option \in Nat \ {0}
    BY <2>1 DEF AnswerInv, FieldInv
  <2>3. key \in Keys
    <3>1. CASE request = "SET_STA"
      <4>1. Options(request) = StaKeys
        BY <3>1 DEF Options
      <4>2. option \in DOMAIN StaKeys
        BY <2>1, <2>2, <4>1 DEF StaKeys
      <4> QED
        BY <4>1, <4>2 DEF Keys
    <3>2. CASE request = "SET_MQTT"
      <4>1. Options(request) = MqttKeys
        BY <3>2 DEF Options
      <4>2. option = 1
        BY <2>1, <2>2, <4>1 DEF MqttKeys
      <4> QED
        BY <4>1, <4>2 DEF MqttKeys, Keys
    <3> QED
      BY <2>2, <3>1, <3>2 DEF Setters
  <2> HIDE DEF key
  <2>4. PICK value \in Values[key] :
          config' = config \/ config' = AfterSetter(config, key, value)
    BY <1>2 DEF SetOption, key
  <2>5. value \in Texts \cup {NotFound, LookupFails}
    BY <2>3, <2>4, ValuesAssumption
  <2>6. CASE config' = [config EXCEPT ![key] = Setting(key, value)]
             /\ Lookup(key, value) = "ESP_OK"
    <3>1. DOMAIN config' = DOMAIN config
      BY <2>6
    <3>2. ASSUME NEW k \in TextKeys
          PROVE  config'[k] \in Texts /\ Length[config'[k]] < FieldSize[k]
      <4>1. k \in DOMAIN config
        BY DEF FieldInv, TextKeys
      <4>2. CASE k = key
        <5>1. Setting(key, value) = value
          BY <4>2 DEF Setting, TextKeys
        <5>2. config'[k] = value
          BY <2>6, <4>1, <4>2, <5>1
        <5> QED
          BY <2>5, <2>6, <4>2, <5>2, BufferFits
      <4>3. CASE k # key
        BY <2>6, <4>1, <4>3 DEF FieldInv
      <4> QED
        BY <4>2, <4>3
    <3> QED
      BY <2>1, <2>2, <3>1, <3>2 DEF FieldInv
  <2>7. CASE config' = config
    BY <2>1, <2>2, <2>7 DEF FieldInv
  <2> QED
    BY <2>4, <2>6, <2>7 DEF AfterSetter
<1>3. CASE ~SetOption
  BY <1>1, <1>3
     DEF Next, ServerStarts, ServerStops, SecondLoopReceives, HandlerStarts,
         HandlerDone, HandlerGivesUp, GetQuery, AllSet, Reply, SendInfo,
         HandlerPosts, handlerVars, vars
<1> QED
  BY <1>2, <1>3

\* No setter writes past a field, and every reader finds the end of a text.
THEOREM TextsEndInside == Spec => []FieldsTerminated
<1>1. FieldInv => FieldsTerminated
  BY DEF FieldInv, FieldsTerminated
<1> QED
  BY <1>1, InitFields, FieldStep, InitAnswers, AnswerStep, PTL DEF Spec
=============================================================================
