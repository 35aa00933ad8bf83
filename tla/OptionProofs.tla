----------------------------- MODULE OptionProofs -----------------------------
(***************************************************************************)
(* More theorems about module HttpHandlers, for texts of any number and    *)
(* length: the tables of aug_utility.c invert each other, so /init/sta     *)
(* shows the modes by the names they were set with; a request to           *)
(* /set_options applies the options before the first it refuses, and no    *)
(* others; and every variable has its type.                                *)
(***************************************************************************)
EXTENDS HandlerProofs

-----------------------------------------------------------------------------
(* The tables. *)

\* str and enum are two columns of one table, and meaning is that table.
IsTable(str, enum, meaning, n) ==
    /\ DOMAIN str = 1..n /\ DOMAIN enum = 1..n
    /\ \A i, j \in 1..n : str[i] = str[j] => i = j
    /\ \A i, j \in 1..n : enum[i] = enum[j] => i = j
    /\ \A i \in 1..n : str[i] \in DOMAIN meaning /\ meaning[str[i]] = enum[i]
    /\ \A name \in DOMAIN meaning : \E i \in 1..n : name = str[i]

LEMMA AuthTable == IsTable(AuthModesStr, AuthModesEnum, Meaning["auth_mode"], 8)
<1>1. DOMAIN AuthModesStr = 1..8 /\ DOMAIN AuthModesEnum = 1..8
  BY DEF AuthModesStr, AuthModesEnum
<1>2. \A i \in 1..8 : i = 1 \/ i = 2 \/ i = 3 \/ i = 4 \/ i = 5 \/ i = 6 \/ i = 7 \/ i = 8
  OBVIOUS
<1>3. \A i, j \in 1..8 : AuthModesStr[i] = AuthModesStr[j] => i = j
  BY <1>2 DEF AuthModesStr
<1>4. \A i, j \in 1..8 : AuthModesEnum[i] = AuthModesEnum[j] => i = j
  BY <1>2 DEF AuthModesEnum
<1>5. \A i \in 1..8 : /\ AuthModesStr[i] \in DOMAIN Meaning["auth_mode"]
                      /\ Meaning["auth_mode"][AuthModesStr[i]] = AuthModesEnum[i]
  BY <1>2 DEF AuthModesStr, AuthModesEnum, Meaning
<1>6. \A name \in DOMAIN Meaning["auth_mode"] : \E i \in 1..8 : name = AuthModesStr[i]
  BY DEF AuthModesStr, Meaning
<1> QED
  BY <1>1, <1>3, <1>4, <1>5, <1>6 DEF IsTable

LEMMA SaeTable == IsTable(SaeModesStr, SaeModesEnum, Meaning["sae_mode"], 4)
<1>1. DOMAIN SaeModesStr = 1..4 /\ DOMAIN SaeModesEnum = 1..4
  BY DEF SaeModesStr, SaeModesEnum
<1>2. \A i \in 1..4 : i = 1 \/ i = 2 \/ i = 3 \/ i = 4
  OBVIOUS
<1>3. /\ \A i, j \in 1..4 : SaeModesStr[i] = SaeModesStr[j] => i = j
      /\ \A i, j \in 1..4 : SaeModesEnum[i] = SaeModesEnum[j] => i = j
  BY <1>2 DEF SaeModesStr, SaeModesEnum
<1>4. \A i \in 1..4 : /\ SaeModesStr[i] \in DOMAIN Meaning["sae_mode"]
                      /\ Meaning["sae_mode"][SaeModesStr[i]] = SaeModesEnum[i]
  BY <1>2 DEF SaeModesStr, SaeModesEnum, Meaning
<1>5. \A name \in DOMAIN Meaning["sae_mode"] : \E i \in 1..4 : name = SaeModesStr[i]
  BY DEF SaeModesStr, Meaning
<1> QED
  BY <1>1, <1>3, <1>4, <1>5 DEF IsTable

\* The loop of a conversion stops at the one row that matches.
LEMMA ConvertRow ==
  ASSUME NEW from, NEW to, NEW n \in Nat, DOMAIN from = 1..n, NEW i \in 1..n,
         \A j \in 1..n : from[j] = from[i] => j = i
  PROVE  Known(from, from[i]) /\ Convert(from, to, from[i]) = to[i]
<1>1. {j \in DOMAIN from : from[j] = from[i]} = {i}
  OBVIOUS
<1>2. Min({i}) = i
  BY DEF Min
<1> QED
  BY <1>1, <1>2 DEF Known, Convert

\* From a name to its enumerator, and back to the name.
LEMMA NamesInvert ==
  ASSUME NEW str, NEW enum, NEW meaning, NEW n \in Nat,
         IsTable(str, enum, meaning, n), NEW name \in DOMAIN meaning
  PROVE  /\ Known(str, name) /\ Convert(str, enum, name) = meaning[name]
         /\ Known(enum, meaning[name]) /\ Convert(enum, str, meaning[name]) = name
<1>1. PICK i \in 1..n : name = str[i]
  BY DEF IsTable
<1>2. meaning[name] = enum[i]
  BY <1>1 DEF IsTable
<1>3. Known(str, str[i]) /\ Convert(str, enum, str[i]) = enum[i]
  BY ConvertRow DEF IsTable
<1>4. Known(enum, enum[i]) /\ Convert(enum, str, enum[i]) = str[i]
  BY ConvertRow DEF IsTable
<1> QED
  BY <1>1, <1>2, <1>3, <1>4

\* A text that is known is a name.
LEMMA KnownIsName ==
  ASSUME NEW str, NEW enum, NEW meaning, NEW n \in Nat,
         IsTable(str, enum, meaning, n), NEW name, Known(str, name)
  PROVE  name \in DOMAIN meaning
BY DEF IsTable, Known
-----------------------------------------------------------------------------
(* One setter. *)

\* What SetOption does to the configuration, the names and the answer; key and
\* value are the option it is at and what the query holds for it.
SetsOption(key, value) ==
    /\ key \in Keys
    /\ value \in Values[key] \cap (Texts \cup {NotFound, LookupFails})
    /\ Remember(key, value)
    /\ option' = option + 1
    /\ UNCHANGED <<request, before>>
    /\ \/ Skipped(config, key) /\ config' = config /\ httpd' = "set"
          /\ answers' = answers
       \/ /\ ~Skipped(config, key)
          /\ SetterResult(key, value) = "ESP_OK"
          /\ config' = AfterSetter(config, key, value)
          /\ httpd' = "set" /\ answers' = answers
       \/ /\ ~Skipped(config, key)
          /\ SetterResult(key, value) # "ESP_OK"
          /\ config' = AfterSetter(config, key, value)
          /\ httpd' = "refused"
          /\ answers' = Append(answers, RefusalOf(key, value))

LEMMA OptionKey ==
  ASSUME AnswerInv, FieldInv, httpd = "set", option <= Len(Options(request))
  PROVE  /\ option \in DOMAIN Options(request)
         /\ Options(request)[option] \in Keys
<1>1. request \in Setters /\ option \in Nat \ {0}
  BY DEF AnswerInv, FieldInv
<1>2. CASE request = "SET_STA"
  <2>1. Options(request) = StaKeys
    BY <1>2 DEF Options
  <2>2. option \in DOMAIN StaKeys
    BY <1>1, <2>1 DEF StaKeys
  <2> QED
    BY <2>1, <2>2 DEF Keys
<1>3. CASE request = "SET_MQTT"
  <2>1. Options(request) = MqttKeys
    BY <1>3 DEF Options
  <2>2. option = 1
    BY <1>1, <2>1 DEF MqttKeys
  <2> QED
    BY <2>1, <2>2 DEF MqttKeys, Keys
<1> QED
  BY <1>1, <1>2, <1>3 DEF Setters

LEMMA OneSetter ==
  ASSUME AnswerInv, FieldInv, SetOption
  PROVE  \E value : SetsOption(Options(request)[option], value)
<1> DEFINE key == Options(request)[option]
<1>1. key \in Keys
  BY OptionKey DEF SetOption
<1> HIDE DEF key
<1>2. PICK value \in Values[key] :
        /\ Remember(key, value)
        /\ \/ Skipped(config, key) /\ Goto("set") /\ UNCHANGED <<config, answers>>
           \/ /\ ~Skipped(config, key) /\ SetterResult(key, value) = "ESP_OK"
              /\ config' = AfterSetter(config, key, value) /\ Goto("set")
              /\ UNCHANGED answers
           \/ /\ ~Skipped(config, key) /\ SetterResult(key, value) # "ESP_OK"
              /\ config' = AfterSetter(config, key, value)
              /\ Send(RefusalOf(key, value)) /\ Goto("refused")
  BY DEF SetOption, key
<1>3. value \in Texts \cup {NotFound, LookupFails}
  BY <1>1, <1>2, ValuesAssumption
<1>4. option' = option + 1
  BY DEF SetOption
<1> QED
  BY <1>1, <1>2, <1>3, <1>4 DEF SetsOption, Goto, Send, key

\* The value is stored.
Stored(key, value) == Lookup(key, value) = "ESP_OK" /\ Valid(key, value)

\* A mode that is stored is the one its name means.
LEMMA ModeSetting ==
  ASSUME NEW key \in {"auth_mode", "sae_mode"}, NEW value, Stored(key, value)
  PROVE  value \in DOMAIN Meaning[key] /\ Setting(key, value) = Meaning[key][value]
<1>1. CASE key = "auth_mode"
  BY <1>1, AuthTable, KnownIsName, NamesInvert DEF Stored, Valid, Setting, TextKeys
<1>2. CASE key = "sae_mode"
  BY <1>2, SaeTable, KnownIsName, NamesInvert DEF Stored, Valid, Setting, TextKeys
<1> QED
  BY <1>1, <1>2
-----------------------------------------------------------------------------
(* The modes, and the names they were set with. *)

Modes == {"auth_mode", "sae_mode"}

ModesInv ==
    /\ DOMAIN accepted = Modes
    /\ \A key \in Modes : /\ accepted[key] \in DOMAIN Meaning[key]
                          /\ config[key] = Meaning[key][accepted[key]]

Shown == <<accepted["auth_mode"], accepted["sae_mode"]>>

\* While /init/sta is served.
InfoInv ==
    request = "INIT_STA" =>
        /\ httpd # "reply"
        /\ httpd = "refused" => answers = NoAnswer
        /\ \/ answers = NoAnswer
           \/ answers = <<Answer(200, Shown)>>
           \/ answers = <<Answer(500, <<>>)>>

LEMMA InitModes == Init => ModesInv /\ InfoInv
<1> SUFFICES ASSUME Init PROVE ModesInv /\ InfoInv
  OBVIOUS
<1>1. /\ accepted = [auth_mode |-> "open", sae_mode |-> "unspecified"]
      /\ config["auth_mode"] = "OPEN" /\ config["sae_mode"] = "UNSPECIFIED"
  BY DEF Init, DefaultConfig
<1> QED
  BY <1>1 DEF Init, ModesInv, InfoInv, Modes, Meaning

LEMMA SetterKeepsModes ==
  ASSUME FieldInv, ModesInv, NEW key, NEW value, SetsOption(key, value)
  PROVE  ModesInv'
<1> USE DEF ModesInv
<1>1. CASE Stored(key, value) /\ key \in Modes
  <2>1. ~Skipped(config, key)
    BY <1>1 DEF Skipped, Modes
  <2>2. config' = [config EXCEPT ![key] = Setting(key, value)]
    BY <1>1, <2>1 DEF SetsOption, AfterSetter, Stored
  <2>3. accepted' = [accepted EXCEPT ![key] = value]
    BY <1>1 DEF SetsOption, Remember, Stored
  <2>4. value \in DOMAIN Meaning[key] /\ Setting(key, value) = Meaning[key][value]
    BY <1>1, ModeSetting DEF Modes
  <2>5. Modes \subseteq DOMAIN config
    BY DEF Modes, FieldInv
  <2> QED
    BY <2>2, <2>3, <2>4, <2>5
<1>2. CASE ~(Stored(key, value) /\ key \in Modes)
  <2>1. accepted' = accepted
    BY <1>2 DEF SetsOption, Remember, Stored
  <2>2. ASSUME NEW k \in Modes PROVE config'[k] = config[k]
    <3>1. k \in DOMAIN config
      BY DEF Modes, FieldInv
    <3>2. \/ config' = config
          \/ Stored(key, value) /\ config' = [config EXCEPT ![key] = Setting(key, value)]
      BY DEF SetsOption, AfterSetter, Stored
    <3>3. Stored(key, value) => key # k
      BY <1>2
    <3> QED
      BY <3>1, <3>2, <3>3
  <2> QED
    BY <2>1, <2>2
<1> QED
  BY <1>1, <1>2

LEMMA ModesStep ==
  ASSUME AnswerInv, FieldInv, ModesInv, [Next]_vars
  PROVE  ModesInv'
<1>1. CASE SetOption
  BY <1>1, OneSetter, SetterKeepsModes
<1>2. CASE ~SetOption
  <2>1. UNCHANGED <<config, accepted>>
    BY <1>2
       DEF Next, ServerStarts, ServerStops, SecondLoopReceives, HandlerStarts,
           HandlerDone, HandlerGivesUp, GetQuery, AllSet, Reply, SendInfo,
           HandlerPosts, handlerVars, vars
  <2> QED
    BY <2>1 DEF ModesInv
<1> QED
  BY <1>1, <1>2

\* The conversion of a mode that was set does not fail, and gives its name.
LEMMA ModesShow ==
  ASSUME ModesInv, request = "INIT_STA"
  PROVE  InfoReady /\ InfoShows = Shown
<1>1. /\ AuthKnown(config["auth_mode"])
      /\ Convert(AuthModesEnum, AuthModesStr, config["auth_mode"]) = accepted["auth_mode"]
  BY AuthTable, NamesInvert DEF ModesInv, Modes, AuthKnown
<1>2. /\ SaeKnown(config["sae_mode"])
      /\ Convert(SaeModesEnum, SaeModesStr, config["sae_mode"]) = accepted["sae_mode"]
  BY SaeTable, NamesInvert DEF ModesInv, Modes, SaeKnown
<1> QED
  BY <1>1, <1>2 DEF InfoReady, InfoShows, Shown

LEMMA InfoStep ==
  ASSUME AnswerInv, FieldInv, ModesInv, InfoInv, [Next]_vars
  PROVE  InfoInv'
<1> USE DEF InfoInv
<1>1. CASE ServerStarts \/ ServerStops
  BY <1>1 DEF ServerStarts, ServerStops, handlerVars, Shown
<1>2. CASE SecondLoopReceives
  BY <1>2 DEF SecondLoopReceives, handlerVars, Shown
<1>3. CASE HandlerStarts
  <2>1. httpd = "wait" /\ answers' = NoAnswer
    BY <1>3 DEF HandlerStarts, AnswerInv
  <2>2. PICK r \in HandlerRequests : request' = r /\ httpd' = FirstStep(r)
    BY <1>3 DEF HandlerStarts
  <2>3. r = "INIT_STA" => httpd' = "info"
    BY <2>2 DEF FirstStep, Setters
  <2> QED
    BY <2>1, <2>2, <2>3
<1>4. CASE HandlerDone
  BY <1>4 DEF HandlerDone
<1>5. CASE HandlerGivesUp
  BY <1>5 DEF HandlerGivesUp, Returns, Goto, Send, NoAnswer
<1>6. CASE GetQuery
  BY <1>6 DEF GetQuery, Goto, AnswerInv, Setters
<1>7. CASE SetOption
  <2>1. request' = request /\ request \in Setters
    BY <1>7 DEF SetOption, Goto, AnswerInv
  <2> QED
    BY <2>1 DEF Setters
<1>8. CASE AllSet
  BY <1>8 DEF AllSet, Goto, AnswerInv, Setters
<1>9. CASE Reply
  <2>1. request' = request /\ httpd = "reply" /\ httpd' = "done"
    BY <1>9 DEF Reply, Returns, Goto
  <2>2. request # "INIT_STA"
    BY <2>1 DEF InfoInv
  <2> QED
    BY <2>1, <2>2
<1>10. CASE SendInfo
  <2>1. httpd = "info" /\ answers = NoAnswer /\ UNCHANGED <<request, accepted>>
    BY <1>10 DEF SendInfo, Goto, AnswerInv
  <2>2. CASE request = "INIT_STA"
    <3>1. \/ httpd' = "post" /\ answers' = Append(answers, Answer(200, Shown))
          \/ httpd' = "refused" /\ answers' = answers
      BY <1>10, <2>2, ModesShow DEF SendInfo, Goto, Send
    <3> QED
      BY <2>1, <3>1 DEF NoAnswer, Shown
  <2> QED
    BY <2>1, <2>2
<1>11. CASE HandlerPosts
  BY <1>11 DEF HandlerPosts, Goto, Returns, Shown
<1>12. CASE UNCHANGED vars
  BY <1>12 DEF vars, handlerVars, Shown
<1> QED
  BY <1>1, <1>2, <1>3, <1>4, <1>5, <1>6, <1>7, <1>8, <1>9, <1>10, <1>11, <1>12
     DEF Next

\* /init/sta names each mode as it was last set, and is answered once.
THEOREM InfoAlwaysShown == Spec => []InfoShown
<1> DEFINE Inv == AnswerInv /\ FieldInv /\ ModesInv /\ InfoInv
<1>1. Init => Inv
  BY InitAnswers, InitFields, InitModes
<1>2. Inv /\ [Next]_vars => Inv'
  BY AnswerStep, FieldStep, ModesStep, InfoStep
<1>3. InfoInv => InfoShown
  BY DEF InfoInv, InfoShown, Shown, Answer, NoAnswer
<1> QED
  BY <1>1, <1>2, <1>3, PTL DEF Spec
-----------------------------------------------------------------------------
(* The longest name. *)

HasMax(S) == \E m \in S : \A y \in S : m >= y

LEMMA GrowMax ==
  ASSUME NEW f, NEW k \in Nat, \A i \in 1..(k + 1) : f[i] \in Nat,
         HasMax({f[i] : i \in 1..k})
  PROVE  HasMax({f[i] : i \in 1..(k + 1)})
<1>1. PICK j \in 1..k : \A i \in 1..k : f[j] >= f[i]
  BY DEF HasMax
<1>2. CASE f[j] >= f[k + 1]
  BY <1>1, <1>2 DEF HasMax
<1>3. CASE ~(f[j] >= f[k + 1])
  <2>1. \A i \in 1..(k + 1) : f[k + 1] >= f[i]
    BY <1>1, <1>3
  <2> QED
    BY <2>1 DEF HasMax
<1> QED
  BY <1>2, <1>3

LEMMA TableHasMax ==
  ASSUME NEW f, NEW n \in {4, 8}, \A i \in 1..n : f[i] \in Nat
  PROVE  HasMax({f[i] : i \in 1..n})
<1> DEFINE H(k) == HasMax({f[i] : i \in 1..k})
<1>1. H(1)
  BY DEF HasMax
<1>2. ASSUME NEW k \in 1..(n - 1), H(k) PROVE H(k + 1)
  <2>1. k \in Nat /\ \A i \in 1..(k + 1) : f[i] \in Nat
    OBVIOUS
  <2> QED
    BY <1>2, <2>1, GrowMax
<1> HIDE DEF H
<1>3. H(2) /\ H(3) /\ H(4)
  BY <1>1, <1>2
<1>4. n = 8 => H(5) /\ H(6) /\ H(7) /\ H(8)
  BY <1>3, <1>2
<1> QED
  BY <1>3, <1>4 DEF H

\* A name and its terminator fit a buffer of the size of the longest.
LEMMA LongestFits ==
  ASSUME NEW names, NEW n \in {4, 8}, DOMAIN names = 1..n,
         \A i \in 1..n : names[i] \in Texts, NEW i \in 1..n
  PROVE  Length[names[i]] < MaxSize(names)
<1> DEFINE S == {Length[names[k]] + 1 : k \in 1..n}
<1>1. \A k \in 1..n : Length[names[k]] \in Nat
  BY TextsAssumption
<1>2. HasMax(S) /\ \A y \in S : y \in Nat
  <2> DEFINE f == [k \in 1..n |-> Length[names[k]] + 1]
  <2>1. \A k \in 1..n : f[k] = Length[names[k]] + 1 /\ f[k] \in Nat
    BY <1>1
  <2> HIDE DEF f
  <2>2. S = {f[k] : k \in 1..n}
    BY <2>1
  <2>3. \A k \in 1..n : f[k] \in Nat
    BY <2>1
  <2>4. HasMax({f[k] : k \in 1..n})
    BY <2>3, TableHasMax
  <2>5. HasMax(S)
    BY <2>2, <2>4, Zenon
  <2>6. \A y \in S : y \in Nat
    BY <1>1
  <2> QED
    BY <2>5, <2>6
<1>3. MaxSize(names) = Max(S)
  BY DEF MaxSize
<1>4. Length[names[i]] + 1 \in S
  OBVIOUS
<1> HIDE DEF S
<1>5. Max(S) \in S /\ \A y \in S : Max(S) >= y
  BY <1>2 DEF HasMax, Max
<1> QED
  BY <1>1, <1>2, <1>3, <1>4, <1>5
-----------------------------------------------------------------------------
(* What a setter accepts. *)

\* Whatever is acceptable is stored, as it was meant.
LEMMA AcceptableStored ==
  ASSUME NEW key \in Keys, NEW value \in Texts \cup {NotFound, LookupFails},
         value # NotFound, ~Unacceptable(key, value),
         key = "uri" => value \in Values["uri"]
  PROVE  /\ Stored(key, value) /\ Setting(key, value) = Wanted(key, value)
         /\ SetterResult(key, value) = "ESP_OK"
<1>1. value # LookupFails /\ value \in Texts
  BY DEF Unacceptable
<1>2. Length[value] \in Nat
  BY <1>1, TextsAssumption
<1>3. key \in TextKeys \cup {"max_retry", "auth_mode", "sae_mode"}
  BY DEF Keys, StaKeys, TextKeys
<1>4. Length[value] < BufferSize(key) => Lookup(key, value) = "ESP_OK"
  BY <1>1 DEF Lookup
<1>5. CASE key \in {"ssid", "password", "password_id"}
  <2>1. Length[value] < FieldSize[key] /\ BufferSize(key) = FieldSize[key]
    BY <1>1, <1>2, <1>5 DEF Unacceptable, TextKeys, BufferSize, FieldSize
  <2>2. Lookup(key, value) = "ESP_OK"
    BY <1>4, <2>1
  <2> QED
    BY <1>5, <2>2
       DEF Stored, Valid, Setting, Wanted, TextKeys, Meaning, SetterResult, NotFound
<1>6. CASE key = "uri"
  <2>1. Length[value] < BufferSize(key)
    BY <1>1, <1>6, UriAssumption
  <2>2. Lookup(key, value) = "ESP_OK"
    BY <1>4, <2>1
  <2> QED
    BY <1>6, <2>2
       DEF Stored, Valid, Setting, Wanted, TextKeys, Meaning, SetterResult, NotFound
<1>7. CASE key = "max_retry"
  <2>1. Length[value] < BufferSize(key)
    BY <1>1, <1>2, <1>7 DEF Unacceptable, BufferSize
  <2>2. Lookup(key, value) = "ESP_OK"
    BY <1>4, <2>1
  <2> QED
    BY <1>7, <2>2
       DEF Stored, Valid, Setting, Wanted, TextKeys, Meaning, SetterResult, NotFound
<1>8. ASSUME key \in {"auth_mode", "sae_mode"}, Length[value] < BufferSize(key),
             Valid(key, value)
      PROVE  /\ Stored(key, value) /\ Setting(key, value) = Wanted(key, value)
             /\ SetterResult(key, value) = "ESP_OK"
  <2>1. Lookup(key, value) = "ESP_OK" /\ Stored(key, value)
    BY <1>4, <1>8 DEF Stored
  <2>2. Setting(key, value) = Meaning[key][value]
    BY <1>8, <2>1, ModeSetting
  <2>3. key \in DOMAIN Meaning
    BY <1>8 DEF Meaning
  <2>4. Wanted(key, value) = Meaning[key][value]
    <3>1. key # "max_retry" /\ key \notin TextKeys
      BY <1>8 DEF TextKeys
    <3> QED
      BY <2>3, <3>1 DEF Wanted
  <2>5. SetterResult(key, value) = "ESP_OK"
    BY <1>8, <2>1 DEF SetterResult, NotFound
  <2> QED
    BY <2>1, <2>2, <2>4, <2>5
<1>9. CASE key = "auth_mode"
  <2>1. value \in DOMAIN Meaning["auth_mode"]
    BY <1>1, <1>9 DEF Unacceptable, Meaning
  <2>2. PICK i \in 1..8 : value = AuthModesStr[i]
    BY <2>1, AuthTable DEF IsTable
  <2>3. DOMAIN AuthModesStr = 1..8 /\ \A j \in 1..8 : AuthModesStr[j] \in Texts
    BY AuthTable, NamesAssumption DEF IsTable
  <2>4. Length[value] < MaxSize(AuthModesStr)
    BY <2>2, <2>3, LongestFits
  <2>5. Valid(key, value)
    BY <2>1, <1>9, AuthTable, NamesInvert DEF Valid
  <2> QED
    BY <1>8, <1>9, <2>4, <2>5 DEF BufferSize
<1>10. CASE key = "sae_mode"
  <2>1. value \in DOMAIN Meaning["sae_mode"]
    BY <1>1, <1>10 DEF Unacceptable, Meaning
  <2>2. PICK i \in 1..4 : value = SaeModesStr[i]
    BY <2>1, SaeTable DEF IsTable
  <2>3. DOMAIN SaeModesStr = 1..4 /\ \A j \in 1..4 : SaeModesStr[j] \in Texts
    BY SaeTable, NamesAssumption DEF IsTable
  <2>4. Length[value] < MaxSize(SaeModesStr)
    BY <2>2, <2>3, LongestFits
  <2>5. Valid(key, value)
    BY <2>1, <1>10, SaeTable, NamesInvert DEF Valid
  <2> QED
    BY <1>8, <1>10, <2>4, <2>5 DEF BufferSize
<1> QED
  BY <1>3, <1>5, <1>6, <1>7, <1>9, <1>10 DEF TextKeys

\* Whatever is not acceptable is refused and not stored.
LEMMA UnacceptableRefused ==
  ASSUME NEW key \in Keys, NEW value \in Texts \cup {NotFound, LookupFails},
         Unacceptable(key, value)
  PROVE  ~Stored(key, value) /\ SetterResult(key, value) # "ESP_OK"
<1>1. value # NotFound
  BY DEF Unacceptable
<1>2. SetterResult(key, value) = "ESP_OK" => Stored(key, value)
  <2>1. Lookup(key, value) # NotFound
    BY <1>1 DEF Lookup, NotFound, LookupFails
  <2> QED
    BY <2>1 DEF SetterResult, Stored
<1>3. SUFFICES ASSUME Stored(key, value) PROVE FALSE
  BY <1>2
<1>4. /\ value \in Texts /\ value # LookupFails
      /\ Length[value] < BufferSize(key) /\ Length[value] \in Nat
  <2>1. Lookup(key, value) = "ESP_OK"
    BY <1>3 DEF Stored
  <2>2. value \in Texts /\ value # LookupFails /\ Length[value] < BufferSize(key)
    BY <2>1 DEF Lookup, NotFound, LookupFails
  <2> QED
    BY <2>2, TextsAssumption
<1>5. CASE key \in DOMAIN Meaning /\ value \notin DOMAIN Meaning[key]
  BY <1>3, <1>5, ModeSetting DEF Meaning
<1>6. CASE key \in TextKeys /\ Length[value] >= FieldSize[key]
  BY <1>4, <1>6 DEF TextKeys, BufferSize, FieldSize
<1>7. CASE key = "max_retry" /\ Length[value] > 23
  BY <1>4, <1>7 DEF BufferSize
<1> QED
  BY <1>4, <1>5, <1>6, <1>7 DEF Unacceptable

\* A value that is not there changes nothing.
LEMMA AbsentIgnored ==
  ASSUME NEW key \in Keys
  PROVE  ~Stored(key, NotFound) /\ SetterResult(key, NotFound) = "ESP_OK"
BY DEF Stored, SetterResult, Lookup, NotFound, LookupFails
-----------------------------------------------------------------------------
(* What the options asked for so far have done. *)

Asked == Options(request)

Refuses(i) == Counts(Asked[i]) /\ Unacceptable(Asked[i], given[i])

\* A handler has a request, and only a setter remembers values.
GivenInv ==
    /\ httpd \in {"off", "wait"} => request = "none"
    /\ request \notin Setters => given = <<>> /\ option = 1

\* Each option that is not refused is as asked, and the others as before.
Applied ==
    /\ given \in Seq(Texts \cup {NotFound, LookupFails})
    /\ option = Len(given) + 1 /\ Len(given) <= Len(Asked)
    /\ \A i \in 1..Len(given) :
          config[Asked[i]] =
            IF Counts(Asked[i]) /\ given[i] # NotFound /\ ~Refuses(i)
              THEN Wanted(Asked[i], given[i]) ELSE before[Asked[i]]
    /\ \A key \in Keys :
          (\A i \in 1..Len(given) : Asked[i] # key) => config[key] = before[key]

\* Only the last option so far may have been refused, and the client is told.
Reported ==
    /\ \A i \in 1..Len(given) :
          Refuses(i) =>
            /\ i = Len(given)
            /\ \/ httpd = "refused" /\ Len(answers) = 1
               \/ httpd = "done" /\ result = "ESP_FAIL"
            /\ answers[1] = RefusalOf(Asked[i], given[i])
    /\ httpd = "reply" => Len(given) = Len(Asked)
    /\ httpd = "done" /\ result = "ESP_OK" => Len(given) = Len(Asked)

ApplyInv == request \in Setters => Applied /\ Reported

\* No option is asked for twice, and password_id is the last.
LEMMA AskedOnce ==
  ASSUME request \in Setters
  PROVE  /\ Len(Asked) \in Nat /\ DOMAIN Asked = 1..Len(Asked)
         /\ \A i \in 1..Len(Asked) : Asked[i] \in Keys
         /\ \A i, j \in 1..Len(Asked) : Asked[i] = Asked[j] => i = j
         /\ \A i \in 1..Len(Asked) : Asked[i] = "password_id" => i = Len(Asked)
<1>1. CASE request = "SET_STA"
  <2>1. Asked = StaKeys
    BY <1>1 DEF Asked, Options
  <2>2. Len(StaKeys) = 6 /\ DOMAIN StaKeys = 1..6
    BY DEF StaKeys
  <2>3. \A i \in 1..6 : i = 1 \/ i = 2 \/ i = 3 \/ i = 4 \/ i = 5 \/ i = 6
    OBVIOUS
  <2>4. \A i \in 1..6 : StaKeys[i] \in Keys
    BY <2>2 DEF Keys
  <2>5. \A i, j \in 1..6 : StaKeys[i] = StaKeys[j] => i = j
    BY <2>3 DEF StaKeys
  <2>6. \A i \in 1..6 : StaKeys[i] = "password_id" => i = 6
    BY <2>3 DEF StaKeys
  <2> QED
    BY <2>1, <2>2, <2>4, <2>5, <2>6
<1>2. CASE request = "SET_MQTT"
  <2>1. Asked = MqttKeys
    BY <1>2 DEF Asked, Options
  <2>2. Len(MqttKeys) = 1 /\ DOMAIN MqttKeys = 1..1 /\ MqttKeys[1] = "uri"
    BY DEF MqttKeys
  <2>3. \A i \in 1..1 : i = 1
    OBVIOUS
  <2> QED
    BY <2>1, <2>2, <2>3 DEF Keys
<1> QED
  BY <1>1, <1>2 DEF Setters

\* A setter changes no option but its own, and not whether an option counts.
LEMMA SetterKeepsOthers ==
  ASSUME FieldInv, NEW key, NEW value, SetsOption(key, value)
  PROVE  /\ \A k \in Keys : k # key => config'[k] = config[k]
         /\ Skipped(config, key) => ~Counts(key)'
         /\ ~Skipped(config, key) => Counts(key)'
<1>1. \/ config' = config
      \/ config' = [config EXCEPT ![key] = Setting(key, value)]
  BY DEF SetsOption, AfterSetter
<1>2. Keys = {"ssid", "password", "max_retry", "auth_mode", "sae_mode",
             "password_id", "uri"}
  BY DEF Keys, StaKeys
<1>3. DOMAIN config = Keys
  BY <1>2 DEF FieldInv
<1>4. \A k \in Keys : k # key => config'[k] = config[k]
  BY <1>1, <1>3
<1>5. key = "password_id" => config'["sae_mode"] = config["sae_mode"]
  BY <1>2, <1>4
<1> QED
  BY <1>4, <1>5 DEF Skipped, Counts, SetsOption

\* What one setter does to its own option.
LEMMA SetterApplies ==
  ASSUME FieldInv, NEW key, NEW value, SetsOption(key, value)
  PROVE  /\ config'[key] =
              IF Counts(key)' /\ value # NotFound /\ ~Unacceptable(key, value)
                THEN Wanted(key, value) ELSE config[key]
         /\ Counts(key)' /\ Unacceptable(key, value) =>
              /\ httpd' = "refused"
              /\ answers' = Append(answers, RefusalOf(key, value))
         /\ ~(Counts(key)' /\ Unacceptable(key, value)) => httpd' = "set"
<1>1. key \in Keys /\ value \in Texts \cup {NotFound, LookupFails}
      /\ value \in Values[key]
  BY DEF SetsOption
<1>2. key \in DOMAIN config
  BY <1>1 DEF FieldInv, Keys, StaKeys
<1>3. CASE Skipped(config, key)
  <2>1. ~Counts(key)'
    BY <1>3, SetterKeepsOthers
  <2> QED
    BY <1>3, <2>1 DEF SetsOption
<1>4. CASE ~Skipped(config, key)
  <2>1. Counts(key)' /\ config' = AfterSetter(config, key, value)
    BY <1>4, SetterKeepsOthers DEF SetsOption
  <2>2. CASE value = NotFound
    <3>1. ~Stored(key, value) /\ SetterResult(key, value) = "ESP_OK"
      BY <1>1, <2>2, AbsentIgnored
    <3>2. ~Unacceptable(key, value)
      BY <2>2 DEF Unacceptable
    <3> QED
      BY <1>4, <2>1, <2>2, <3>1, <3>2 DEF SetsOption, AfterSetter, Stored
  <2>3. CASE Unacceptable(key, value)
    <3>1. ~Stored(key, value) /\ SetterResult(key, value) # "ESP_OK"
      BY <1>1, <2>3, UnacceptableRefused
    <3> QED
      BY <1>4, <2>1, <2>3, <3>1 DEF SetsOption, AfterSetter, Stored
  <2>4. CASE value # NotFound /\ ~Unacceptable(key, value)
    <3>1. /\ Stored(key, value) /\ Setting(key, value) = Wanted(key, value)
          /\ SetterResult(key, value) = "ESP_OK"
      BY <1>1, <2>4, AcceptableStored
    <3>2. config' = [config EXCEPT ![key] = Wanted(key, value)]
      BY <2>1, <3>1 DEF AfterSetter, Stored
    <3> QED
      BY <1>2, <1>4, <2>1, <2>4, <3>1, <3>2 DEF SetsOption
  <2> QED
    BY <2>2, <2>3, <2>4
<1> QED
  BY <1>3, <1>4

LEMMA InitApply == Init => GivenInv /\ ApplyInv
  BY DEF Init, GivenInv, ApplyInv, Setters

LEMMA GivenStep ==
  ASSUME AnswerInv, GivenInv, [Next]_vars
  PROVE  GivenInv'
<1> USE DEF GivenInv
<1>1. CASE HandlerStarts
  <2>1. PICK r \in HandlerRequests : request' = r /\ httpd' = FirstStep(r)
    BY <1>1 DEF HandlerStarts
  <2>2. httpd' \notin {"off", "wait"}
    BY <2>1 DEF FirstStep, HandlerRequests, Setters
  <2>3. given = <<>> /\ option = 1 /\ UNCHANGED <<given, option>>
    BY <1>1 DEF HandlerStarts, Setters
  <2> QED
    BY <2>2, <2>3
<1>2. CASE SetOption
  <2>1. request \in Setters /\ request' = request /\ httpd' \in {"set", "refused"}
    BY <1>2 DEF SetOption, Goto, AnswerInv
  <2> QED
    BY <2>1
<1>3. CASE HandlerDone
  BY <1>3 DEF HandlerDone
<1>4. CASE ~HandlerStarts /\ ~SetOption /\ ~HandlerDone
  BY <1>4
     DEF Next, ServerStarts, ServerStops, SecondLoopReceives, HandlerGivesUp,
         GetQuery, AllSet, Reply, SendInfo, HandlerPosts, Goto, Returns,
         handlerVars, vars
<1> QED
  BY <1>1, <1>2, <1>3, <1>4

\* While no option is set, what was applied is as it was.
LEMMA AppliedKept ==
  ASSUME Applied, UNCHANGED <<config, before, given, option, request>>
  PROVE  /\ Applied'
         /\ Len(given)' = Len(given) /\ Len(Asked)' = Len(Asked)
         /\ \A i : Refuses(i)' <=> Refuses(i)
         /\ \A i : RefusalOf(Asked[i], given[i])' = RefusalOf(Asked[i], given[i])
BY DEF Applied, Asked, Refuses, Counts

LEMMA SetterAppliesPrefix ==
  ASSUME AnswerInv, FieldInv, request \in Setters, Applied, Reported,
         httpd = "set", option <= Len(Asked), NEW n, n = Len(given),
         NEW key, key = Asked[option], NEW value, SetsOption(key, value)
  PROVE  Applied' /\ Reported'
<1>1. /\ n \in Nat /\ option = n + 1 /\ option \in 1..Len(Asked)
      /\ given \in Seq(Texts \cup {NotFound, LookupFails})
      /\ value \in Texts \cup {NotFound, LookupFails}
      /\ Len(Asked) \in Nat
  <2>1. Len(Asked) \in Nat
    BY AskedOnce
  <2>2. /\ given \in Seq(Texts \cup {NotFound, LookupFails})
        /\ option = n + 1
    BY DEF Applied
  <2>3. n \in Nat
    BY <2>2
  <2>4. value \in Texts \cup {NotFound, LookupFails}
    BY DEF SetsOption
  <2> QED
    BY <2>1, <2>2, <2>3, <2>4
<1>2. /\ given' = Append(given, value) /\ option' = option + 1
      /\ UNCHANGED <<request, before>>
  BY DEF SetsOption, Remember
<1>3. /\ Len(given') = n + 1 /\ given'[n + 1] = value
      /\ given' \in Seq(Texts \cup {NotFound, LookupFails})
      /\ \A i \in 1..n : given'[i] = given[i]
  BY <1>1, <1>2
<1>4. Asked' = Asked
  BY <1>2 DEF Asked
<1>5. \A i \in 1..n : Asked[i] # key /\ Asked[i] # "password_id"
                     /\ Asked[i] \in Keys
  <2>1. \A i \in 1..n : i \in 1..Len(Asked) /\ i # option /\ i # Len(Asked)
    BY <1>1
  <2> QED
    BY <1>1, <2>1, AskedOnce
<1>6. \A i \in 1..n : ~Refuses(i)
  BY DEF Reported
<1>7. \A i \in 1..n : Counts(Asked[i]) /\ Counts(Asked[i])'
  BY <1>4, <1>5 DEF Counts
<1>8. \A i \in 1..n : ~Refuses(i)'
  BY <1>3, <1>4, <1>6, <1>7 DEF Refuses
<1>9. config[key] = before[key]
  <2>1. key \in Keys
    BY <1>1, AskedOnce
  <2> QED
    BY <1>5, <2>1 DEF Applied
<1>10. Refuses(n + 1)' <=> Counts(key)' /\ Unacceptable(key, value)
  BY <1>1, <1>3, <1>4 DEF Refuses
<1>11. ASSUME NEW i \in 1..n
       PROVE  config'[Asked'[i]] =
                IF Counts(Asked[i])' /\ given'[i] # NotFound /\ ~Refuses(i)'
                  THEN Wanted(Asked'[i], given'[i]) ELSE before'[Asked'[i]]
  <2>1. config'[Asked[i]] = config[Asked[i]]
    BY <1>5, SetterKeepsOthers
  <2>2. config[Asked[i]] =
          IF given[i] # NotFound THEN Wanted(Asked[i], given[i])
                                 ELSE before[Asked[i]]
    BY <1>6, <1>7 DEF Applied
  <2> QED
    BY <1>2, <1>3, <1>4, <1>7, <1>8, <2>1, <2>2
<1>12. config'[key] = IF Counts(key)' /\ value # NotFound /\ ~Refuses(n + 1)'
                        THEN Wanted(key, value) ELSE before[key]
  BY <1>9, <1>10, SetterApplies
<1>13. ASSUME NEW k \in Keys, \A i \in 1..(n + 1) : Asked[i] # k
       PROVE  config'[k] = before[k]
  <2>1. k # key /\ \A i \in 1..n : Asked[i] # k
    BY <1>1, <1>13
  <2> QED
    BY <2>1, SetterKeepsOthers DEF Applied
<1>14. Applied'
  <2>1. \A i \in 1..(n + 1) : i \in 1..n \/ i = n + 1
    BY <1>1
  <2>2. option' = Len(given') + 1 /\ Len(given') <= Len(Asked')
    BY <1>1, <1>2, <1>3, <1>4
  <2>3. \A i \in 1..Len(given') :
          config'[Asked'[i]] =
            IF Counts(Asked[i])' /\ given'[i] # NotFound /\ ~Refuses(i)'
              THEN Wanted(Asked'[i], given'[i]) ELSE before'[Asked'[i]]
    BY <1>1, <1>2, <1>3, <1>4, <1>11, <1>12, <2>1
  <2>4. \A k \in Keys : (\A i \in 1..Len(given') : Asked'[i] # k) =>
                            config'[k] = before'[k]
    BY <1>2, <1>3, <1>4, <1>13
  <2> QED
    BY <1>3, <2>2, <2>3, <2>4 DEF Applied
<1>15. Reported'
  <2>1. answers = NoAnswer
    BY DEF AnswerInv
  <2>2. httpd' \in {"set", "refused"}
    BY SetterApplies
  <2>3. ASSUME Refuses(n + 1)'
        PROVE  /\ httpd' = "refused" /\ Len(answers') = 1
               /\ answers'[1] = RefusalOf(Asked'[n + 1], given'[n + 1])
    <3>1. httpd' = "refused" /\ answers' = Append(answers, RefusalOf(key, value))
      BY <1>10, <2>3, SetterApplies
    <3> QED
      BY <1>1, <1>3, <1>4, <2>1, <3>1 DEF NoAnswer
  <2>4. \A i \in 1..(n + 1) : Refuses(i)' => i = n + 1
    BY <1>1, <1>8
  <2> QED
    BY <1>3, <2>2, <2>3, <2>4 DEF Reported
<1> QED
  BY <1>14, <1>15

LEMMA ApplyStep ==
  ASSUME AnswerInv, FieldInv, GivenInv, ApplyInv, [Next]_vars
  PROVE  ApplyInv'
<1> SUFFICES ASSUME request' \in Setters PROVE Applied' /\ Reported'
  BY DEF ApplyInv
<1> USE DEF Reported
<1>1. CASE ServerStarts \/ ServerStops
  BY <1>1 DEF ServerStarts, ServerStops, GivenInv, Setters
<1>2. CASE HandlerStarts
  <2>1. /\ given' = <<>> /\ option' = 1 /\ config' = config /\ before' = config
    BY <1>2 DEF HandlerStarts, GivenInv, Setters
  <2>2. httpd' = "query"
    BY <1>2 DEF HandlerStarts, FirstStep, Setters
  <2>3. Len(given') = 0 /\ given' \in Seq(Texts \cup {NotFound, LookupFails})
    BY <2>1
  <2>4. Len(Asked') >= 0
    BY DEF Setters, Asked, Options, StaKeys, MqttKeys
  <2> QED
    BY <2>1, <2>2, <2>3, <2>4 DEF Applied
<1>3. CASE HandlerDone
  BY <1>3 DEF HandlerDone, Setters
<1>4. CASE SetOption
  <2>1. httpd = "set" /\ request \in Setters /\ option <= Len(Asked)
    BY <1>4 DEF SetOption, AnswerInv, Asked
  <2>2. PICK key, n : key = Asked[option] /\ n = Len(given)
    OBVIOUS
  <2>3. PICK value : SetsOption(key, value)
    BY <1>4, <2>2, OneSetter DEF Asked
  <2> QED
    BY <2>1, <2>2, <2>3, SetterAppliesPrefix DEF ApplyInv
<1>5. CASE SendInfo \/ HandlerPosts
  BY <1>5 DEF SendInfo, HandlerPosts, Goto, Returns, AnswerInv, Setters
<1>6. ASSUME Applied, Reported, UNCHANGED <<config, before, given, option, request>>
      PROVE  /\ Applied' /\ Len(given)' = Len(given) /\ Len(Asked)' = Len(Asked)
             /\ \A i \in 1..Len(given) :
                   /\ Refuses(i)' <=> Refuses(i)
                   /\ RefusalOf(Asked[i], given[i])' = RefusalOf(Asked[i], given[i])
  BY <1>6, AppliedKept
<1>7. CASE HandlerGivesUp
  <2>1. /\ httpd = "refused" /\ httpd' = "done" /\ result' = "ESP_FAIL"
        /\ answers' = Append(answers, Answer(500, <<>>))
        /\ UNCHANGED <<config, before, given, option, request>>
    BY <1>7 DEF HandlerGivesUp, Send, Returns, Goto
  <2>2. Applied /\ Reported
    BY <2>1 DEF ApplyInv
  <2>3. Len(answers) = 1 => answers'[1] = answers[1]
    <3>1. ASSUME NEW first, answers = <<first>> PROVE answers'[1] = answers[1]
      BY <2>1, <3>1
    <3>2. answers = NoAnswer \/ OneAnswer(400) \/ OneAnswer(500)
      BY <2>1 DEF AnswerInv
    <3> QED
      BY <3>1, <3>2 DEF OneAnswer, NoAnswer
  <2> QED
    BY <1>6, <2>1, <2>2, <2>3
<1>8. CASE GetQuery
  <2>1. /\ httpd = "query" /\ httpd' \in {"set", "refused"}
        /\ UNCHANGED <<config, before, given, option, request>>
    BY <1>8 DEF GetQuery, Goto
  <2>2. Applied /\ Reported
    BY <2>1 DEF ApplyInv
  <2> QED
    BY <1>6, <2>1, <2>2
<1>9. CASE AllSet
  <2>1. /\ httpd = "set" /\ httpd' = "reply" /\ option > Len(Asked)
        /\ UNCHANGED <<config, before, given, option, request>>
    BY <1>9 DEF AllSet, Goto, Asked
  <2>2. Applied /\ Reported
    BY <2>1 DEF ApplyInv
  <2>3. Len(given) = Len(Asked)
    BY <2>1, <2>2, AskedOnce DEF Applied
  <2> QED
    BY <1>6, <2>1, <2>2, <2>3
<1>10. CASE Reply
  <2>1. /\ httpd = "reply" /\ httpd' = "done"
        /\ UNCHANGED <<config, before, given, option, request>>
    BY <1>10 DEF Reply, Goto, Returns
  <2>2. Applied /\ Reported
    BY <2>1 DEF ApplyInv
  <2> QED
    BY <1>6, <2>1, <2>2
<1>11. CASE SecondLoopReceives \/ UNCHANGED vars
  <2>1. UNCHANGED <<httpd, answers, result, config, before, given, option, request>>
    BY <1>11 DEF SecondLoopReceives, vars, handlerVars
  <2>2. Applied /\ Reported
    BY <2>1 DEF ApplyInv
  <2> QED
    BY <1>6, <2>1, <2>2
<1> QED
  BY <1>1, <1>2, <1>3, <1>4, <1>5, <1>7, <1>8, <1>9, <1>10, <1>11 DEF Next

\* From the options one by one to the sets PrefixApplied speaks of.
LEMMA ApplyMeans ==
  ASSUME ApplyInv
  PROVE  PrefixApplied
<1> SUFFICES ASSUME request \in Setters, httpd = "done" PROVE PrefixApplied
  BY DEF PrefixApplied
<1> DEFINE bad == {i \in DOMAIN given :
                      Counts(Asked[i]) /\ Unacceptable(Asked[i], given[i])}
           set == {i \in DOMAIN given :
                      /\ Counts(Asked[i]) /\ given[i] # NotFound
                      /\ \A j \in bad : i < j}
<1>1. /\ Applied /\ Reported
      /\ Len(given) \in Nat /\ DOMAIN given = 1..Len(given)
  BY DEF ApplyInv, Applied
<1>2. bad = {i \in 1..Len(given) : Refuses(i)}
  BY <1>1 DEF Refuses
<1>3. \A i \in bad : i = Len(given)
  BY <1>1, <1>2 DEF Reported
<1>4. \A i \in 1..Len(given) :
        i \in set <=> Counts(Asked[i]) /\ given[i] # NotFound /\ ~Refuses(i)
  <2>1. ASSUME NEW i \in 1..Len(given)
        PROVE  (\A j \in bad : i < j) <=> ~Refuses(i)
    <3>1. CASE Refuses(i)
      BY <1>2, <3>1
    <3>2. CASE ~Refuses(i)
      <4>1. ASSUME NEW j \in bad PROVE i < j
        <5>1. j = Len(given) /\ j \in 1..Len(given) /\ Refuses(j)
          BY <1>2, <1>3
        <5>2. i # j
          BY <3>2, <5>1
        <5> QED
          BY <5>1, <5>2
      <4> QED
        BY <3>2, <4>1
    <3> QED
      BY <3>1, <3>2
  <2> QED
    BY <1>1, <2>1
<1> HIDE DEF bad, set
<1>5. ASSUME NEW key \in Keys
      PROVE  IF \E i \in set : Asked[i] = key
               THEN config[key] =
                      Wanted(key, given[CHOOSE i \in set : Asked[i] = key])
               ELSE config[key] = before[key]
  <2>1. set \subseteq 1..Len(given)
    BY <1>1 DEF set
  <2>2. CASE \E i \in set : Asked[i] = key
    <3>1. PICK i : i = CHOOSE j \in set : Asked[j] = key
      OBVIOUS
    <3>2. i \in set /\ Asked[i] = key
      BY <2>2, <3>1
    <3>3. config[Asked[i]] = Wanted(Asked[i], given[i])
      BY <1>1, <1>4, <2>1, <3>2 DEF Applied
    <3> QED
      BY <2>2, <3>1, <3>2, <3>3
  <2>3. CASE ~\E i \in set : Asked[i] = key
    <3>1. CASE \A i \in 1..Len(given) : Asked[i] # key
      BY <1>1, <2>3, <3>1 DEF Applied
    <3>2. CASE \E i \in 1..Len(given) : Asked[i] = key
      <4>1. PICK i \in 1..Len(given) : Asked[i] = key
        BY <3>2
      <4>2. ~(Counts(Asked[i]) /\ given[i] # NotFound /\ ~Refuses(i))
        BY <1>4, <2>3, <4>1
      <4> QED
        BY <1>1, <2>3, <4>1, <4>2 DEF Applied
    <3> QED
      BY <3>1, <3>2
  <2> QED
    BY <2>2, <2>3
<1>6. result = "ESP_OK" => bad = {} /\ Len(given) = Len(Asked)
  BY <1>1, <1>2 DEF Reported
<1>7. bad # {} => answers[1] = IF given[Min(bad)] = LookupFails
                               THEN Answer(500, <<>>)
                               ELSE Answer(400, <<Asked[Min(bad)]>>)
  <2> SUFFICES ASSUME bad # {}
               PROVE  answers[1] = IF given[Min(bad)] = LookupFails
                                     THEN Answer(500, <<>>)
                                     ELSE Answer(400, <<Asked[Min(bad)]>>)
    OBVIOUS
  <2>1. bad = {Len(given)} /\ Len(given) \in 1..Len(given) /\ Refuses(Len(given))
    BY <1>2, <1>3
  <2>2. Min(bad) = Len(given)
    BY <1>1, <2>1 DEF Min
  <2>3. answers[1] = RefusalOf(Asked[Len(given)], given[Len(given)])
    BY <1>1, <2>1 DEF Reported
  <2>4. \A key, value : Lookup(key, value) = LookupFails <=> value = LookupFails
    BY DEF Lookup, NotFound, LookupFails
  <2> QED
    BY <2>2, <2>3, <2>4 DEF RefusalOf
<1> QED
  BY <1>5, <1>6, <1>7 DEF PrefixApplied, Asked, bad, set

\* Whatever the texts: a request to /set_options applies the options before the
\* first that is not acceptable and no other, and tells the client which it was.
THEOREM OptionsApplied == Spec => []PrefixApplied
<1> DEFINE Inv == AnswerInv /\ FieldInv /\ GivenInv /\ ApplyInv
<1>1. Init => Inv
  BY InitAnswers, InitFields, InitApply
<1>2. Inv /\ [Next]_vars => Inv'
  BY AnswerStep, FieldStep, GivenStep, ApplyStep
<1>3. Inv => PrefixApplied
  BY ApplyMeans
<1> QED
  BY <1>1, <1>2, <1>3, PTL DEF Spec
-----------------------------------------------------------------------------
(* The type invariant. *)

Typed == [status : {200, 400, 500}, about : Seq(Keys \cup Texts)]

TypeInv ==
    /\ LoopTypeOK
    /\ server \in BOOLEAN
    /\ httpd \in {"off", "wait", "query", "set", "info", "post", "refused",
                  "reply", "done"}
    /\ request \in HandlerRequests \cup {"none"}
    /\ config \in Configs
    /\ before \in Configs
    /\ answers \in Seq(Typed)
    /\ result \in {"none", "ESP_OK", "ESP_FAIL"}
    /\ accepted \in [Modes -> Texts]

\* The invariants proved so far bound the options, and TypeInv the rest.
LEMMA TypesFollow ==
  ASSUME TypeInv, GivenInv, ApplyInv
  PROVE  TypeOK
<1>1. option \in 1..(Len(StaKeys) + 1) /\ Len(given) < option
  <2>1. CASE request \in Setters
    <3>1. Len(given) \in Nat /\ option = Len(given) + 1 /\ Len(given) <= Len(Asked)
      BY <2>1 DEF ApplyInv, Applied
    <3>2. Len(StaKeys) = 6 /\ Len(Asked) \in {1, 6}
      BY <2>1 DEF Setters, Asked, Options, StaKeys, MqttKeys
    <3>3. \A n, most \in Nat : n <= most /\ most \in {1, 6} =>
            n + 1 \in 1..7 /\ n < n + 1
      OBVIOUS
    <3>4. Len(Asked) \in Nat
      BY <3>2
    <3>5. Len(given) + 1 \in 1..7 /\ Len(given) < Len(given) + 1
      BY <3>1, <3>2, <3>3, <3>4, Zenon
    <3>6. 1..(Len(StaKeys) + 1) = 1..7
      BY <3>2
    <3> QED
      BY <3>1, <3>5, <3>6
  <2>2. CASE request \notin Setters
    BY <2>2 DEF GivenInv, StaKeys
  <2> QED
    BY <2>1, <2>2
<1>2. \A i \in DOMAIN answers :
        /\ answers[i].status \in {200, 400, 500}
        /\ \A j \in DOMAIN answers[i].about : answers[i].about[j] \in Keys \cup Texts
  <2>1. ASSUME NEW i \in DOMAIN answers PROVE answers[i] \in Typed
    BY DEF TypeInv
  <2>2. ASSUME NEW answer \in Typed
        PROVE  /\ answer.status \in {200, 400, 500}
               /\ \A j \in DOMAIN answer.about : answer.about[j] \in Keys \cup Texts
    BY DEF Typed
  <2> QED
    BY <2>1, <2>2
<1> QED
  BY <1>1, <1>2 DEF TypeInv, TypeOK, Modes

LEMMA EnumSettings ==
  /\ \A i \in 1..8 : AuthModesEnum[i] \in {AuthModesEnum[j] : j \in 1..8}
  /\ \A name \in DOMAIN Meaning["auth_mode"] :
        /\ name \in Texts
        /\ Meaning["auth_mode"][name] \in {AuthModesEnum[j] : j \in 1..8}
  /\ \A name \in DOMAIN Meaning["sae_mode"] :
        /\ name \in Texts
        /\ Meaning["sae_mode"][name] \in {SaeModesEnum[j] : j \in 1..4}
<1>1. \A name \in DOMAIN Meaning["auth_mode"] : \E i \in 1..8 :
        name = AuthModesStr[i] /\ Meaning["auth_mode"][name] = AuthModesEnum[i]
  BY AuthTable DEF IsTable
<1>2. \A name \in DOMAIN Meaning["sae_mode"] : \E i \in 1..4 :
        name = SaeModesStr[i] /\ Meaning["sae_mode"][name] = SaeModesEnum[i]
  BY SaeTable DEF IsTable
<1>3. \A i \in 1..4 : SaeModesStr[i] \in Texts
  BY NamesAssumption
<1> QED
  BY <1>1, <1>2, <1>3, NamesAssumption

LEMMA DefaultTypes == DefaultConfig \in Configs
<1>1. "OPEN" = AuthModesEnum[1] /\ "UNSPECIFIED" = SaeModesEnum[1]
  BY DEF AuthModesEnum, SaeModesEnum
<1>2. /\ "OPEN" \in {AuthModesEnum[i] : i \in 1..8}
      /\ "UNSPECIFIED" \in {SaeModesEnum[i] : i \in 1..4}
  BY <1>1
<1>3. ASSUME NEW auth, NEW sae, "OPEN" \in auth, "UNSPECIFIED" \in sae
      PROVE  DefaultConfig \in
               [ssid : Texts, password : Texts, max_retry : Int, auth_mode : auth,
                sae_mode : sae, password_id : Texts, uri : Texts]
  <2>1. 0 \in Int
    OBVIOUS
  <2>2. "" \in Texts /\ "default_uri" \in Texts
    BY DefaultUriAssumption
  <2> HIDE DEF Texts
  <2> QED
    BY <1>3, <2>1, <2>2 DEF DefaultConfig
<1> QED
  BY <1>2, <1>3 DEF Configs

LEMMA InitTypes == Init => TypeInv
<1> SUFFICES ASSUME Init PROVE TypeInv
  OBVIOUS
<1>1. DefaultConfig \in Configs
  BY DefaultTypes
<1>2. accepted \in [Modes -> Texts]
  <2>1. "open" = AuthModesStr[1] /\ "unspecified" = SaeModesStr[1]
    BY DEF AuthModesStr, SaeModesStr
  <2>2. "open" \in Texts /\ "unspecified" \in Texts
    BY <2>1, NamesAssumption
  <2> QED
    BY <2>2 DEF Init, Modes
<1>3. LoopTypeOK
  BY QueueSizeAssumption DEF Init, LoopTypeOK
<1>4. answers \in Seq(Typed)
  BY DEF Init, NoAnswer
<1> QED
  BY <1>1, <1>2, <1>3, <1>4 DEF Init, TypeInv

LEMMA SetterTypes ==
  ASSUME FieldInv, TypeInv, NEW key, NEW value, SetsOption(key, value)
  PROVE  config' \in Configs /\ accepted' \in [Modes -> Texts]
         /\ answers' \in Seq(Typed)
<1>1. key \in Keys /\ value \in Texts \cup {NotFound, LookupFails}
  BY DEF SetsOption
<1>2. Keys = {"ssid", "password", "max_retry", "auth_mode", "sae_mode",
             "password_id", "uri"}
  BY DEF Keys, StaKeys
<1>3. Stored(key, value) => value \in Texts
  BY <1>1 DEF Stored, Lookup, NotFound, LookupFails
<1>4. config' \in Configs
  <2>1. \/ config' = config
        \/ Stored(key, value) /\ config' = [config EXCEPT ![key] = Setting(key, value)]
    BY DEF SetsOption, AfterSetter, Stored
  <2>2. CASE config' = config
    BY <2>2 DEF TypeInv
  <2>3. CASE Stored(key, value) /\ config' = [config EXCEPT ![key] = Setting(key, value)]
    <3>1. CASE key \in TextKeys
      <4>1. Setting(key, value) \in Texts
        BY <1>3, <2>3, <3>1 DEF Setting, TextKeys
      <4> QED
        BY <2>3, <3>1, <4>1 DEF TypeInv, Configs, TextKeys
    <3>2. CASE key = "max_retry"
      <4>1. Setting(key, value) \in Int
        BY <1>3, <2>3, <3>2, TextsAssumption DEF Setting, TextKeys
      <4> QED
        BY <2>3, <3>2, <4>1 DEF TypeInv, Configs
    <3>3. CASE key = "auth_mode"
      <4>1. Setting(key, value) \in {AuthModesEnum[i] : i \in 1..8}
        BY <2>3, <3>3, ModeSetting, EnumSettings
      <4> QED
        BY <2>3, <3>3, <4>1 DEF TypeInv, Configs
    <3>4. CASE key = "sae_mode"
      <4>1. Setting(key, value) \in {SaeModesEnum[i] : i \in 1..4}
        BY <2>3, <3>4, ModeSetting, EnumSettings
      <4> QED
        BY <2>3, <3>4, <4>1 DEF TypeInv, Configs
    <3> QED
      BY <1>1, <1>2, <3>1, <3>2, <3>3, <3>4 DEF TextKeys
  <2> QED
    BY <2>1, <2>2, <2>3
<1>5. accepted' \in [Modes -> Texts]
  <2>1. \/ accepted' = accepted
        \/ Stored(key, value) /\ accepted' = [accepted EXCEPT ![key] = value]
    BY DEF SetsOption, Remember, Stored
  <2> QED
    BY <1>3, <2>1 DEF TypeInv
<1>6. answers' \in Seq(Typed)
  <2>1. <<key>> \in Seq(Keys \cup Texts) /\ <<>> \in Seq(Keys \cup Texts)
    BY <1>1
  <2>2. RefusalOf(key, value) \in Typed
    BY <2>1 DEF RefusalOf, Answer, Typed
  <2>3. answers' = answers \/ answers' = Append(answers, RefusalOf(key, value))
    BY DEF SetsOption
  <2> QED
    BY <2>2, <2>3 DEF TypeInv
<1> QED
  BY <1>4, <1>5, <1>6

LEMMA TypeStep ==
  ASSUME AnswerInv, FieldInv, ModesInv, TypeInv, [Next]_vars
  PROVE  TypeInv'
<1> USE DEF TypeInv
<1>1. CASE ServerStarts \/ ServerStops
  BY <1>1 DEF ServerStarts, ServerStops, loopVars, handlerVars, LoopTypeOK
<1>2. CASE SecondLoopReceives
  <2>1. /\ queue \in Seq(Events) /\ queue # <<>> /\ Len(queue) <= QueueSize
        /\ queue' = Tail(queue) /\ registered' = registered
    BY <1>2 DEF SecondLoopReceives, Receive, LoopTypeOK
  <2>2. queue' \in Seq(Events) /\ Len(queue') <= QueueSize
    BY <2>1, QueueSizeAssumption
  <2>3. LoopTypeOK'
    BY <2>1, <2>2 DEF LoopTypeOK
  <2> QED
    BY <1>2, <2>3 DEF SecondLoopReceives, handlerVars
<1>3. CASE HandlerStarts
  <2>1. PICK r \in HandlerRequests : request' = r /\ httpd' = FirstStep(r)
    BY <1>3 DEF HandlerStarts
  <2>2. httpd' \in {"query", "info", "post"}
    BY <2>1 DEF FirstStep, HandlerRequests, Setters
  <2> QED
    BY <1>3, <2>1, <2>2 DEF HandlerStarts, loopVars, LoopTypeOK
<1>4. CASE HandlerDone
  BY <1>4, DefaultTypes DEF HandlerDone, loopVars, LoopTypeOK, NoAnswer
<1>5. ASSUME NEW status \in {200, 400, 500}, NEW about \in Seq(Keys \cup Texts)
      PROVE  Append(answers, Answer(status, about)) \in Seq(Typed)
  <2>1. Answer(status, about) \in Typed
    BY DEF Answer, Typed
  <2> QED
    BY <2>1
<1>6. \A status \in {200, 400, 500} :
        Append(answers, Answer(status, <<>>)) \in Seq(Typed)
  <2>1. ASSUME NEW status \in {200, 400, 500}
        PROVE  Append(answers, Answer(status, <<>>)) \in Seq(Typed)
    <3>1. Answer(status, <<>>) \in Typed
      BY DEF Answer, Typed
    <3> QED
      BY <3>1
  <2> QED
    BY <2>1
<1>7. CASE HandlerGivesUp
  <2>1. Append(answers, Answer(500, <<>>)) \in Seq(Typed)
    BY <1>6
  <2>2. answers' \in Seq(Typed)
    BY <1>7, <2>1 DEF HandlerGivesUp, Send
  <2> QED
    BY <1>7, <2>2 DEF HandlerGivesUp, Returns, Goto, loopVars, LoopTypeOK
<1>8. CASE GetQuery \/ AllSet
  BY <1>8 DEF GetQuery, AllSet, Goto, loopVars, LoopTypeOK
<1>9. CASE SetOption
  <2>1. config' \in Configs /\ accepted' \in [Modes -> Texts]
        /\ answers' \in Seq(Typed)
    BY <1>9, OneSetter, SetterTypes
  <2>2. /\ httpd' \in {"set", "refused"}
        /\ UNCHANGED <<loopVars, server, request, before, result>>
    BY <1>9 DEF SetOption, Goto
  <2> QED
    BY <2>1, <2>2 DEF loopVars, LoopTypeOK
<1>10. CASE Reply
  <2>1. Append(answers, Answer(200, <<>>)) \in Seq(Typed)
    BY <1>6
  <2>2. answers' \in Seq(Typed)
    BY <1>10, <2>1 DEF Reply, Send
  <2> QED
    BY <1>10, <2>2 DEF Reply, Returns, Goto, loopVars, LoopTypeOK
<1>11. CASE SendInfo
  <2>1. InfoShows \in Seq(Keys \cup Texts)
    <3>1. CASE request = "INIT_STA"
      <4>1. InfoShows = Shown
        BY <3>1, ModesShow
      <4>2. accepted["auth_mode"] \in Texts /\ accepted["sae_mode"] \in Texts
        BY DEF Modes
      <4> QED
        BY <4>1, <4>2 DEF Shown
    <3>2. CASE request # "INIT_STA"
      BY <3>2 DEF InfoShows
    <3> QED
      BY <3>1, <3>2
  <2>2. answers' \in Seq(Typed)
    <3>1. Append(answers, Answer(200, InfoShows)) \in Seq(Typed)
      BY <1>5, <2>1
    <3>2. Append(answers, Answer(500, <<>>)) \in Seq(Typed)
      BY <1>6
    <3>3. \/ answers' = answers
          \/ answers' = Append(answers, Answer(200, InfoShows))
          \/ answers' = Append(answers, Answer(500, <<>>))
      BY <1>11, Zenon DEF SendInfo, Send
    <3> QED
      BY <3>1, <3>2, <3>3
  <2>3. /\ httpd' \in {"post", "refused"}
        /\ UNCHANGED <<loopVars, server, request, before, config, result, accepted>>
    BY <1>11 DEF SendInfo, Goto
  <2> QED
    BY <2>2, <2>3 DEF loopVars, LoopTypeOK
<1>12. CASE HandlerPosts
  <2>1. request \in Events
    BY <1>12 DEF HandlerPosts, AnswerInv, Events
  <2>2. LoopTypeOK'
    BY <1>12, <2>1, QueueSizeAssumption DEF HandlerPosts, Post, CanPost, LoopTypeOK
  <2> QED
    BY <1>12, <2>2 DEF HandlerPosts, Goto, Returns
<1>13. CASE UNCHANGED vars
  BY <1>13 DEF vars, loopVars, handlerVars, LoopTypeOK
<1> QED
  BY <1>1, <1>2, <1>3, <1>4, <1>7, <1>8, <1>9, <1>10, <1>11, <1>12, <1>13 DEF Next

\* The modes that are stored are enumerators of the driver, the texts texts, and
\* the answers name keys and texts.
THEOREM TypesHold == Spec => []TypeOK
<1> DEFINE Inv == /\ AnswerInv /\ FieldInv /\ ModesInv /\ GivenInv /\ ApplyInv
                  /\ TypeInv
<1>1. Init => Inv
  BY InitAnswers, InitFields, InitModes, InitApply, InitTypes
<1>2. Inv /\ [Next]_vars => Inv'
  BY AnswerStep, FieldStep, ModesStep, GivenStep, ApplyStep, TypeStep
<1>3. Inv => TypeOK
  BY TypesFollow
<1> QED
  BY <1>1, <1>2, <1>3, PTL DEF Spec
==============================================================================
