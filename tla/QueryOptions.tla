----------------------------- MODULE QueryOptions -----------------------------
(***************************************************************************)
(* The options of /set_options: the setters of aug_http_server.c, which    *)
(* take one value each from the query string, and the tables of            *)
(* aug_utility.c, which turn names into enumerators and back.              *)
(*                                                                         *)
(* A text is a value whose length and whose number (atoi) are given; what  *)
(* a query holds for a key is a text, NotFound, or LookupFails when        *)
(* httpd_query_key_value fails in another way.                             *)
(***************************************************************************)
EXTENDS Integers, Sequences, FiniteSetsExt

CONSTANTS
    Length,  \* strlen of each text
    Atoi     \* atoi of each text

Texts == DOMAIN Length

ASSUME TextsAssumption ==
    /\ Length \in [Texts -> Nat]
    /\ Atoi \in [Texts -> Int]
    /\ \A t \in Texts : t = "" <=> Length[t] = 0

NotFound == "ESP_ERR_NOT_FOUND"
LookupFails == "ESP_ERR_INVALID_ARG"

\* AUG_AUTH_MODES_STR and AUG_AUTH_MODES_ENUM, two arrays with one index.
AuthModesStr ==
    <<"open", "wep", "wpa_psk", "wpa2_psk", "wpa_wpa2_psk", "wpa3_psk",
      "wpa2_wpa3_psk", "wapi_psk">>
\* Mutant of AuthModesEnum: the last two are in the wrong order.
AuthModesEnumSwapped ==
    <<"OPEN", "WEP", "WPA_PSK", "WPA2_PSK", "WPA_WPA2_PSK", "WPA3_PSK",
      "WAPI_PSK", "WPA2_WPA3_PSK">>
AuthModesEnum ==
    <<"OPEN", "WEP", "WPA_PSK", "WPA2_PSK", "WPA_WPA2_PSK", "WPA3_PSK",
      "WPA2_WPA3_PSK", "WAPI_PSK">>

SaeModesStr == <<"unspecified", "hunt_and_peck", "h2e", "both">>
SaeModesEnum == <<"UNSPECIFIED", "HUNT_AND_PECK", "HASH_TO_ELEMENT", "BOTH">>

ASSUME NamesAssumption ==
    \A i \in 1..8 : /\ AuthModesStr[i] \in Texts
                    /\ i <= 4 => SaeModesStr[i] \in Texts

\* The size of the longest name with its terminator (MAX_OF_8, MAX_OF_4).
MaxSize(names) == Max({Length[names[i]] + 1 : i \in DOMAIN names})

\* The loops of the four conversions: the first i with from[i] = x selects to[i].
Known(from, x) == \E i \in DOMAIN from : from[i] = x
Convert(from, to, x) == to[Min({i \in DOMAIN from : from[i] = x})]

\* Mutant of AuthKnown: the loop of aug_auth_mode_to_str stops one short.
AuthKnownButLast(mode) == \E i \in 1..7 : AuthModesEnum[i] = mode

\* aug_auth_mode_to_str and aug_sae_mode_to_str find the mode.
AuthKnown(mode) == Known(AuthModesEnum, mode)
SaeKnown(mode) == Known(SaeModesEnum, mode)
-----------------------------------------------------------------------------
(* The options in the order set_sta_options and set_options_mqtt take them. *)

StaKeys == <<"ssid", "password", "max_retry", "auth_mode", "sae_mode",
             "password_id">>
MqttKeys == <<"uri">>
Keys == {StaKeys[i] : i \in DOMAIN StaKeys} \cup {"uri"}
TextKeys == {"ssid", "password", "password_id", "uri"}

\* The arrays of wifi_sta_config_t, and uri_str (MQTT_MAX_URI_LEN + 1).
FieldSize == [ssid |-> 32, password |-> 64, password_id |-> 32, uri |-> 513]

\* Mutant of BufferSize: the size of the password, left from the call before.
BufferSizeOfPassword(key) ==
    CASE key \in {"ssid", "password"} -> FieldSize[key]
      [] key = "password_id" -> FieldSize["password"]
      [] key = "uri"         -> 512
      [] key = "max_retry"   -> 24
      [] key = "auth_mode"   -> MaxSize(AuthModesStr)
      [] key = "sae_mode"    -> MaxSize(SaeModesStr)

\* The size of the buffer a setter has for a value and its terminator.
BufferSize(key) ==
    CASE key \in {"ssid", "password", "password_id"} -> FieldSize[key]
      [] key = "uri"       -> 512
      [] key = "max_retry" -> 24
      [] key = "auth_mode" -> MaxSize(AuthModesStr)
      [] key = "sae_mode"  -> MaxSize(SaeModesStr)

\* httpd_query_key_value truncates a value that leaves no room for the
\* terminator, and says so.
Lookup(key, value) ==
    IF value \in {NotFound, LookupFails} THEN value
    ELSE IF Length[value] < BufferSize(key) THEN "ESP_OK"
    ELSE "ESP_ERR_HTTPD_RESULT_TRUNC"

\* An enumerated option must name a mode; set_int_value takes any text.
Valid(key, text) ==
    /\ key = "auth_mode" => Known(AuthModesStr, text)
    /\ key = "sae_mode" => Known(SaeModesStr, text)

Setting(key, text) ==
    CASE key \in TextKeys  -> text
      [] key = "max_retry" -> Atoi[text]
      [] key = "auth_mode" -> Convert(AuthModesStr, AuthModesEnum, text)
      [] key = "sae_mode"  -> Convert(SaeModesStr, SaeModesEnum, text)

\* What set_str_value, set_int_value, set_auth_enum_value and
\* set_sae_mode_enum_value return: an option that is not there is no error.
SetterResult(key, value) ==
    LET found == Lookup(key, value)
    IN  CASE found = NotFound -> "ESP_OK"
          [] found = "ESP_OK" -> IF Valid(key, value) THEN "ESP_OK" ELSE "ESP_FAIL"
          [] OTHER            -> found

\* The configuration after a setter: changed only by a value found and valid.
AfterSetter(config, key, value) ==
    IF Lookup(key, value) = "ESP_OK" /\ Valid(key, value)
      THEN [config EXCEPT ![key] = Setting(key, value)]
      ELSE config

\* password_id is not looked up unless the SAE mode, old or new, wants one.
Skipped(config, key) ==
    /\ key = "password_id"
    /\ config.sae_mode \notin {"HASH_TO_ELEMENT", "BOTH"}
==============================================================================
