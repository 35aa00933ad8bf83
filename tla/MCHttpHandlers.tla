---------------------------- MODULE MCHttpHandlers ----------------------------
(* Texts for HttpHandlers: the names, and values at and past each limit. *)
EXTENDS HandlerProperties, TLC

MCLength ==
    ("" :> 0) @@ ("open" :> 4) @@ ("wep" :> 3) @@ ("wpa_psk" :> 7)
    @@ ("wpa2_psk" :> 8) @@ ("wpa_wpa2_psk" :> 12) @@ ("wpa3_psk" :> 8)
    @@ ("wpa2_wpa3_psk" :> 13) @@ ("wapi_psk" :> 8) @@ ("unspecified" :> 11)
    @@ ("hunt_and_peck" :> 13) @@ ("h2e" :> 3) @@ ("both" :> 4)
    @@ ("default_uri" :> 32) @@ ("5" :> 1) @@ ("word" :> 4)
    @@ ("text_31" :> 31) @@ ("text_32" :> 32) @@ ("text_63" :> 63)
    @@ ("text_64" :> 64) @@ ("text_490" :> 490)

MCAtoi == [t \in DOMAIN MCLength |-> IF t = "5" THEN 5 ELSE 0]

\* "text_490" is the longest URI an address of 512 characters leaves room for.
MCValues ==
    [ssid        |-> {NotFound, "text_31", "text_32"},
     password    |-> {"text_63", "text_64"},
     max_retry   |-> {NotFound, "5", "word", "text_31"},
     auth_mode   |-> {NotFound, "wpa2_wpa3_psk", "wapi_psk", "word", "text_31"},
     sae_mode    |-> {"both", "unspecified", "text_31"},
     password_id |-> {NotFound, "text_31", "text_32", LookupFails},
     uri         |-> {NotFound, "text_490"}]
==============================================================================
