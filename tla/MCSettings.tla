------------------------------ MODULE MCSettings ------------------------------
(* TLC instance of Settings: a few edits by hand that the commands cannot   *)
(* make, and an included file that sets a key of the repository.           *)
EXTENDS Settings, TLC

MCKeys == Pref \cup UpdateKey \cup OtherKey
MCValues == {"true", "false", "y", "n", "Y", "", "arg", "now"}

MCIncluded ==
  [s \in Scopes |-> [k \in MCKeys |->
    IF <<s, k>> = <<"local", "skipUntrusted">> THEN <<"true">> ELSE <<>>]]

(* plain: nothing set; the others override something, or have the marker. *)
MCEnv == {"plain", "overriding", "marker"}
MCMarked == {"marker"}

Quiet == [p \in Pref |-> "unsaid"]

MCEnvOf ==
  "plain" :> Quiet @@
  "overriding" :> [Quiet EXCEPT !["containerized"] = "on", !["skipUntrusted"] = "off",
                                !["disable"] = "off"] @@
  "marker" :> Quiet

MCOtherEdits ==
  {<<"command", "disable", <<"true">> >>,
   <<"worktree", "skipMissing", <<"false">> >>,
   <<"local", "disable", <<"y">> >>,
   <<"local", "trustAll", <<"">> >>,
   <<"local", "trustAll", <<"true", "">> >>,
   <<"global", "hooksPath", <<"arg">> >>,
   <<"global", "timestamp", <<"now", "now">> >>,
   <<"system", "nonInteractive", <<"true">> >>}

MCUnset == [s \in Scopes |-> [k \in MCKeys |-> <<>>]]

(* A registered repository that differs from the global settings. *)
MCMixed ==
  [MCUnset EXCEPT
     !["global"] = [k \in MCKeys |-> IF k \in Pref \ {"disable", "nonInteractive"}
                                    THEN <<"true">>
                                    ELSE IF k \in UpdateKey \cup {"shared", "searchDir"}
                                    THEN <<"arg">> ELSE <<>>],
     !["local"] = [k \in MCKeys |-> IF k \in Pref \ {"disable"} THEN <<"false">>
                                   ELSE IF k = "registered" THEN <<"true">>
                                   ELSE IF k = "shared" THEN <<"arg", "arg">> ELSE <<>>]]

(* Updates are on and were checked for before. *)
MCUpdating ==
  [MCUnset EXCEPT !["global"] = [k \in MCKeys |-> CASE k = "autoUpdate" -> <<"true">>
                                                   [] k = "timestamp" -> <<"now">>
                                                   [] OTHER -> <<>>]]

(* Values no command writes. *)
MCOdd ==
  [MCUnset EXCEPT
     !["global"] = [k \in MCKeys |-> IF k \in {"timestamp", "autoUpdate"}
                                    THEN <<"false", "true">> ELSE <<>>],
     !["local"] = [k \in MCKeys |-> IF k = "trustAll" THEN <<"">> ELSE <<>>]]

MCInitial == {MCUnset, MCMixed, MCUpdating, MCOdd}
=============================================================================
