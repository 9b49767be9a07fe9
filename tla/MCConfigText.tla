---------------------------- MODULE MCConfigText ----------------------------
(* Sections, values and descriptions for ConfigText.                        *)
EXTENDS ConfigText

MCKeys ==
  [s \in {"Video", "Boot", "Behavior", "Marker"} |->
     CASE s = "Video"    -> {"TargetPci", "ExpectedVendor"}
       [] s = "Boot"     -> {"TargetControllerPci", "TargetBbsDescription"}
       [] s = "Behavior" -> {"Probe"}
       [] s = "Marker"   -> {"Enabled", "Start"}]

MCValues ==
  [k \in UNION Range(MCKeys) |->
     CASE k = "TargetPci"            -> {"a"}
       [] k = "TargetControllerPci"  -> {"b"}
       [] k = "TargetBbsDescription" -> {<<"x">>, <<Quote, "x">>}
       [] k = "Probe"                -> {"false"}
       [] k = "Enabled"              -> {"true", "false"}
       [] k = "Start"                -> {"0", "1"}
       [] OTHER                      -> {"x"}]

Chars == {Blank, Quote, Backslash, "x"}
MCTexts == (UNION {[1 .. n -> Chars] : n \in 1 .. 3}) \cup {<<"x", "x", "x", "x">>, <<"=">>, <<"control">>}
MCEditTexts == {<<Quote, Backslash>>, <<"=">>}

=============================================================================
