--------------------------- MODULE MCGatowayCore ---------------------------
(***************************************************************************)
(* A small gatoway-core for TLC: three connections, of which any may be    *)
(* the Stream Deck or an application.                                      *)
(***************************************************************************)
EXTENDS GatowayCore

CONSTANTS k1, k2, d1, badKey, badValue

MCPluginTypes == {STREAM_DECK_PLUGIN_TYPE, "app"}
MCTexts == {"Next", "Zoom"}
MCIcons == {"png"}
MCKeyStates == {0, 1}
MCPositions == {k1, k2, d1}

Plain(text) == [label |-> text, icon |-> Absent, state |-> Absent]
Rich(text) == [label |-> text, icon |-> "png", state |-> 1]

(* Two keys, a dial and every kind of bad entry: what survives depends on  *)
(* the capacity known when it is declared.                                 *)
MixedDeclaration ==
  [l \in {<<"keypad", 1>>, <<"keypad", 2>>, <<"encoder", 1>>, <<"encoder", 2>>, <<"keypad", 3>>, badKey} |->
     IF l = <<"keypad", 3>> THEN badValue
     ELSE IF l = <<"keypad", 1>> THEN Plain("Next")
     ELSE IF l = <<"encoder", 1>> THEN Plain("Zoom")
     ELSE Rich("Zoom")]

MCDeclarations == {MixedDeclaration}

FullReport == [keypad |-> <<k1, k2>>, encoder |-> <<d1>>]
SmallReport == [keypad |-> <<k2>>, encoder |-> <<>>]

MCReports == {FullReport, SmallReport}
=============================================================================
