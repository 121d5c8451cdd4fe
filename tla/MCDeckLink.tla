----------------------------- MODULE MCDeckLink -----------------------------
(***************************************************************************)
(* The core, the plugin and the messages between them for TLC: the plugin  *)
(* and two applications in each life of the core, and no bound on lives.   *)
(***************************************************************************)
EXTENDS DeckLink

CONSTANTS k1, k2

MCPluginTypes == {STREAM_DECK_PLUGIN_TYPE, "app"}
MCTexts == {"Next", "Zoom"}
MCIcons == {"png"}
MCKeyStates == {0}
MCPositions == {k1, k2}

(* One application has a picture on its first key, the other a text on     *)
(* both.                                                                   *)
MCDeclarations ==
  {[l \in {<<"keypad", 1>>} |-> [label |-> "Next", icon |-> "png", state |-> Absent]],
   [l \in {<<"keypad", 1>>, <<"keypad", 2>>} |-> [label |-> "Zoom", icon |-> Absent, state |-> Absent]]}

(* Position k2 is "B2" of one device and "B1" of the other.                *)
MCReports ==
  {[keypad |-> <<k1, k2>>, encoder |-> <<>>],
   [keypad |-> <<k2>>, encoder |-> <<>>]}
=============================================================================
