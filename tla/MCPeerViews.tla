---------------------------- MODULE MCPeerViews ----------------------------
(***************************************************************************)
(* The core and its peers for TLC: three connections, one of which may be  *)
(* the Stream Deck at a time.                                              *)
(***************************************************************************)
EXTENDS PeerViews

CONSTANTS k1, k2, badKey, badValue

MCPluginTypes == {STREAM_DECK_PLUGIN_TYPE, "app"}
MCTexts == {"Next", "Zoom"}
MCIcons == {"png"}
MCKeyStates == {0, 1}
MCPositions == {k1, k2}

Plain(text) == [label |-> text, icon |-> Absent, state |-> Absent]
Rich(text) == [label |-> text, icon |-> "png", state |-> 1]

(* Two keys, one bad key and one bad value.  What survives depends on the  *)
(* capacity known when it is declared.                                     *)
MixedDeclaration ==
  [l \in {<<"keypad", 1>>, <<"keypad", 2>>, <<"keypad", 3>>, badKey} |->
     IF l = <<"keypad", 3>> THEN badValue
     ELSE IF l = <<"keypad", 1>> THEN Rich("Next")
     ELSE Plain("Zoom")]
MCDeclarations == {MixedDeclaration}

(* A key with a state, and the same key without one.                       *)
MCTwoDeclarations == {[l \in {<<"keypad", 1>>} |-> Rich("Next")],
                      [l \in {<<"keypad", 1>>} |-> Plain("Zoom")]}

(* Position k2 is "B2" of one device and "B1" of the other.                *)
MCReports ==
  {[keypad |-> <<k1, k2>>, encoder |-> <<>>],
   [keypad |-> <<k2>>, encoder |-> <<>>]}
=============================================================================
