------------------------------ MODULE DeckFace ------------------------------
(***************************************************************************)
(* What the face of the deck has to show for the state gatoway-core is in. *)
(* The face is the Stream Deck plugin's RenderStore: PeerViews compares it *)
(* with the core once everything written is read, DeckLink while messages  *)
(* are under way.                                                          *)
(***************************************************************************)
EXTENDS GatowayCore

Store == INSTANCE RenderStore

(* A report has every position of a controller once: it is made of the     *)
(* keys and dials of the one device that is connected (DeviceCapacity).    *)
ASSUME FaceAssumption ==
  /\ \A report \in Reports : \A ctrl \in Controllers :
       \A i, j \in DOMAIN report[ctrl] : report[ctrl][i] = report[ctrl][j] => i = j
  /\ Absent \notin {IdleLabel, STREAM_DECK_PLUGIN_TYPE}

(* The appearance the i-th position of a controller must have: the focused *)
(* connection's entry at the label the position has now, or idle.          *)
Due(ctrl, i) ==
  RenderSlot(ctrl, PositionsFor(capacity, ctrl)[i], LabelFor(ctrl, i),
             DisplayedContent(conns, focused))

(* A store shows the icon and text that are due at every position.         *)
Agrees(store) ==
  \A ctrl \in Controllers : \A i \in DOMAIN PositionsFor(capacity, ctrl) :
    LET shown == Store!Get(store, <<ctrl, PositionsFor(capacity, ctrl)[i]>>)
    IN shown.icon = Due(ctrl, i).icon /\ shown.text = Due(ctrl, i).text
=============================================================================
