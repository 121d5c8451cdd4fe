--------------------------- MODULE ProfileRouter ---------------------------
(***************************************************************************)
(* routing/profileRouter.ts: what each event makes gatoway-core write, and *)
(* to whom.  The tracked connections, the focus holder and the latest      *)
(* capacity are parameters; a result is an outbox, which gives every       *)
(* connection the sequence of messages one handler writes to it.           *)
(*                                                                         *)
(* An input event's eventType and delta travel unread from input_event to  *)
(* command and are left out.                                               *)
(***************************************************************************)
EXTENDS ConnectionManager, FocusTracker

STREAM_DECK_PLUGIN_TYPE == "stream-deck"

IdleLabel == "Gatoway"

(* The messages gatoway-core writes.                                       *)
RegisterAck(status) == [type |-> "register_ack", status |-> status]
ErrorMessage(rejected) == [type |-> "error", rejected |-> rejected]
SlotCapacityMessage(capacity) ==
  [type |-> "slot_capacity", counts |-> GetSlotCapacity(capacity)]
Command(label) == [type |-> "command", slot |-> label]
RenderUpdate(ctrl, position, icon, text, state) ==
  [type |-> "render_update", controller |-> ctrl, position |-> position,
   icon |-> icon, text |-> text, state |-> state]

(* Outboxes: nothing at all, messages to one connection, one outbox after  *)
(* another.                                                                *)
Silence == [c \in ConnId |-> <<>>]
SendTo(c, messages) == [Silence EXCEPT ![c] = messages]
Then(first, second) == [c \in ConnId |-> first[c] \o second[c]]

-----------------------------------------------------------------------------

IsStreamDeck(conns, c) ==
  /\ Authenticated(conns, c)
  /\ conns[c].pluginType = STREAM_DECK_PLUGIN_TYPE

(* Mutant: whoever is not the Stream Deck.                                 *)
IsNoStreamDeck(conns, c) ==
  c \in DOMAIN conns /\ conns[c].pluginType # STREAM_DECK_PLUGIN_TYPE

(* An application plugin, to broadcastSlotCapacity: it has registered.     *)
IsApplication(conns, c) ==
  /\ Authenticated(conns, c)
  /\ conns[c].pluginType \notin {Absent, STREAM_DECK_PLUGIN_TYPE}

(* The display: the Stream Deck connection accepted first, if there is any. *)
StreamDecks(conns) == {c \in DOMAIN conns : IsStreamDeck(conns, c)}

FindStreamDeckConnection(conns) ==
  CHOOSE d \in StreamDecks(conns) : \A e \in StreamDecks(conns) : d <= e

(* What a focused connection shows; an idle deck shows no content at all.  *)
DisplayedContent(conns, focused) ==
  IF focused \in DOMAIN conns THEN conns[focused].content ELSE NoContent

(* One position of a sweep: the entry its label has in the content, or the *)
(* idle appearance.  An entry's missing icon is written as null, its       *)
(* missing state is not written.                                           *)
RenderSlot(ctrl, position, label, content) ==
  IF label \in DOMAIN content
    THEN RenderUpdate(ctrl, position,
                      IF content[label].icon = Absent THEN Null ELSE content[label].icon,
                      content[label].label,
                      content[label].state)
    ELSE RenderUpdate(ctrl, position, Null, IdleLabel, 0)

SweepForController(capacity, ctrl, content) ==
  [i \in DOMAIN PositionsFor(capacity, ctrl) |->
     RenderSlot(ctrl, PositionsFor(capacity, ctrl)[i], LabelFor(ctrl, i), content)]

Sweep(capacity, content) ==
  SweepForController(capacity, "keypad", content)
    \o SweepForController(capacity, "encoder", content)

(* sendSweepTo: idle is the sweep of no content.                           *)
SendSweepTo(conns, capacity, deck, focused) ==
  SendTo(deck, Sweep(capacity, DisplayedContent(conns, focused)))

(* Mutant: every display is swept.                                         *)
BroadcastToAllDecks(conns, capacity, focused) ==
  [c \in ConnId |->
     IF c \in StreamDecks(conns) THEN Sweep(capacity, DisplayedContent(conns, focused))
     ELSE <<>>]

(* Sweep whatever display there is right now.                              *)
BroadcastForFocusChange(conns, capacity, focused) ==
  IF StreamDecks(conns) = {} THEN Silence
  ELSE SendSweepTo(conns, capacity, FindStreamDeckConnection(conns), focused)

SendSlotCapacity(capacity, c) == SendTo(c, <<SlotCapacityMessage(capacity)>>)

(* Mutant: the new capacity is told at the next register or focus only.    *)
TellNobody(conns, capacity) == Silence

BroadcastSlotCapacity(conns, capacity) ==
  [c \in ConnId |->
     IF IsApplication(conns, c) THEN <<SlotCapacityMessage(capacity)>> ELSE <<>>]

-----------------------------------------------------------------------------
(* The handlers of ProtocolRouter.                                         *)

HandleRegistered(conns, focused, capacity, c) ==
  IF IsStreamDeck(conns, c)
    THEN SendSweepTo(conns, capacity, c, focused)
    ELSE Then(SendSlotCapacity(capacity, c),
              IF focused = c THEN BroadcastForFocusChange(conns, capacity, c) ELSE Silence)

(* `before` and `after` are the focus holder before and after the report.  *)
HandleFocus(conns, before, after, capacity) ==
  IF after = before THEN Silence
  ELSE Then(BroadcastForFocusChange(conns, capacity, after),
            IF after \in DOMAIN conns THEN SendSlotCapacity(capacity, after) ELSE Silence)

(* Mutant: the display is left as it is.                                   *)
ForgetSilently(conns, before, after, capacity) == Silence

(* `conns` no longer tracks the connection that went.                      *)
HandleDisconnect(conns, before, after, capacity) ==
  IF after = before THEN Silence
  ELSE BroadcastForFocusChange(conns, capacity, after)

(* Drops the event, in the order of the code: nothing focused (or no longer *)
(* tracked), an unreported position, no content at its label.              *)
HandleInputEvent(conns, focused, capacity, ctrl, position) ==
  IF /\ focused \in DOMAIN conns
     /\ Reported(capacity, ctrl, position)
     /\ LabelAt(capacity, ctrl, position) \in DOMAIN conns[focused].content
    THEN SendTo(focused, <<Command(LabelAt(capacity, ctrl, position))>>)
    ELSE Silence
=============================================================================
