---------------------------- MODULE DeckActions ----------------------------
(***************************************************************************)
(* The generic Key and Dial actions of stream-deck-plugin (actions/*.ts):  *)
(* instances appear and disappear on the deck, render_updates arrive, and  *)
(* every rendering is a row of awaited setter calls to the Stream Deck     *)
(* application, so that several are under way for one instance.            *)
(*                                                                         *)
(* Assumed of the SDK: the calls for one instance are answered in the      *)
(* order they were made.                                                   *)
(***************************************************************************)
EXTENDS Naturals, Sequences

CONSTANTS
  Instances,    (* the placed actions, on all pages                        *)
  SlotOf,       (* where each is placed: <<controller, position>>          *)
  Texts, Icons, KeyStates,   (* what an update may carry                   *)
  Absent,       (* an omitted field, or one never rendered                 *)
  Null,         (* the manifest's own icon                                 *)
  MaxPending    (* bound: how many renderings are under way for an         *)
                (* instance when another starts                            *)

Store == INSTANCE RenderStore

DefaultLabel == "Gatoway"

ASSUME ActionsAssumption ==
  /\ DOMAIN SlotOf = Instances
  /\ Absent \notin Icons \union {Null} /\ Null \notin Icons
  /\ 0 \in KeyStates /\ Absent \notin KeyStates
  /\ Absent \notin Texts
  /\ MaxPending \in Nat

VARIABLES
  visible,    (* this.actions of the two singleton actions                 *)
  store,      (* the RenderStore                                           *)
  pending,    (* for each instance, the calls each rendering still has to  *)
              (* make, in the order their awaits end                       *)
  shown       (* what the deck shows of each instance                      *)

actionsVars == <<visible, store, pending, shown>>

IsKey(i) == SlotOf[i][1] = "keypad"

Fresh(i) ==
  [label |-> DefaultLabel, icon |-> Null, state |-> IF IsKey(i) THEN 0 ELSE Absent]

Call(field, value) == [field |-> field, value |-> value]
CallIfSet(field, value) == IF value = Absent THEN <<>> ELSE <<Call(field, value)>>

Baseline == <<Call("label", DefaultLabel), Call("icon", Null)>>

(* Mutant: a null icon is taken for one that was not set.                  *)
SettersNullish(i, remembered) ==
  IF remembered = Store!NeverRendered THEN Baseline
  ELSE CallIfSet("label", remembered.text)
         \o (IF remembered.icon = Null THEN <<>> ELSE CallIfSet("icon", remembered.icon))
         \o (IF IsKey(i) THEN CallIfSet("state", remembered.state) ELSE <<>>)

(* The setters renderGenericKey and renderGenericDial call, in order:      *)
(* the fields that are set, or the local baseline.                         *)
Setters(i, remembered) ==
  IF remembered = Store!NeverRendered THEN Baseline
  ELSE CallIfSet("label", remembered.text) \o CallIfSet("icon", remembered.icon)
         \o (IF IsKey(i) THEN CallIfSet("state", remembered.state) ELSE <<>>)

ActionsInit ==
  /\ visible = {}
  /\ store = Store!EmptyStore
  /\ pending = [i \in Instances |-> <<>>]
  /\ shown = [i \in Instances |-> Fresh(i)]

(* A rendering that has `calls` to make makes the first one at once.       *)
Proceed(i, calls, others) ==
  /\ shown' = [shown EXCEPT ![i][Head(calls).field] = Head(calls).value]
  /\ pending' = [pending EXCEPT ![i] =
                   IF Tail(calls) = <<>> THEN others ELSE Append(others, Tail(calls))]

(* Mutant: a rendering waits before its first call.                        *)
RenderLater(i, remembered) ==
  /\ pending' = [pending EXCEPT ![i] = Append(@, Setters(i, remembered))]
  /\ UNCHANGED shown

Render(i, remembered) == Proceed(i, Setters(i, remembered), pending[i])

Idle(i) == Len(pending[i]) < MaxPending

(* onWillAppear.  A deck shows one instance at a slot.                     *)
WillAppear(i) ==
  /\ \A j \in visible : SlotOf[j] # SlotOf[i]
  /\ Idle(i)
  /\ visible' = visible \union {i}
  /\ Render(i, Store!Get(store, SlotOf[i]))
  /\ UNCHANGED store

WillDisappear(i) ==
  /\ i \in visible
  /\ visible' = visible \ {i}
  /\ UNCHANGED <<store, pending, shown>>

(* onRenderUpdate of plugin.ts: the store, then whoever is visible there.  *)
RenderUpdate(update) ==
  /\ store' = Store!Apply(store, update)
  /\ LET slot == <<update.controller, update.position>>
         there == {i \in visible : SlotOf[i] = slot}
     IN /\ \A i \in there : Idle(i) /\ Render(i, Store!Get(store', slot))
        /\ there = {} => UNCHANGED <<pending, shown>>
  /\ UNCHANGED visible

(* The first await of an instance's renderings ends.                       *)
SetterAnswered(i) ==
  /\ pending[i] # <<>>
  /\ Proceed(i, Head(pending[i]), Tail(pending[i]))
  /\ UNCHANGED <<visible, store>>

(* The store is empty again; the Stream Deck shows what it showed.         *)
PluginRestarts ==
  /\ visible' = {}
  /\ store' = Store!EmptyStore
  /\ pending' = [i \in Instances |-> <<>>]
  /\ UNCHANGED shown

(* What gatoway-core writes: a text and an icon or null always, a state    *)
(* sometimes.                                                              *)
Updates ==
  [controller : {SlotOf[i][1] : i \in Instances}, position : {SlotOf[i][2] : i \in Instances},
   text : Texts, icon : Icons \union {Null}, state : KeyStates \union {Absent}]

ActionsNext ==
  \/ \E i \in Instances : WillAppear(i) \/ WillDisappear(i) \/ SetterAnswered(i)
  \/ \E update \in Updates : RenderUpdate(update)
  \/ PluginRestarts

ActionsSpec == ActionsInit /\ [][ActionsNext]_actionsVars

-----------------------------------------------------------------------------

Remembered(i) == Store!Get(store, SlotOf[i])

Title(i) == IF Remembered(i).text = Absent THEN DefaultLabel ELSE Remembered(i).text

(* However appearances and updates overlap, the title of what is on the    *)
(* deck is never behind the store.                                         *)
TitleIsNeverStale == \A i \in visible : shown[i].label = Title(i)

(* stream-deck-idle-display: the deck shows "whatever a `render_update`    *)
(* message most recently specified", icon and state too, as soon as the    *)
(* calls under way are done: the last rendering wins, on an instance that  *)
(* was away meanwhile too, and before the first update the baseline shows. *)
ShowsWhatIsRemembered(i) ==
  /\ shown[i].icon = IF Remembered(i).icon = Absent THEN Null ELSE Remembered(i).icon
  /\ (IsKey(i) /\ Remembered(i).state # Absent) => shown[i].state = Remembered(i).state

LastRenderingWins ==
  \A i \in visible : pending[i] = <<>> => ShowsWhatIsRemembered(i)
=============================================================================
