---------------------------- MODULE RenderStore ----------------------------
(***************************************************************************)
(* stream-deck-plugin's actions/renderStore.ts: what the plugin remembers  *)
(* of each physical position, and how a render_update merges into it.  A   *)
(* store is a function from slots <<controller, position>> to their        *)
(* appearance.                                                             *)
(***************************************************************************)
EXTENDS Naturals, Sequences

CONSTANT Absent   (* an omitted field, or one never rendered               *)

EmptyStore == [slot \in {} |-> Absent]

NeverRendered == [icon |-> Absent, text |-> Absent, state |-> Absent]

Get(store, slot) == IF slot \in DOMAIN store THEN store[slot] ELSE NeverRendered

(* apply(): a field the update omits keeps its value.  A null icon is not  *)
(* an omitted one.                                                         *)
Merge(existing, update) ==
  [icon  |-> IF update.icon = Absent THEN existing.icon ELSE update.icon,
   text  |-> IF update.text = Absent THEN existing.text ELSE update.text,
   state |-> IF update.state = Absent THEN existing.state ELSE update.state]

Apply(store, update) ==
  LET slot == <<update.controller, update.position>>
  IN [s \in DOMAIN store \union {slot} |->
        IF s = slot THEN Merge(Get(store, slot), update) ELSE store[s]]

(* Where in a sequence of messages a render_update sets a field of a slot. *)
Setting(messages, slot, field) ==
  {n \in DOMAIN messages :
     /\ messages[n].type = "render_update"
     /\ <<messages[n].controller, messages[n].position>> = slot
     /\ messages[n][field] # Absent}

LastOf(numbers) == CHOOSE n \in numbers : \A k \in numbers : k <= n

(* What a field of a slot is after a sequence of messages: as the last     *)
(* update that sets it says, otherwise as it was.                          *)
After(store, messages, slot, field) ==
  LET setting == Setting(messages, slot, field)
  IN IF setting = {} THEN Get(store, slot)[field] ELSE messages[LastOf(setting)][field]

SlotsIn(messages) ==
  {<<messages[n].controller, messages[n].position>> :
     n \in {k \in DOMAIN messages : messages[k].type = "render_update"}}

(* Every render_update of a sequence of messages applied, in the order of  *)
(* the sequence: the effect of one apply() after another.                  *)
ApplyAll(store, messages) ==
  [slot \in DOMAIN store \union SlotsIn(messages) |->
     [icon  |-> After(store, messages, slot, "icon"),
      text  |-> After(store, messages, slot, "text"),
      state |-> After(store, messages, slot, "state")]]
=============================================================================
