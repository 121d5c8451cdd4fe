---------------------------- MODULE SlotContent ----------------------------
(***************************************************************************)
(* What an application may declare for the slots of a Stream Deck, and how *)
(* a slot's fixed label and its physical position name the same thing:     *)
(* gatoway-core's slotContentValidation.ts, position.ts, resolveContent of *)
(* messageHandler.ts and the position/label half of profileRouter.ts.      *)
(*                                                                         *)
(* A label "B3" is the pair <<"keypad", 3>>, "D1" is <<"encoder", 1>>.  A  *)
(* key of a declaration that is no such pair stands for every string that  *)
(* LABEL_PATTERN refuses ("B01", "X9", "B0"), and a value that is no Entry *)
(* for every value that fails the shape test of SlotContent.               *)
(***************************************************************************)
EXTENDS Naturals, Sequences

CONSTANTS
  Texts,         (* the non-empty strings an entry's own label may be      *)
  Icons,         (* the image strings an entry may carry                   *)
  KeyStates,     (* the numbers an entry's or a render_update's state may be *)
  Positions,     (* physical positions; samePosition is equality           *)
  Absent,        (* an undefined field, or a value never set               *)
  Null           (* JSON null                                              *)

ASSUME MarkersAssumption ==
  /\ Absent \notin Icons /\ Absent \notin KeyStates /\ Absent # Null
  /\ Null \notin Icons
  /\ 0 \in KeyStates
  /\ Absent \notin Nat /\ Absent \notin Texts
  /\ Absent \notin [{"keypad", "encoder"} -> Nat \union {Absent}]
  /\ Absent \notin [keypad : Seq(Positions), encoder : Seq(Positions)]

Controllers == {"keypad", "encoder"}

Label == Controllers \X (Nat \ {0})

(* One declared slot: SlotContent of messages.ts, with its optional fields *)
(* Absent when they are not set.                                           *)
Entry == [label : Texts, icon : Icons \union {Absent}, state : KeyStates \union {Absent}]

(* A device_capacity report, and "no report has ever been received".       *)
Report == [keypad : Seq(Positions), encoder : Seq(Positions)]
Capacity == Report \union {Absent}

Counts == [keypad : Nat \union {Absent}, encoder : Nat \union {Absent}]

(* The slot counts of a capacity: unknown is not zero.                     *)
GetSlotCapacity(capacity) ==
  [ctrl \in Controllers |-> IF capacity = Absent THEN Absent ELSE Len(capacity[ctrl])]

-----------------------------------------------------------------------------
(* Validation of one entry of a declaration.                               *)

InRange(label, counts) ==
  counts[label[1]] # Absent => label[2] <= counts[label[1]]

(* `state` means nothing on a dial: its mere presence refuses the entry.   *)
ShapeFits(label, value) ==
  /\ value \in Entry
  /\ label[1] = "encoder" => value.state = Absent

(* Mutant: the value is taken as it came.                                  *)
ValidateLabelOnly(key, value, counts) ==
  /\ key \in Label
  /\ InRange(key, counts)

ValidateSlotContentEntry(key, value, counts) ==
  /\ key \in Label
  /\ InRange(key, counts)
  /\ ShapeFits(key, value)

(* Everything a connection's `content` may ever be.                        *)
IsContent(content) ==
  /\ content = [l \in DOMAIN content |-> content[l]]
  /\ \A l \in DOMAIN content : l \in Label /\ ShapeFits(l, content[l])

NoContent == [l \in {} |-> Absent]

(* The keys of a declaration that survive validation.                      *)
Accepted(declared, counts) ==
  {key \in DOMAIN declared : ValidateSlotContentEntry(key, declared[key], counts)}

(* `declared` is Absent when the register message has no `content` (leave  *)
(* what there is) and Null when `content` is there but is no map (replace  *)
(* it by nothing, and report nothing).                                     *)
ResolveContent(declared, current, counts) ==
  IF declared = Absent
    THEN [content |-> current, rejected |-> {}]
  ELSE IF declared = Null
    THEN [content |-> NoContent, rejected |-> {}]
  ELSE [content  |-> [key \in Accepted(declared, counts) |-> declared[key]],
        rejected |-> DOMAIN declared \ Accepted(declared, counts)]

-----------------------------------------------------------------------------
(* Positions and labels name each other through the latest report.         *)

PositionsFor(capacity, ctrl) ==
  IF capacity = Absent THEN <<>> ELSE capacity[ctrl]

LabelFor(ctrl, index) == <<ctrl, index>>

(* Where a position first occurs in the report (findIndex).                *)
FirstIndex(positions, position) ==
  CHOOSE i \in DOMAIN positions :
    /\ positions[i] = position
    /\ \A j \in 1..(i - 1) : positions[j] # position

Reported(capacity, ctrl, position) ==
  \E i \in DOMAIN PositionsFor(capacity, ctrl) : PositionsFor(capacity, ctrl)[i] = position

(* Mutant: the label of the position after.                                *)
LabelOffByOne(capacity, ctrl, position) ==
  LabelFor(ctrl, FirstIndex(PositionsFor(capacity, ctrl), position) + 1)

LabelAt(capacity, ctrl, position) ==
  LabelFor(ctrl, FirstIndex(PositionsFor(capacity, ctrl), position))
=============================================================================
