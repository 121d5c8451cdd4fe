------------------------------ MODULE MCParts ------------------------------
(***************************************************************************)
(* Four parts of the system that share no state with one another, for TLC: *)
(* a behaviour is one of a part, the others stay as they are initially.    *)
(* The states are the sum of the parts' states, not their product.         *)
(***************************************************************************)
EXTENDS Framing, DeviceCapacity, DeckActions, OriginAllowlist

CONSTANTS d1, d2, home, page, dial, at

VARIABLE part   (* whose behaviour it is                                   *)

partsVars == <<part, framingVars, capacityVars, actionsVars, originVars>>

(* Lines of one x and of two are JSON: messages differ, and may be cut in  *)
(* two.  A line with a "\r" in it is not, nor is one of three x.           *)
MCOthers == {"x"}
MCJson == {<<"x">>, <<"x", "x">>}

(* Two devices, alone or together; models of equal size and different      *)
(* layout, of equal layout and different dials, one without keys, one of   *)
(* an unlisted type.                                                       *)
MCDevices == <<d1, d2>>

MCModel(rows, columns, type) == [rows |-> rows, columns |-> columns, type |-> type]

MCModels ==
  {MCModel(2, 4, "StreamDeckPlus"), MCModel(2, 4, "StreamDeckNeo"), MCModel(4, 2, "Unlisted"),
   MCModel(4, 3, "Galleon100SD"), MCModel(2, 16, "StreamDeckStudio"),
   MCModel(4, 9, "StreamDeckPlusXL"), MCModel(0, 0, "StreamDeckPedal")}

(* One key of the deck, with an instance on each of two pages, and a dial: *)
(* either the pages are turned, or the first page and the dial are used.   *)
MCInstances == {home, page, dial}

MCSlotOf ==
  [i \in MCInstances |-> IF i = dial THEN <<"encoder", at>> ELSE <<"keypad", at>>]

MCTexts == {"Next"}
MCIcons == {"png"}
MCKeyStates == {0, 1}

(* Two browsers' pieces of Origins; lists of up to two entries.  Strings   *)
(* have up to two characters, a lone one three.                            *)
MCPieces == {"moz", "id"}

MCEntries == {<<>>} \union [1..1 -> Characters] \union [1..2 -> Characters]

MCStarts == {<<>>, <<"moz">>, <<"moz", "*">>, <<" ">>, <<"id", ",">>}

MCLists ==
  {<<>>} \union {<<e>> : e \in MCEntries \union [1..3 -> Characters]}
         \union {<<d, e>> : d \in MCStarts, e \in MCEntries}

MCOrigins == {<<>>, <<"moz">>, <<"id">>, <<"moz", "id">>, <<"id", "moz">>, Unset}

MCInherited == {Unset, <<"*">>}

-----------------------------------------------------------------------------

PartsInit ==
  /\ part \in {"framing", "capacity", "pages", "dials", "origins"}
  /\ FramingInit /\ CapacityInit /\ ActionsInit /\ OriginInit

(* Bound: the page, or the dial and the updates to it, are left out.       *)
AtRest(i) == i \notin visible /\ (i = dial => Remembered(i) = Store!NeverRendered)

PartsNext ==
  /\ UNCHANGED part
  /\ \/ /\ part = "framing" /\ FramingNext
        /\ UNCHANGED <<capacityVars, actionsVars, originVars>>
     \/ /\ part = "capacity" /\ CapacityNext
        /\ UNCHANGED <<framingVars, actionsVars, originVars>>
     \/ /\ part \in {"pages", "dials"} /\ ActionsNext
        /\ AtRest(IF part = "pages" THEN dial ELSE page)'
        /\ UNCHANGED <<framingVars, capacityVars, originVars>>
     \/ /\ part = "origins" /\ OriginNext
        /\ UNCHANGED <<framingVars, capacityVars, actionsVars>>

PartsSpec == PartsInit /\ [][PartsNext]_partsVars
=============================================================================
