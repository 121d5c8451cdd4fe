--------------------------- MODULE MCCoreClient ---------------------------
(***************************************************************************)
(* The Stream Deck plugin's client for TLC: two devices, or rather one and *)
(* none, and a core that is started three times.                           *)
(***************************************************************************)
EXTENDS CoreClient

CONSTANTS empty, plus

MCCapacities == {empty, plus}
MCEmptyCapacity == empty
=============================================================================
