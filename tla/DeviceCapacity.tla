--------------------------- MODULE DeviceCapacity ---------------------------
(***************************************************************************)
(* coreClient/deviceCapacity.ts and its callers in plugin.ts: the list of  *)
(* positions the Stream Deck plugin reports, computed from the devices of  *)
(* the SDK as they come, go and change, and sent again when it differs.    *)
(*                                                                         *)
(* The SDK keeps the devices that have gone in its collection.  The code   *)
(* is made for one device at a time; when two are connected, the positions *)
(* of one are reported after those of the other.                           *)
(***************************************************************************)
EXTENDS Integers, SequencesExt

CONSTANTS
  Devices,     (* the devices the SDK ever knows, in its iteration order   *)
  Models,      (* what a device may be: [rows, columns, type]              *)
  Unreported   (* nothing was sent on this registration                    *)

ASSUME DevicesAssumption ==
  /\ Len(Devices) \in Nat /\ Devices = [n \in 1..Len(Devices) |-> Devices[n]]
  /\ \A i, j \in DOMAIN Devices : Devices[i] = Devices[j] => i = j
  /\ \A m \in Models : m.rows \in Nat /\ m.columns \in Nat
  /\ Unreported \notin [buttonPositions : Seq(Nat \X Nat), dialPositions : Seq(Nat)]

VARIABLES
  devices,                (* what the SDK says of each device it has known *)
  registered,             (* is the client connected?                      *)
  lastReportedCapacity,   (* of plugin.ts                                  *)
  told                    (* what the core was told on this registration   *)

capacityVars == <<devices, registered, lastReportedCapacity, told>>

(* DIAL_COUNT_BY_DEVICE_TYPE, and 0 for a type it does not list.           *)
DialCountForDeviceType(type) ==
  CASE type = "StreamDeckPlus"   -> 4
    [] type = "StreamDeckStudio" -> 2
    [] type = "Galleon100SD"     -> 2
    [] type = "StreamDeckPlusXL" -> 6
    [] OTHER                     -> 0

(* The nested loops over rows and columns.                                 *)
Keys(model) ==
  FlattenSeq([r \in 1..model.rows |-> [c \in 1..model.columns |-> <<r - 1, c - 1>>]])

Dials(model) == [n \in 1..DialCountForDeviceType(model.type) |-> n - 1]

(* The outer loop over the devices, which passes over the disconnected.    *)
OfConnected(known, lists) ==
  FlattenSeq([n \in DOMAIN Devices |->
                IF Devices[n] \in DOMAIN known /\ known[Devices[n]].isConnected
                  THEN lists[Devices[n]] ELSE <<>>])

ComputeDeviceCapacity(known) ==
  [buttonPositions |-> OfConnected(known, [d \in DOMAIN known |-> Keys(known[d].model)]),
   dialPositions   |-> OfConnected(known, [d \in DOMAIN known |-> Dials(known[d].model)])]

(* Mutant: as many keys and dials are as good as the same ones.            *)
SameLengths(a, b) ==
  /\ Len(a.buttonPositions) = Len(b.buttonPositions)
  /\ Len(a.dialPositions) = Len(b.dialPositions)

DeviceCapacityEqual(a, b) ==
  LET same(s, t) == Len(s) = Len(t) /\ \A i \in DOMAIN s : s[i] = t[i]
  IN same(a.buttonPositions, b.buttonPositions) /\ same(a.dialPositions, b.dialPositions)

Nothing == [buttonPositions |-> <<>>, dialPositions |-> <<>>]

CapacityInit ==
  /\ devices = [d \in {} |-> Nothing]
  /\ registered = FALSE
  /\ lastReportedCapacity = Nothing
  /\ told = Unreported

(* reportDeviceCapacity(force): what is not sent because there is no       *)
(* connection counts as reported.                                          *)
ReportDeviceCapacity(force, known, connected) ==
  LET capacity == ComputeDeviceCapacity(known)
  IN IF ~force /\ DeviceCapacityEqual(capacity, lastReportedCapacity)
       THEN UNCHANGED <<lastReportedCapacity, told>>
       ELSE /\ lastReportedCapacity' = capacity
            /\ told' = IF connected THEN capacity ELSE told

Connected == {d \in DOMAIN devices : devices[d].isConnected}

DeviceEvent(d, device) ==
  /\ devices' = [e \in DOMAIN devices \union {d} |-> IF e = d THEN device ELSE devices[e]]
  /\ ReportDeviceCapacity(FALSE, devices', registered)
  /\ UNCHANGED registered

DidConnect(d, model) ==
  /\ d \notin Connected
  /\ DeviceEvent(d, [isConnected |-> TRUE, model |-> model])

DidDisconnect(d) ==
  /\ d \in Connected
  /\ DeviceEvent(d, [devices[d] EXCEPT !.isConnected = FALSE])

(* Also when nothing that matters has changed.                             *)
DidChange(d, model) ==
  /\ d \in Connected
  /\ DeviceEvent(d, [isConnected |-> TRUE, model |-> model])

OnRegistered ==
  /\ ~registered
  /\ registered' = TRUE
  /\ ReportDeviceCapacity(TRUE, devices, TRUE)
  /\ UNCHANGED devices

ConnectionLost ==
  /\ registered
  /\ registered' = FALSE
  /\ told' = Unreported
  /\ UNCHANGED <<devices, lastReportedCapacity>>

CapacityNext ==
  \/ \E d \in ToSet(Devices), model \in Models : DidConnect(d, model) \/ DidChange(d, model)
  \/ \E d \in ToSet(Devices) : DidDisconnect(d)
  \/ OnRegistered
  \/ ConnectionLost

CapacitySpec == CapacityInit /\ [][CapacityNext]_capacityVars

-----------------------------------------------------------------------------

(* Label Bn is the n-th key in reading order, Dn the n-th dial, of the     *)
(* device that is the only one connected, whatever was connected before or *)
(* together with it: a report has all of them, each position once, so that *)
(* a press finds one label only.                                           *)
LabelsFollowTheDevice ==
  registered =>
    /\ Connected = {} => told = Nothing
    /\ \A d \in DOMAIN devices : Connected = {d} =>
         LET m == devices[d].model
         IN /\ DOMAIN told.buttonPositions = 1..(m.rows * m.columns)
            /\ \A n \in DOMAIN told.buttonPositions :
                 told.buttonPositions[n] = <<(n - 1) \div m.columns, (n - 1) % m.columns>>
            /\ DOMAIN told.dialPositions = 1..DialCountForDeviceType(m.type)
            /\ \A n \in DOMAIN told.dialPositions : told.dialPositions[n] = n - 1
=============================================================================
