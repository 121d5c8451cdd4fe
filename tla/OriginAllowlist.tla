-------------------------- MODULE OriginAllowlist --------------------------
(***************************************************************************)
(* The way of a configured Origin, from the plugin's allowed-origins.json  *)
(* to the decision on a WebSocket upgrade: allowedOriginsConfig.ts and     *)
(* config.ts of the plugin, the environment of the child, config.ts,       *)
(* originAllowlist.ts and the upgrade handler of gatoway-core.             *)
(*                                                                         *)
(* A string is a sequence of "*", ",", " " and other pieces, which are     *)
(* never cut.                                                              *)
(***************************************************************************)
EXTENDS Naturals, SequencesExt

CONSTANTS
  Pieces,      (* the other pieces of strings                              *)
  Lists,       (* the lists of strings the file may have                   *)
  Origins,     (* the Origin headers that may be presented                 *)
  Inherited,   (* what the plugin's own environment may have               *)
  Unset       (* an unset variable, a missing header                      *)

(* The characters that mean something.                                     *)
Star == "*"
Comma == ","
Space == " "

Characters == Pieces \union {Star, Comma, Space}

ASSUME OriginsAssumption ==
  /\ \A list \in Lists : list \in Seq(Seq(Characters))
  /\ Unset \notin Seq(Characters)
  /\ Origins \subseteq Seq(Pieces) \union {Unset}
  /\ Inherited \subseteq Seq(Characters) \union {Unset}

VARIABLES
  file,        (* what allowed-origins.json is now                         *)
  read,        (* what it was when the plugin started, which reads it once *)
  childEnv,    (* GATOWAY_ALLOWED_ORIGINS of every core it spawns          *)
  allowed,     (* allowedOrigins of the running core                       *)
  upgrade      (* the last upgrade request, and whether it was granted     *)

originVars == <<file, read, childEnv, allowed, upgrade>>

(* Missing, unreadable and ill-formed files are one: nothing to go by.     *)
Files == [list : Lists] \union {Unset}

NoUpgrade == [origin |-> Unset, granted |-> FALSE]

-----------------------------------------------------------------------------
(* The plugin.                                                             *)

(* validateAllowedOriginsConfig(): one empty string refuses the whole file. *)
ValidateAllowedOrigins(list) == \A n \in DOMAIN list : list[n] # <<>>

LoadAllowedOrigins(content) ==
  IF content # Unset /\ ValidateAllowedOrigins(content.list) THEN content.list ELSE <<>>

(* join(",")                                                               *)
Join(strings) ==
  FlattenSeq([n \in DOMAIN strings |->
                IF n < Len(strings) THEN Append(strings[n], Comma) ELSE strings[n]])

(* buildCoreChildEnv(): what is inherited is overwritten, or deleted.      *)
BuildCoreChildEnv(origins, inherited) == IF origins # <<>> THEN Join(origins) ELSE Unset

-----------------------------------------------------------------------------
(* The core.                                                               *)

Trim(string) ==
  LET inked == {i \in DOMAIN string : string[i] # Space}
  IN IF inked = {} THEN <<>> ELSE SubSeq(string, Min(inked), Max(inked))

(* A character ends the part that is growing, the last, or goes on it.     *)
WithNext(parts, c) ==
  IF c = Comma THEN Append(parts, <<>>)
  ELSE [parts EXCEPT ![Len(parts)] = Append(@, c)]

(* split(",")                                                              *)
Split(string) ==
  LET after[k \in 0..Len(string)] ==
        IF k = 0 THEN << <<>> >> ELSE WithNext(after[k - 1], string[k])
  IN after[Len(string)]

(* filter((entry) => entry.length > 0), for one entry.                     *)
Kept(entry) == IF entry = <<>> THEN <<>> ELSE <<entry>>

(* Mutant: entries are taken with the spaces around them.                  *)
ParseUntrimmed(raw) ==
  IF raw = Unset THEN <<>>
  ELSE LET parts == Split(raw)
       IN FlattenSeq([n \in DOMAIN parts |-> Kept(parts[n])])

ParseAllowlist(raw) ==
  IF raw = Unset THEN <<>>
  ELSE LET parts == Split(raw)
       IN FlattenSeq([n \in DOMAIN parts |-> Kept(Trim(parts[n]))])

(* endsWith("*"): a prefix, the star left out; otherwise the same string.  *)
Matches(origin, entry) ==
  IF entry # <<>> /\ Last(entry) = Star THEN IsPrefix(Front(entry), origin) ELSE entry = origin

IsOriginAllowed(origin, allowlist) ==
  origin \notin {Unset, <<>>} /\ \E n \in DOMAIN allowlist : Matches(origin, allowlist[n])

-----------------------------------------------------------------------------

OriginInit ==
  /\ file = Unset /\ read = Unset
  /\ childEnv = Unset /\ allowed = <<>>
  /\ upgrade = NoUpgrade

(* Bound: one edit between two starts of the plugin.                       *)
FileIsEdited ==
  /\ file = read
  /\ file' \in Files \ {file}
  /\ upgrade' = NoUpgrade
  /\ UNCHANGED <<read, childEnv, allowed>>

PluginStarts ==
  /\ read' = file
  /\ \E inherited \in Inherited :
       childEnv' = BuildCoreChildEnv(LoadAllowedOrigins(file), inherited)
  /\ allowed' = ParseAllowlist(childEnv')
  /\ upgrade' = NoUpgrade
  /\ UNCHANGED file

(* The supervisor starts another core, with the environment it has.        *)
CoreRestarts ==
  /\ allowed' = ParseAllowlist(childEnv)
  /\ upgrade' = NoUpgrade
  /\ UNCHANGED <<file, read, childEnv>>

(* handleUpgrade: 403, or on to accept().                                  *)
Upgrade(origin) ==
  /\ upgrade' = [origin |-> origin, granted |-> IsOriginAllowed(origin, allowed)]
  /\ UNCHANGED <<file, read, childEnv, allowed>>

OriginNext ==
  \/ FileIsEdited
  \/ PluginStarts
  \/ CoreRestarts
  \/ \E origin \in Origins : Upgrade(origin)

OriginSpec == OriginInit /\ [][OriginNext]_originVars

-----------------------------------------------------------------------------
(* What an entry of the file means, from its characters as they stand.     *)

(* The names in an entry: between two commas, or a comma and an end, and   *)
(* the spaces next to them.                                                *)
NamesIn(entry) ==
  LET border(i) == i = 0 \/ i = Len(entry) + 1 \/ entry[i] = Comma
      onlySpaces(i, j) == \A k \in (i + 1)..(j - 1) : entry[k] = Space
      isName(i, j) ==
        /\ i <= j /\ entry[i] # Space /\ entry[j] # Space
        /\ \A k \in i..j : entry[k] # Comma
        /\ \E a \in 0..(i - 1) : border(a) /\ onlySpaces(a, i)
        /\ \E b \in (j + 1)..(Len(entry) + 1) : border(b) /\ onlySpaces(j, b)
      bounds == {p \in (1..Len(entry)) \X (1..Len(entry)) : isName(p[1], p[2])}
  IN {SubSeq(entry, p[1], p[2]) : p \in bounds}

(* A name means itself, or everything that starts as it does up to its "*". *)
Means(name, origin) ==
  \/ name = origin
  \/ \E rest \in {SubSeq(origin, i, Len(origin)) : i \in 1..(Len(origin) + 1)} :
       \E start \in {SubSeq(origin, 1, i) : i \in 0..Len(origin)} :
         start \o rest = origin /\ Append(start, Star) = name

Configured(origin) ==
  /\ read # Unset
  /\ \A n \in DOMAIN read.list : read.list[n] # <<>>
  /\ \E n \in DOMAIN read.list : \E name \in NamesIn(read.list[n]) : Means(name, origin)

(* A WebSocket is let in exactly when the file, as the plugin read it,     *)
(* says so: joining, splitting, trimming and matching neither lose an      *)
(* entry, nor run two together, nor make one of nothing.                   *)
GrantedAsConfigured ==
  upgrade # NoUpgrade =>
    (upgrade.granted <=> (upgrade.origin \notin {Unset, <<>>} /\ Configured(upgrade.origin)))
=============================================================================
