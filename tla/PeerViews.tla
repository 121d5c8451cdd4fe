----------------------------- MODULE PeerViews -----------------------------
(***************************************************************************)
(* gatoway-core together with what its peers know once they have read what *)
(* was written to them: the slot counts each connection was last told, and *)
(* the face of the deck, which the Stream Deck plugin keeps in its         *)
(* RenderStore across connections.  Both are what a user meets: a label an *)
(* application believes in, a picture on a key.                            *)
(*                                                                         *)
(* The peers behave as the clients in this repository do: one Stream Deck  *)
(* plugin runs, its old connection is gone before the next one registers,  *)
(* it never reports focus, and nobody changes its plugin type.             *)
(***************************************************************************)
EXTENDS DeckFace

VARIABLES
  told,      (* the counts of the last slot_capacity written to each       *)
  screen,    (* the deck's RenderStore                                     *)
  painted    (* is the deck's last sweep one for the current capacity?     *)

views == <<told, screen, painted>>

InitViews ==
  /\ told = [c \in ConnId |-> Absent]
  /\ screen = Store!EmptyStore
  /\ painted = FALSE

(* The peers read what the handler wrote; who is gone knows nothing.       *)
ReadOut ==
  /\ told' = [c \in ConnId |->
       LET counts == {m.counts : m \in {n \in Messages(out', c) : n.type = "slot_capacity"}}
       IN IF c \notin DOMAIN conns' THEN Absent
          ELSE IF counts = {} THEN told[c]
          ELSE CHOOSE n \in counts : TRUE]
  /\ screen' =
       LET decks == {c \in ConnId : Renders(out', c) # {}}
       IN IF decks = {} THEN screen
          ELSE Store!ApplyAll(screen, out'[CHOOSE c \in decks : TRUE])
  /\ painted' =
       IF capacity' # capacity THEN FALSE
       ELSE painted \/ \E c \in ConnId : Renders(out', c) # {}

(* How the repository's own clients use the core.                          *)
ClientsBehave ==
  /\ \A c, d \in StreamDecks(conns') : c = d
  /\ \A c \in DOMAIN conns \intersect DOMAIN conns' :
       conns[c].pluginType \in {Absent, conns'[c].pluginType}
  /\ \A c \in StreamDecks(conns') :
       /\ focused' # c
       /\ conns'[c].content = NoContent

ViewInit == Init /\ InitViews
ViewNext == Next /\ ClientsBehave /\ ReadOut
ViewSpec == ViewInit /\ [][ViewNext]_<<vars, views>>

-----------------------------------------------------------------------------

(* Every registered application knows the current slot counts, whatever    *)
(* the order in which the deck reported, it connected, and others came and *)
(* went: no change of capacity passes by an application that has one.      *)
SlotCapacityFresh ==
  \A c \in ConnId : IsApplication(conns, c) => told[c] = GetSlotCapacity(capacity)

Shown(ctrl, i) == Store!Get(screen, <<ctrl, PositionsFor(capacity, ctrl)[i]>>)

(* Once the deck has been swept for its current capacity, every position   *)
(* shows the icon and text of the connection that has the focus now and of *)
(* the content it declared last, or idle: through every focus change,      *)
(* disconnect, re-registration and reconnect of the deck itself.           *)
ScreenShowsFocus ==
  (painted /\ StreamDecks(conns) # {}) => Agrees(screen)

(* Decision D9 of the slot content design: "Content is not re-validated    *)
(* retroactively when capacity becomes known; it is simply re-rendered     *)
(* against whatever the connection already declared".  handleDeviceCapacity *)
(* renders nothing: the deck keeps what it showed until the next focus     *)
(* change or registration.                                                 *)
ContentIsRenderedOnceCapacityKnown ==
  StreamDecks(conns) # {} =>
    \A ctrl \in Controllers : \A i \in DOMAIN PositionsFor(capacity, ctrl) :
      LabelFor(ctrl, i) \in DOMAIN DisplayedContent(conns, focused) =>
        /\ Shown(ctrl, i).icon = Due(ctrl, i).icon
        /\ Shown(ctrl, i).text = Due(ctrl, i).text

(* The comment in sendContentSweepForController: "This sweep is always a   *)
(* full, authoritative statement of "what does this position look like     *)
(* right now" - never a partial delta".  An entry without a state leaves   *)
(* the state the position had before, of another entry or another          *)
(* connection.                                                             *)
SweepStateIsAuthoritative ==
  (painted /\ StreamDecks(conns) # {}) =>
    \A ctrl \in Controllers : \A i \in DOMAIN PositionsFor(capacity, ctrl) :
      Due(ctrl, i).state = Absent => Shown(ctrl, i).state \in {Absent, 0}

(* A command answers what the user saw: a press on a position reaches the  *)
(* connection whose entry the position shows, under the label that entry   *)
(* was declared at, and reaches nobody when the position shows idle.       *)
PressAnswersScreen ==
  [][\A d \in StreamDecks(conns), ctrl \in Controllers : \A i \in DOMAIN PositionsFor(capacity, ctrl) :
       (painted /\ InputEvent(d, ctrl, PositionsFor(capacity, ctrl)[i])) =>
         \/ /\ out' = Silence
            /\ Shown(ctrl, i).text = IdleLabel
         \/ /\ out' = SendTo(focused, <<Command(LabelFor(ctrl, i))>>)
            /\ Shown(ctrl, i).text = conns[focused].content[LabelFor(ctrl, i)].label
    ]_<<vars, views>>

(* No application is ever sent a command at a label beyond the counts it   *)
(* has been told, not even one that declared it before they were known.    *)
CommandsWithinToldCapacity ==
  \A c \in ConnId : \A m \in Messages(out, c) :
    (m.type = "command" /\ IsApplication(conns, c)) =>
      /\ told[c] # Absent
      /\ told[c][m.slot[1]] # Absent
      /\ m.slot[2] <= told[c][m.slot[1]]
=============================================================================
