-------------------------- MODULE PeerViewsProofs --------------------------
(***************************************************************************)
(* Theorems about what the peers of gatoway-core know and show, for any    *)
(* number of connections, devices and declarations.  They use nothing of   *)
(* how the repository's clients behave: what a display shows, and what an  *)
(* application is told, follows from what each step writes (StepWrites).   *)
(***************************************************************************)
EXTENDS PeerViews, GatowayCoreProofs

ViewInv ==
  /\ FocusInv
  /\ CapacityIsKnown(capacity)
  /\ SlotCapacityFresh
  /\ CommandsWithinToldCapacity
  /\ ScreenShowsFocus

(* The sweep that is due, in terms of the lemmas.                          *)
LEMMA AgreesIsShows ==
  ScreenShowsFocus <=>
    ((painted /\ StreamDecks(conns) # {}) =>
       Shows(screen, capacity, DisplayedContent(conns, focused)))
  BY DEF ScreenShowsFocus, Agrees, Due, Shows

LEMMA InitViewInv == ViewInit => ViewInv
<1> SUFFICES ASSUME ViewInit PROVE ViewInv
  OBVIOUS
<1>1. FocusInv /\ CapacityIsKnown(capacity)
  BY InitFocusInv DEF ViewInit, Init, CapacityIsKnown
<1>2. SlotCapacityFresh
  BY DEF ViewInit, Init, SlotCapacityFresh, IsApplication, Authenticated
<1>3. CommandsWithinToldCapacity
  BY OutboxOfSilence DEF ViewInit, Init, CommandsWithinToldCapacity
<1>4. ScreenShowsFocus
  BY DEF ViewInit, InitViews, ScreenShowsFocus
<1> QED
  BY <1>1, <1>2, <1>3, <1>4 DEF ViewInv

(* The counts that reach a connection are the current ones.                *)
LEMMA NextSlotCapacityFresh ==
  ASSUME TypeOK, SlotCapacityFresh, StepWrites, ReadOut
  PROVE  SlotCapacityFresh'
<1> SUFFICES ASSUME NEW c \in ConnId, IsApplication(conns', c)
             PROVE  told'[c] = GetSlotCapacity(capacity')
  BY DEF SlotCapacityFresh
<1> DEFINE counts == {m.counts : m \in {n \in Messages(out', c) : n.type = "slot_capacity"}}
<1>1. c \in DOMAIN conns'
  BY DEF IsApplication, Authenticated
<1>2. told'[c] = IF counts = {} THEN told[c] ELSE CHOOSE n \in counts : TRUE
  BY <1>1 DEF ReadOut
<1>3. ASSUME NEW m \in Messages(out', c), m.type = "slot_capacity"
      PROVE  m.counts = GetSlotCapacity(capacity')
  <2>1. IsWritten(m, capacity')
    BY DEF StepWrites
  <2> QED
    BY <1>3, <2>1 DEF IsWritten, IsAnswer, SlotCapacityMessage, Command
<1>4. CASE counts # {}
  <2>1. \A n \in counts : n = GetSlotCapacity(capacity')
    BY <1>3
  <2> HIDE DEF counts
  <2> QED
    BY <1>2, <1>4, <2>1
<1>5. CASE counts = {}
  <2>1. SlotCapacityMessage(capacity') \notin Messages(out', c)
    BY <1>5 DEF SlotCapacityMessage
  <2>2. IsApplication(conns, c) /\ capacity' = capacity
    BY <2>1 DEF StepWrites, Informs
  <2> QED
    BY <1>2, <1>5, <2>2 DEF SlotCapacityFresh
<1> QED
  BY <1>4, <1>5

(* A command is at a label the report reaches.                             *)
LEMMA NextCommandsWithin ==
  ASSUME CapacityIsKnown(capacity'), SlotCapacityFresh', StepWrites
  PROVE  CommandsWithinToldCapacity'
<1> SUFFICES ASSUME NEW c \in ConnId, NEW m \in Messages(out', c), m.type = "command",
                    IsApplication(conns', c)
             PROVE  /\ told'[c] # Absent
                    /\ told'[c][m.slot[1]] # Absent
                    /\ m.slot[2] <= told'[c][m.slot[1]]
  BY DEF CommandsWithinToldCapacity
<1>1. told'[c] = GetSlotCapacity(capacity')
  BY DEF SlotCapacityFresh
<1>2. IsWritten(m, capacity')
  BY DEF StepWrites
<1>3. PICK ctrl \in Controllers, position \in Positions :
        Reported(capacity', ctrl, position) /\ m = Command(LabelAt(capacity', ctrl, position))
  <2>1. \E ctrl \in Controllers, position \in Positions :
          Reported(capacity', ctrl, position) /\ m = Command(LabelAt(capacity', ctrl, position))
    BY <1>2 DEF IsWritten, IsAnswer, SlotCapacityMessage
  <2> QED
    BY <2>1
<1> DEFINE positions == PositionsFor(capacity', ctrl)
           first == FirstIndex(positions, position)
<1>4. /\ Len(positions) \in Nat /\ DOMAIN positions = 1..Len(positions)
      /\ \A i, j \in DOMAIN positions : positions[i] = positions[j] => i = j
  BY PositionsShape
<1>5. PICK i \in DOMAIN positions : positions[i] = position
  BY <1>3 DEF Reported
<1>6. capacity' # Absent /\ positions = capacity'[ctrl]
  BY <1>5 DEF PositionsFor
<1> HIDE DEF positions
<1>7. first = i
  <2>1. \A j \in 1..(i - 1) : positions[j] # position
    <3>1. \A j \in 1..(i - 1) : j \in DOMAIN positions /\ j # i
      BY <1>4
    <3> QED
      BY <1>4, <1>5, <3>1
  <2> QED
    BY <1>4, <1>5, <2>1 DEF FirstIndex
<1>8. m.slot = <<ctrl, first>>
  BY <1>3 DEF Command, LabelAt, LabelFor, positions
<1> HIDE DEF first
<1>9. told'[c][ctrl] = Len(positions)
  BY <1>1, <1>6 DEF GetSlotCapacity
<1>10. GetSlotCapacity(capacity') # Absent
  <2>1. GetSlotCapacity(capacity') \in [{"keypad", "encoder"} -> Nat \union {Absent}]
    <3>1. \A k \in Controllers : Len(PositionsFor(capacity', k)) \in Nat
      BY PositionsShape
    <3> QED
      BY <1>6, <3>1 DEF GetSlotCapacity, Controllers, PositionsFor
  <2> QED
    BY <2>1, MarkersAssumption
<1>11. Len(positions) # Absent /\ first <= Len(positions)
  BY <1>4, <1>7, MarkersAssumption
<1> QED
  BY <1>1, <1>8, <1>9, <1>10, <1>11

(* The deck shows what it has to.                                          *)
LEMMA NextScreenShowsFocus ==
  ASSUME FocusInv, FocusInv', CapacityIsKnown(capacity), ScreenShowsFocus, StepWrites, ReadOut
  PROVE  ScreenShowsFocus'
<1> SUFFICES ASSUME painted', StreamDecks(conns') # {}
             PROVE  Shows(screen', capacity', DisplayedContent(conns', focused'))
  BY DEF ScreenShowsFocus, Agrees, Due, Shows
<1> DEFINE decks == {c \in ConnId : Renders(out', c) # {}}
           deck == CHOOSE c \in decks : TRUE
<1>1. /\ screen' = IF decks = {} THEN screen ELSE Store!ApplyAll(screen, out'[deck])
      /\ capacity' = capacity
      /\ decks = {} => painted
  BY DEF ReadOut
<1>2. CASE /\ \A c \in ConnId : Renders(out', c) = {}
           /\ StreamDecks(conns') \subseteq StreamDecks(conns)
           /\ \/ DisplayedContent(conns', focused') = DisplayedContent(conns, focused)
              \/ StreamDecks(conns') = {}
  <2>1. decks = {}
    BY <1>2
  <2> HIDE DEF decks
  <2>2. screen' = screen /\ painted
    BY <1>1, <2>1
  <2>3. Shows(screen, capacity, DisplayedContent(conns, focused))
    BY <1>2, <2>2, AgreesIsShows
  <2> QED
    BY <1>1, <1>2, <2>2, <2>3
<1>3. ASSUME NEW d \in StreamDecks(conns'), Renders(out', d) = CurrentSweep',
             \A c \in ConnId \ {d} : Renders(out', c) = {}
      PROVE  Shows(screen', capacity', DisplayedContent(conns', focused'))
  <2>1. CASE decks = {}
    <3>1. d \in ConnId
      BY TypedConnections DEF StreamDecks, FocusInv
    <3>2. FullSweep(capacity', DisplayedContent(conns', focused')) = {}
      BY <1>3, <2>1, <3>1 DEF CurrentSweep
    <3>3. ASSUME NEW ctrl \in Controllers, NEW i \in DOMAIN PositionsFor(capacity', ctrl)
          PROVE  FALSE
      <4>1. RenderSlot(ctrl, PositionsFor(capacity', ctrl)[i], LabelFor(ctrl, i),
                       DisplayedContent(conns', focused'))
              \in FullSweep(capacity', DisplayedContent(conns', focused'))
        BY <3>3 DEF FullSweep
      <4> QED
        BY <3>2, <4>1
    <3> QED
      BY <3>3 DEF Shows
  <2>2. CASE decks # {}
    <3>1. deck \in ConnId /\ deck = d
      BY <1>3, <2>2
    <3>2. screen' = Store!ApplyAll(screen, out'[d])
      BY <1>1, <2>2, <3>1
    <3>3. /\ IsSequence(out'[d])
          /\ Renderings(out'[d]) = FullSweep(capacity', DisplayedContent(conns', focused'))
      BY <1>3, <3>1 DEF StepWrites, IsOutbox, Renders, Messages, Renderings, Elements, CurrentSweep
    <3>4. <<>> \o out'[d] = out'[d] /\ IsSequence(<<>>)
      BY <3>3, ConcatEmptySeq, ElementsOfTuples DEF IsSequence
    <3>5. IsContent(DisplayedContent(conns', focused'))
      BY TypedDisplay DEF FocusInv
    <3>6. CapacityIsKnown(capacity')
      BY <1>1
    <3>7. Shows(Store!ApplyAll(screen, <<>> \o out'[d]), capacity',
                DisplayedContent(conns', focused'))
      BY <3>3, <3>4, <3>5, <3>6, SweptShows
    <3> QED
      BY <3>2, <3>4, <3>7
  <2> QED
    BY <2>1, <2>2
<1> QED
  BY <1>1, <1>2, <1>3 DEF StepWrites, Repaints

LEMMA NextViewInv == ViewInv /\ [ViewNext]_<<vars, views>> => ViewInv'
<1> SUFFICES ASSUME ViewInv, [ViewNext]_<<vars, views>> PROVE ViewInv'
  OBVIOUS
<1>1. CASE ViewNext
  <2>1. Next /\ ReadOut
    BY <1>1 DEF ViewNext
  <2>2. StepWrites
    BY <2>1, NextWrites DEF ViewInv
  <2>3. FocusInv'
    BY <2>1, NextFocusInv DEF ViewInv
  <2>4. CapacityIsKnown(capacity')
    BY <2>1, NextCapacityIsKnown DEF ViewInv
  <2>5. SlotCapacityFresh'
    BY <2>1, <2>2, NextSlotCapacityFresh DEF ViewInv, FocusInv
  <2>6. CommandsWithinToldCapacity'
    BY <2>2, <2>4, <2>5, NextCommandsWithin
  <2>7. ScreenShowsFocus'
    BY <2>1, <2>2, <2>3, NextScreenShowsFocus DEF ViewInv
  <2> QED
    BY <2>3, <2>4, <2>5, <2>6, <2>7 DEF ViewInv
<1>2. CASE UNCHANGED <<vars, views>>
  <2>1. UNCHANGED <<accepted, conns, focused, capacity, out, told, screen, painted>>
    BY <1>2 DEF vars, views
  <2>2. FocusInv'
    BY <2>1, NextFocusInv DEF ViewInv, vars
  <2>3. SlotCapacityFresh' /\ CommandsWithinToldCapacity'
    BY <2>1 DEF ViewInv, SlotCapacityFresh, CommandsWithinToldCapacity, IsApplication,
                Authenticated, Messages
  <2>4. ScreenShowsFocus'
    BY <2>1 DEF ViewInv, ScreenShowsFocus, Agrees, Due
  <2> QED
    BY <2>1, <2>2, <2>3, <2>4 DEF ViewInv
<1> QED
  BY <1>1, <1>2 DEF ViewNext

LEMMA ViewInvHolds == ViewSpec => []ViewInv
  BY InitViewInv, NextViewInv, PTL DEF ViewSpec

(* Whatever the order of connecting, registering and reporting, what an    *)
(* application has last been told is the counts of the latest report.      *)
THEOREM CapacityIsFresh == ViewSpec => []SlotCapacityFresh
<1>1. ViewInv => SlotCapacityFresh
  BY DEF ViewInv
<1> QED
  BY <1>1, ViewInvHolds, PTL

(* No application is sent a command at a label it has not been told of.    *)
THEOREM CommandsAreWithin == ViewSpec => []CommandsWithinToldCapacity
<1>1. ViewInv => CommandsWithinToldCapacity
  BY DEF ViewInv
<1> QED
  BY <1>1, ViewInvHolds, PTL

(* A deck that has been swept for its capacity shows, at every position,   *)
(* the content of the connection that has the focus, or idle.              *)
THEOREM ScreenFollowsFocus == ViewSpec => []ScreenShowsFocus
<1>1. ViewInv => ScreenShowsFocus
  BY DEF ViewInv
<1> QED
  BY <1>1, ViewInvHolds, PTL

(* A press is answered by the connection whose entry the position shows,   *)
(* at the label of that entry, or by nobody where the position shows idle. *)
THEOREM PressesAnswerScreen == ViewSpec => PressAnswersScreen
<1> DEFINE Answers ==
      \A d \in StreamDecks(conns), ctrl \in Controllers :
      \A i \in DOMAIN PositionsFor(capacity, ctrl) :
        (painted /\ InputEvent(d, ctrl, PositionsFor(capacity, ctrl)[i])) =>
          \/ /\ out' = Silence
             /\ Shown(ctrl, i).text = IdleLabel
          \/ /\ out' = SendTo(focused, <<Command(LabelFor(ctrl, i))>>)
             /\ Shown(ctrl, i).text = conns[focused].content[LabelFor(ctrl, i)].label
<1>1. ViewInv => Answers
  <2> SUFFICES ASSUME ViewInv, NEW d \in StreamDecks(conns), NEW ctrl \in Controllers,
                      NEW i \in DOMAIN PositionsFor(capacity, ctrl),
                      painted, InputEvent(d, ctrl, PositionsFor(capacity, ctrl)[i])
               PROVE  \/ /\ out' = Silence
                         /\ Shown(ctrl, i).text = IdleLabel
                      \/ /\ out' = SendTo(focused, <<Command(LabelFor(ctrl, i))>>)
                         /\ Shown(ctrl, i).text = conns[focused].content[LabelFor(ctrl, i)].label
    OBVIOUS
  <2> DEFINE position == PositionsFor(capacity, ctrl)[i]
             due == RenderSlot(ctrl, position, LabelFor(ctrl, i), DisplayedContent(conns, focused))
  <2>1. out' = HandleInputEvent(conns, focused, capacity, ctrl, position)
    BY DEF InputEvent
  <2>2. Shown(ctrl, i).text = due.text
    BY DEF ViewInv, ScreenShowsFocus, Agrees, Due, Shown
  <2>3. IsContent(DisplayedContent(conns, focused)) /\ CapacityIsKnown(capacity)
    BY TypedDisplay DEF ViewInv, FocusInv
  <2>4. \/ out' = Silence /\ due.text = IdleLabel
        \/ /\ out' = SendTo(focused, <<Command(LabelFor(ctrl, i))>>)
           /\ due.text = conns[focused].content[LabelFor(ctrl, i)].label
    BY <2>1, <2>3, PressFollowsSweep
  <2> QED
    BY <2>2, <2>4
<1>2. ViewInv /\ [ViewNext]_<<vars, views>> => [Answers]_<<vars, views>>
  BY <1>1
<1> QED
  BY <1>2, ViewInvHolds, PTL DEF ViewSpec, PressAnswersScreen
=============================================================================
