---------------------------- MODULE FocusArbiter ----------------------------
(***************************************************************************)
(* What focus tracking promises to the people who use it, whatever the     *)
(* messages look like: among the live connections at most one holds the    *)
(* focus, a connection gets it only by asking for it itself, whoever asks  *)
(* last has it, and it is given up in the very step in which its holder    *)
(* blurs or goes.  Nobody inherits it, and who is gone stays gone.         *)
(***************************************************************************)
CONSTANTS
  ConnId,    (* every connection there may ever be                         *)
  NoFocus    (* nobody holds the focus                                     *)

VARIABLES
  live,      (* the connections that may ask for the focus                 *)
  gone,      (* the connections that have left                             *)
  holder     (* who holds the focus                                        *)

vars == <<live, gone, holder>>

Init ==
  /\ live = {}
  /\ gone = {}
  /\ holder = NoFocus

Join(c) ==
  /\ c \notin live \union gone
  /\ live' = live \union {c}
  /\ UNCHANGED <<gone, holder>>

(* Also a connection that never got as far as joining may leave.           *)
Leave(c) ==
  /\ c \notin gone
  /\ live' = live \ {c}
  /\ gone' = gone \union {c}
  /\ holder' = IF holder = c THEN NoFocus ELSE holder

Gain(c) ==
  /\ c \in live
  /\ holder' = c
  /\ UNCHANGED <<live, gone>>

Blur ==
  /\ holder' = NoFocus
  /\ UNCHANGED <<live, gone>>

Next == \/ \E c \in ConnId : Join(c) \/ Leave(c) \/ Gain(c)
        \/ Blur

Spec == Init /\ [][Next]_vars
=============================================================================
