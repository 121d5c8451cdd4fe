---------------------------- MODULE FocusTracker ----------------------------
(***************************************************************************)
(* focus/focusTracker.ts: which connection, if any, holds the focus.  Each *)
(* operator gives the holder after a call; a FocusChangeEvent is returned  *)
(* exactly when it differs from the holder before.                         *)
(***************************************************************************)

CONSTANT NoFocus   (* focusedConnectionId = null *)

(* A gain always takes the focus over; a blur counts from the holder only. *)
ReportFocus(current, c, gained) ==
  IF gained THEN c
  ELSE IF current = c THEN NoFocus
  ELSE current

(* Mutant: a disconnect leaves the focus where it is.                      *)
KeepFocus(current, c) == current

ClearIfFocused(current, c) == IF current = c THEN NoFocus ELSE current
=============================================================================
