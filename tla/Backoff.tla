------------------------------ MODULE Backoff ------------------------------
(***************************************************************************)
(* stream-deck-plugin's backoff.ts with its default options: the delay     *)
(* before a retry, shared by CoreClient and CoreProcessSupervisor.         *)
(*                                                                         *)
(* The callers count attempts without a limit.  Here the count stops at    *)
(* SaturatedAttempt, from which on every delay is MaxDelayMs.              *)
(***************************************************************************)
EXTENDS Naturals

InitialDelayMs == 1000
MaxDelayMs == 30000

SaturatedAttempt == 6

Attempts == 0..SaturatedAttempt

NextAttempt(attempt) ==
  IF attempt = SaturatedAttempt THEN SaturatedAttempt ELSE attempt + 1

(* Mutant: no upper bound.                                                 *)
UnboundedDelayMs(attempt) ==
  InitialDelayMs * 2 ^ ((IF attempt < 1 THEN 1 ELSE attempt) - 1)

(* Attempts count from 1; anything below is treated as the first.          *)
NextBackoffDelayMs(attempt) ==
  LET safeAttempt == IF attempt < 1 THEN 1 ELSE attempt
      delayMs == InitialDelayMs * 2 ^ (safeAttempt - 1)
  IN IF delayMs < MaxDelayMs THEN delayMs ELSE MaxDelayMs
=============================================================================
