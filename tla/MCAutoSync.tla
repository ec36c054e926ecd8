------------------------------ MODULE MCAutoSync ------------------------------
(***************************************************************************)
(* AutoSync on scaled delays: DEBOUNCE_MS : MIN_INTERVAL_MS : MAX_DELAY_MS *)
(* is 1 : 6 : 12 in the code.                                              *)
(***************************************************************************)
EXTENDS AutoSync
===============================================================================
