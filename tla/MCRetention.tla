----------------------------- MODULE MCRetention -----------------------------
(***************************************************************************)
(* Small instances of Retention.  The service keeps one day; a request may *)
(* ask to keep two.  The model starts on day 2 at midnight, so that        *)
(* expired, kept, active and future indices all exist, and runs through    *)
(* the midnight to day 3.                                                  *)
(***************************************************************************)
EXTENDS Retention
=============================================================================
