--------------------------- MODULE MCCancellation ---------------------------
EXTENDS Cancellation

(* One execution waits for two futures. *)
MCAlone == <<1, 1>>
=============================================================================
