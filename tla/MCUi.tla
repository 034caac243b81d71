-------------------------------- MODULE MCUi --------------------------------
(***************************************************************************)
(* Two scans of the page, two live sockets, another client.                *)
(***************************************************************************)
EXTENDS Ui
=============================================================================
