------------------------- MODULE MCRoastController -------------------------
(***************************************************************************)
(* Small instances of RoastController.                                     *)
(***************************************************************************)
EXTENDS RoastController
=============================================================================
