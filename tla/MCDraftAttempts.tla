-------------------------- MODULE MCDraftAttempts --------------------------
(***************************************************************************)
(* Small instances of DraftAttempts.                                       *)
(***************************************************************************)
EXTENDS DraftAttempts
=============================================================================
