------------------------------ MODULE MCWizard ------------------------------
(* The wizard's first run.                                                 *)
EXTENDS Wizard

(* No configuration file yet.                                              *)
NoFile == {None}
=============================================================================
