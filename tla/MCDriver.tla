-------------------------------- MODULE MCDriver --------------------------------
(* Driver with its constants given by the configurations.                  *)
EXTENDS Driver
=============================================================================
