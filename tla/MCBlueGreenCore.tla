--------------------------- MODULE MCBlueGreenCore ---------------------------
(* One validator, two or three versions.                                    *)
EXTENDS BlueGreenCore
=============================================================================
