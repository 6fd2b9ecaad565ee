------------------------- MODULE MCLiveScanService -------------------------
(* Two workers, two modules, and requests of every kind in any order.      *)
EXTENDS LiveScanService
=============================================================================
