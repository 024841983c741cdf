--------------------------- MODULE MCTuyaDevices ---------------------------
(* TuyaDevices on a small instance.                                        *)
EXTENDS TuyaDevices, TLC

CONSTANTS lamp, fan, x, y
MCHome == lamp :> x @@ fan :> y
=============================================================================
