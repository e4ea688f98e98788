---------------------------- MODULE MCThreadPool ----------------------------
(* Instances of ThreadPool for TLC.                                        *)
EXTENDS ThreadPool

(* Every way to set a pool up, short of the one that never resolves.       *)
AllModes == PoolMode
=============================================================================
