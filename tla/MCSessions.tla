----------------------------- MODULE MCSessions -----------------------------
(***************************************************************************)
(* Two accounts: one with a character and a client that connects twice,    *)
(* the second time as a game master, and one with neither.                 *)
(***************************************************************************)
EXTENDS Sessions, TLC

CONSTANTS s1, s2, s3, a1, a2, c1

MCAccountOf == s1 :> a1 @@ s2 :> a1 @@ s3 :> a2
MCBelongsTo == [c \in Characters |-> a1]

Setting(hard, limit, perTick, delay, grace) ==
  [hardLimit |-> hard, playerLimit |-> limit, perTick |-> perTick,
   forceLogoutDelay |-> delay, grace |-> grace]

(* Room for one, with the shipped values of the other settings; a hard     *)
(* limit of one, below a limit that each update raises or equal to it.     *)
MCConfigs ==
  {Setting(0, 1, 0, FALSE, FALSE), Setting(1, 2, 1, TRUE, TRUE),
   Setting(1, 1, 0, TRUE, FALSE)}

MCShipped == {Setting(0, 1, 0, FALSE, FALSE)}
MCLinger  == {Setting(0, 0, 0, TRUE, FALSE)}
MCRoomy   == {Setting(9, 1, 0, TRUE, FALSE)}
=============================================================================
