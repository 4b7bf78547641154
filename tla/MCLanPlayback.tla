---------------------------- MODULE MCLanPlayback ----------------------------
(***************************************************************************)
(* TLC instances of LanPlayback.  A keyboard that fails or reboots, or has  *)
(* a third route, has no recording and one press in each boot, of the same   *)
(* key; any other has all the bounds allow.                                 *)
(***************************************************************************)
EXTENDS LanPlayback, TLC

Sparing ==
  deviceFaults' > 0 \/ routes' > 2 =>
    /\ captures' = 0
    /\ slots.requests <= 1 /\ slots'.requests <= 1
    /\ \A f \in floors' : dev'.req # NoRequest => dev'.req.slot = f.slot

SparingSpec == Init /\ [][Next /\ Sparing]_vars

MCSymmetry == Permutations(Slot) \cup Permutations(Generations)
=============================================================================
