------------------------------- MODULE MCArena -------------------------------
(***************************************************************************)
(* Instances of Arena for TLC: the two combatants the code asks for, and   *)
(* up to two claims and two patches.                                       *)
(***************************************************************************)
EXTENDS ArenaPromises

CONSTANTS c1, c2, k1, k2, p1, p2

MCChosen == <<c1, c2>>
MCNone == {}
OneClaim == {k1}
TwoClaims == {k1, k2}
OnePatch == {p1}
TwoPatches == {p1, p2}
EasyAndHard == {"easy", "hard"}
OnlyMedium == {"medium"}
=============================================================================
