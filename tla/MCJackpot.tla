------------------------------ MODULE MCJackpot ------------------------------
(* Instances of Jackpot for TLC: one tenant jackpot and the weekly one.        *)
EXTENDS Jackpot

CONSTANTS tenant, weekly

MCJackpots == {tenant, weekly}
MCWeekly == {weekly}
MCTargets == <<tenant, weekly>>
=============================================================================
