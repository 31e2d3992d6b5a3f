---------------------------- MODULE MCRulesTask ----------------------------
(* Two modules, in one bank or in two, and readings on both sides of every *)
(* limit and between a limit and its reset value.                          *)
EXTENDS RulesTask, Sequences, TLC

Pair(a, b) == (0 :> a) @@ (1 :> b)
Degrees(i, e) == [internal |-> i, external |-> e]
MCRelay == {1, 2}

OneBank == [banks |-> 1, series |-> 2]
TwoBanks == [banks |-> 2, series |-> 1]
MCLayouts == {OneBank, TwoBanks}

MCVoltageReplies == {Pair(3500, 3500), Pair(4200, 3500), Pair(3900, 4200),
                     Pair(3500, 2500), Pair(0, 4200)}
MCTemperatureReplies ==
    {Pair(Degrees(20, NoSensor), Degrees(20, 20)),
     Pair(Degrees(20, NoSensor), Degrees(65, 55)),
     Pair(Degrees(55, NoSensor), Degrees(2, 2))}
\* A warm probe (20) on a cold cell (2).
ColdReplies == {Pair(Degrees(20, 20), Degrees(2, 30))}

\* value, hysteresis, and what relays 1 and 2 do.
Settings(v, h, one, two) ==
    [value |-> v, hysteresis |-> h, relays |-> <<one, two>>]
MCLoadedRules ==
    (0 :> Settings(4000, 3800, "RELAY_ON", "RELAY_X"))  @@
    (1 :> Settings(2800, 3000, "RELAY_OFF", "RELAY_ON")) @@
    (2 :> Settings(60, 50, "RELAY_X", "RELAY_OFF"))     @@
    (3 :> Settings(5, 10, "RELAY_X", "RELAY_X"))        @@
    (4 :> Settings(50, 40, "RELAY_ON", "RELAY_ON"))     @@
    (5 :> Settings(5, 10, "RELAY_OFF", "RELAY_X"))      @@
    (6 :> Settings(7500, 7200, "RELAY_X", "RELAY_ON"))  @@
    (7 :> Settings(3000, 3200, "RELAY_ON", "RELAY_OFF"))

\* A reset value beyond the limit, and a rule turned round.
MCRuleWrites == {[rule |-> 0, value |-> 4000, hysteresis |-> 4300]}
MCRelayWrites == {[rule |-> 0, relays |-> <<"RELAY_OFF", "RELAY_ON">>]}
MCDefaultWrites == {<<"RELAY_ON", "RELAY_OFF">>}
NoWrites == {}
============================================================================
