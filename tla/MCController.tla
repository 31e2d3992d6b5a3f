---------------------------- MODULE MCController ---------------------------
(* Two modules in one bank or two, or one module; one of them may be over  *)
(* voltage, or missing.                                                    *)
EXTENDS Controller, TLC

Pair(a, b) == (0 :> a) @@ (1 :> b)
MCRelay == {1}
MCLayouts == {[banks |-> 1, series |-> 1], [banks |-> 2, series |-> 1]}
MCVoltages == {Pair(3500, 4200), Pair(4200, 0)}

Settings(v, h, one) == [value |-> v, hysteresis |-> h, relays |-> <<one>>]

\* Only the rule for over voltage can trip.
MCLoadedRules ==
    [rule \in 0 .. 7 |->
        IF rule = 0 THEN Settings(4000, 3800, "RELAY_ON")
        ELSE IF rule \in {2, 4, 6} THEN Settings(60000, 60000, "RELAY_X")
        ELSE Settings(0, 0, "RELAY_X")]
\* The settings that are there, written again.
MCRuleWrites == {[rule |-> 0, value |-> 4000, hysteresis |-> 3800]}
MCRelayWrites == {[rule |-> 0, relays |-> <<"RELAY_ON">>]}
MCDefaultWrites == {<<"RELAY_X">>}
============================================================================
