-------------------------- MODULE MCSettingsStore --------------------------
(* Two rules, and values whose bytes differ from the erased ones and from  *)
(* each other; one of the settings is 0, and one is more than a byte.      *)
EXTENDS SettingsStore

MCConfigurations ==
    {[banks |-> 1, series |-> 8, temperature |-> 70, threshold |-> 4100],
     [banks |-> 0, series |-> 258, temperature |-> 65, threshold |-> 200]}
MCLimits ==
    {[rule |-> 0, hysteresis |-> <<4100, 0>>, value |-> <<4200, 1>>],
     [rule |-> 1, hysteresis |-> <<3000, 0>>, value |-> <<2800, 0>>]}
MCRelayStates == {[rule |-> 1, relays |-> <<255, 153, 0, 153>>]}
MCDefaults == {<<153, 255, 153, 0>>}
============================================================================
