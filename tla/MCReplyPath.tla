---------------------------- MODULE MCReplyPath ----------------------------
(* Two modules configured, one of them on the chain.                       *)
EXTENDS ReplyPath

MCRequests == {To("Timing", 0, MaxModules - 1), To("ReadVoltageAndStatus", 0, MaxModules - 1)}
                  \cup {To("ReadSettings", m, m) : m \in Module}
MCLimits == {3000, 3600}
============================================================================
