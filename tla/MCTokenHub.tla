----------------------------- MODULE MCTokenHub -----------------------------
(* Finite instances of TokenHub for TLC: two text parts of one session, in   *)
(* two messages, and a part of a second session.                             *)
EXTENDS TokenHub

CONSTANTS s1, s2, m1, m2, m3, c1, c2

MCParts == 1..3
MCSidOf == [p \in MCParts |-> IF p = 3 THEN s2 ELSE s1]
MCMsgOf == [p \in MCParts |-> <<m1, m2, m3>>[p]]
MCSidOfMsg == [m \in {m1, m2, m3} |-> IF m = m3 THEN s2 ELSE s1]
MCSubSid == [c \in Subs |-> IF c = c1 THEN s1 ELSE s2]
MCMaxText == <<3, 1, 1>>

MCScenarios ==
    {[tools |-> {3}, kinds |-> {"status", "reconnect", "minute"}, max |-> 2],
     [tools |-> {3}, kinds |-> {"message_removed", "deleted", "day", "reconnect"}, max |-> 2],
     [tools |-> {3}, kinds |-> {"log", "part_removed", "minutes"}, max |-> 2],
     [tools |-> {}, kinds |-> {"log"}, max |-> 1]}

MCReconnectOnly == {[tools |-> {}, kinds |-> {"reconnect"}, max |-> 1]}
=============================================================================
