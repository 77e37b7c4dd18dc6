---- MODULE MCAgentLifecycle ----
EXTENDS AgentLifecycle
CONSTANTS a, b, c

Play(x, y, z, mishaps, events) ==
  [calls |-> (a :> x) @@ (b :> y) @@ (c :> z), budget |-> [mishap |-> mishaps, event |-> events]]
SmallPlays ==
  {Play("resume", "resume", "inspect", 1, 0), Play("resume", "resume", "inspect", 0, 1),
   Play("create", "resume", "inspect", 1, 1), Play("resume", "resume", "none", 2, 1),
   Play("create", "configured", "none", 2, 1), Play("resume", "load", "none", 2, 1),
   Play("resume", "inspect", "none", 2, 1), Play("create", "load", "none", 2, 1)}
====
