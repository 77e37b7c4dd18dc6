---- MODULE MCAgentDriver ----
EXTENDS AgentDriver
====
