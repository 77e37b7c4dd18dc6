---- MODULE MCToolScheduler ----
EXTENDS ToolScheduler
====
