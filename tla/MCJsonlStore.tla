---- MODULE MCJsonlStore ----
EXTENDS JsonlStore
====
