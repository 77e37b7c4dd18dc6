---- MODULE MCWriteBehind ----
EXTENDS WriteBehind
====
