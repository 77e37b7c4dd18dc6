---- MODULE MCJobRegistry ----
EXTENDS JobRegistry
====
