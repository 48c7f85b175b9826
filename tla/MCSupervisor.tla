---- MODULE MCSupervisor ----
EXTENDS Supervisor
====
