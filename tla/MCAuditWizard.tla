--------------------------- MODULE MCAuditWizard ---------------------------
(* One session is enough: sessions share the configurations, caches and    *)
(* files of the states that hold them, never rows, jobs or events.  Two    *)
(* sources let it be looked at through the configuration of another one.   *)
EXTENDS AuditWizard, TLC

Symmetry == Permutations(Sources)
=============================================================================
