---------------------------- MODULE MCThreadPool -----------------------------
(* Two workers, two posters, and a task that posts another.                 *)
EXTENDS ThreadPool
CONSTANTS t1, t2, t3, t4
MCTask == {t1, t2, t3, t4}
MCSpawned == {t4}
MCSpawns == [t \in MCTask |-> IF t = t1 THEN t4 ELSE None]
=============================================================================
