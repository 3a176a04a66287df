----------------------------- MODULE MCCopyJobs -----------------------------
(* Two threads that copy, of which one also flushes.                        *)
EXTENDS CopyJobs

CONSTANTS t1, t2

OneThread == {t1}
TwoThreads == {t1, t2}
=============================================================================
