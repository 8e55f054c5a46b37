----------------------------- MODULE MCWorkTest -----------------------------
(* The test's work item and two of other threads.                          *)
EXTENDS WorkTest
=============================================================================
