---------------------------- MODULE MCTaskQueue ----------------------------
(* A small instance of TaskQueue for TLC: three futures, so that with two   *)
(* permits one has to wait, and with none configured two have to.           *)
EXTENDS TaskQueue

CONSTANTS j1, j2, j3

MCJobs == {j1, j2, j3}
=============================================================================
