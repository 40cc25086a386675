---------------------------- MODULE MCEventQueue ----------------------------
\* Two loop queues (main_loop.events and the waiting_jobs of jobwait()) and
\* two emitters that may be attached to either.
EXTENDS EventQueue

CONSTANTS main, waiting, job1, job2

MCParents == {main, waiting}
MCChildren == {job1, job2}
=============================================================================
