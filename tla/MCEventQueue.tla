---------------------------- MODULE MCEventQueue ----------------------------
(* An instance of EventQueueList for TLC.  Two events are enough to tell   *)
(* any two positions of the queue apart.                                   *)
EXTENDS EventQueueList
============================================================================
