-------------------------------- MODULE MCReplay --------------------------------
(***************************************************************************)
(* Finite instances of Replay.  A tick is 2.5 ms.                          *)
(***************************************************************************)
EXTENDS Replay

\* The clean, moderate and severe profiles, and the benchmark's, with the
\* extremes of their jitter and its middle.  Five lost in a row are all the content.
AllProfiles ==
    {[base_delay |-> 8,  jitter |-> 1,  jitters |-> {-1, 0, 1}, loss_run |-> 0],
     [base_delay |-> 12, jitter |-> 6,  jitters |-> {-6, 6},    loss_run |-> 2],
     [base_delay |-> 20, jitter |-> 16, jitters |-> {-16, 16},  loss_run |-> 5]}

=============================================================================
