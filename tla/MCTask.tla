------------------------------- MODULE MCTask -------------------------------
(* Under sync_wait, a task that awaits two others in turn; another one is  *)
(* only started.                                                           *)
EXTENDS Task

MCCoros == 0..4
MCParent == [c \in 1..4 |-> IF c = 1 THEN 0 ELSE IF c = 4 THEN Nobody ELSE 1]
=============================================================================
