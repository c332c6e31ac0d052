---------------------------- MODULE MCBlockingQueue ----------------------------
(* Instances of BlockingQueue for TLC.                                        *)
EXTENDS BlockingQueue

CONSTANTS push1, pop1, pop2, peek1, x, y

TwoPoppers == {pop1, pop2}
OnePusher  == {push1}
OnePeeker  == {peek1}
TwoValues  == {x, y}
================================================================================
