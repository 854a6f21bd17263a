------------------------------- MODULE MCCron -------------------------------
(* A small instance of CronRunner: a batch that is due at every minute and    *)
(* one that is due on Mondays or on the second of the month, at minute 0.     *)
EXTENDS CronRunner

CONSTANTS b, c, v, w

At0 == {[form |-> "one", a |-> 0, b |-> 0, step |-> 1]}
Monday == {[form |-> "range", a |-> 1, b |-> 1, step |-> 1]}
The2nd == {[form |-> "one", a |-> 2, b |-> 2, step |-> 1]}
Schedules ==
    [x \in {b, c} |->
        IF x = b THEN [minute |-> Star, hour |-> Star, dom |-> Star, month |-> Star, dow |-> Star]
        ELSE [minute |-> At0, hour |-> Star, dom |-> The2nd, month |-> Star, dow |-> Monday]]
=============================================================================
