---------------------------- MODULE MCExperiment ----------------------------
(* The instance of Experiment that TLC checks: specs that between them use *)
(* every start mode, every trigger action and both kinds of trigger.       *)
EXTENDS Experiment

Manual(duration, once, for, do) ==
    [mode |-> "manual", persist |-> FALSE, at |-> 0,
     duration |-> duration, once |-> once, for |-> for, do |-> do]

MCSpecs ==
    {Manual(3, FALSE, 1, <<"burst", "set_rate">>),
     Manual(0, TRUE, 1, <<"stop", "set_rate">>),
     Manual(0, TRUE, 1, <<"reboot">>),
     [Manual(3, FALSE, 0, <<"burst">>) EXCEPT !.mode = "on_boot", !.persist = TRUE],
     [Manual(1, TRUE, 0, <<"burst">>) EXCEPT !.mode = "at_ms", !.at = 2]}
=============================================================================
