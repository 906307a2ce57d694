-------------------------- MODULE MCDeployUpdate --------------------------
(* DeployUpdate on a small instance: the timer's run and one by hand; two   *)
(* good commits, one that never comes up and one that does not build.       *)
EXTENDS DeployUpdate, TLC

CONSTANTS t, h, g1, g2, sick, broken, f1, f2, f3, f4, f5

MCRuns == {t, h}
MCGood == {g1, g2}
MCBuilds == {g1, g2, sick}
MCCommits == {g1, g2, sick, broken}
MCFiles == {f1, f2, f3, f4, f5}
===========================================================================
