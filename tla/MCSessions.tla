----------------------------- MODULE MCSessions -----------------------------
(* Sessions with an administrator, a member and an id for a third account; *)
(* restarts between the modes, with one passphrase, two, or a rotated one. *)
EXTENDS Sessions, TLC

CONSTANTS u1, u2, u3, ann, bob, s1, s2, day, night, boss, chief

Conf(mode, secret, pass, admin) ==
    [mode |-> mode, secret |-> secret, pass |-> pass, admin |-> admin]
MCConfs ==
    {Conf("accounts", s1, NoPass, boss),
     Conf("passphrase", s2, day, NoPass), Conf("passphrase", s1, day, boss),
     Conf("passphrase", s1, night, boss), Conf("passphrase", s1, day, chief),
     Conf("proxy", s1, NoPass, boss)}
Enrolled(name, role, hash) ==
    [name |-> name, role |-> role, disabled |-> FALSE, hash |-> hash, invite |-> None]
MCStart == {u1 :> Enrolled(bob, RoleAdmin, 1) @@ u2 :> Enrolled(ann, RoleUser, 2) @@ u3 :> NoRow}
=============================================================================
