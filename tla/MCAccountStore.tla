-------------------------- MODULE MCAccountStore --------------------------
(* AccountStore on a small instance: the server and one command of the CLI, *)
(* over two account ids, starting from a fresh volume or from a file with *)
(* two admins enrolled, one of them with an invite outstanding.              *)
EXTENDS AccountStore, TLC

CONSTANTS s, c, a, b, ann, bob, admin, user

MCClis == {c}
MCUids == {a, b}
MCNames == {ann, bob}
MCRoles == {admin, user}
MCAdminRoles == {admin}

Enrolled(name, role, hash, invite) ==
    [name |-> name, role |-> role, disabled |-> FALSE, hash |-> hash, invite |-> invite]
Start(x, y) == [NoUsers EXCEPT ![a] = x, ![b] = y]
MCStart == {NoUsers,
            Start(Enrolled(ann, admin, 1, None), Enrolled(bob, admin, 2, 3))}
MCFirstCred == 4
===========================================================================
