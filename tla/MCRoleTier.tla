---------------------------- MODULE MCRoleTier ----------------------------
(* RoleTier on a small instance: two accounts, one entry of the people map, *)
(* the built-in roles and one that an administrator built.                  *)
EXTENDS RoleTier, TLC

CONSTANTS a, b, ghost, admin, user, lead, portal, accounts, super

MCAccts == {a, b}
MCGhosts == {ghost}
MCRoles == {admin, user, lead}

Document(forAdmin, forUser, forLead) ==
    [r \in MCRoles |-> CASE r = admin -> forAdmin [] r = user -> forUser [] OTHER -> forLead]
All == {portal, accounts, super}
\* Nothing built; a lead below the tier, above it, and the tier moved from the
\* built-in role to the lead; no tier at all; a user who may administer.
MCDocuments == {
    Document(All, {}, NoRole),
    Document(All, {}, {portal, accounts}),
    Document(All, {}, {portal, super}),
    Document({portal, accounts}, {}, All),
    Document({portal, accounts}, {}, NoRole),
    Document(All, {portal}, {super})}
\* No hidden block, as the portal sends, and one from before there were roles.
MCHiddenBlocks == {{}, {user, lead}}
MCSymmetry == Permutations(MCAccts)
===========================================================================
