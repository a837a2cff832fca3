-------------------------- MODULE MCTeamGeneration --------------------------
(* Model-checking instances of TeamGeneration.                              *)
EXTENDS TeamGeneration

CONSTANTS p1, p2, p3, c1, c2

Reg(coach, assistant, buddy) ==
    [here |-> TRUE, coach |-> coach, assistant |-> assistant, buddy |-> buddy]
Gone  == [here |-> FALSE, coach |-> NoOne, assistant |-> NoOne, buddy |-> NoOne]
Plain == Reg(NoOne, NoOne, NoOne)

\* Three players: a coach's child, an assistant's child, two buddies, late comers.
SomeRosters ==
    {[p \in Players |-> CASE p = p1 -> a [] p = p2 -> b [] p = p3 -> c] :
        a \in {Plain, Reg(c1, NoOne, NoOne), Reg(NoOne, NoOne, p2)},
        b \in {Plain, Reg(c2, NoOne, NoOne), Reg(NoOne, NoOne, p1)},
        c \in {Gone, Reg(NoOne, c2, NoOne)}}

SomeRegistrations ==
    {Gone, Plain, Reg(c1, NoOne, NoOne), Reg(NoOne, NoOne, p1), Reg(NoOne, c2, p2)}

Config(max, min, target, maxTeams) ==
    [max |-> max, min |-> min, target |-> target, override |-> 0,
     minTeams |-> 0, maxTeams |-> maxTeams]

SomeConfigs == {Config(2, 0, 2, 0), Config(1, 0, 1, 2), Config(2, 2, 1, 2)}

Policy(count, overCap, generous, replacements) ==
    [count |-> count, overCap |-> overCap, household |-> generous, attach |-> TRUE,
     shells |-> generous, replacements |-> replacements]

None == [c \in {} |-> NoOne]

SomePolicies ==
    {Policy("preserve-existing", FALSE, FALSE, None),
     Policy("preserve-or-expand", FALSE, TRUE, [c \in {c1} |-> c2]),
     Policy("preserve-or-expand", TRUE, FALSE, None),
     Policy("auto", FALSE, FALSE, None)}
=============================================================================
