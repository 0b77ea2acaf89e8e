----------------------------- MODULE MCNodeTree -----------------------------
(* Small instances of NodeTree. *)
EXTENDS NodeTree, TLC

CONSTANTS r1, r2, n1, n2, ada, bob, home, team

\* Two names, one of them sent with blanks around it; a name and a refused one.
TwoTrimmed == (" a " :> "a") @@ ("b" :> "b")
TwoRawNames == DOMAIN TwoTrimmed
TwoNames == {"a", "b"}
RefusedTrimmed == ("a" :> "a") @@ (".." :> None)
RefusedRawNames == DOMAIN RefusedTrimmed
OneName == {"a"}

EditorOnly == {"editor"}
DropAndContribute == {"drop_only", "contributor"}

RaceSymmetry == Permutations({r1, r2}) \cup Permutations({n1, n2})
                  \cup Permutations({home, team})
SpaceSymmetry == Permutations({ada, bob}) \cup Permutations({home, team})
=============================================================================
