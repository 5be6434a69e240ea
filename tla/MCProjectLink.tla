-------------------------- MODULE MCProjectLink --------------------------
(* Instances of ProjectLink for TLC. *)
EXTENDS ProjectLink, TLC

CONSTANTS ann, bob, page, page2, hub, plain

\* A preset with one requirement that may create its resource, and one with neither.
MCRequired == hub :> {"seeded"} @@ plain :> {}

\* Complete, missing, repeated and unknown evidence.
MCReceipts == {<<"seeded">>, <<>>, <<"seeded", "seeded">>, <<"seeded", "other">>}

ChannelSymmetry == Permutations(Sessions) \cup Permutations(Resources)

=============================================================================
