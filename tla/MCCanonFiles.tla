----------------------------- MODULE MCCanonFiles -----------------------------
(* Instances of CanonFiles.                                                *)
EXTENDS CanonFiles, TLC

CONSTANT p1    \* a text of providers.yaml

Yaml(id, nests, with, inputs, prompts, tidy, rev) ==
  [id |-> id, nests |-> nests, with |-> with, inputs |-> inputs, prompts |-> prompts,
   tidy |-> tidy, rev |-> rev]
Note(asks, rev) == [asks |-> asks, rev |-> rev]

(* A child (1), a parent (2) that nests it, a prompt (3), providers.yaml   *)
(* (4).                                                                    *)
Child == Yaml(1, {}, {}, {"goal"}, {3}, TRUE, 0)
ChildByHand == Yaml(1, {}, {}, {"goal"}, {3}, FALSE, 1)
ChildTidied == Written(ChildByHand)
ChildWider == Yaml(1, {}, {}, {"goal", "scope"}, {3}, TRUE, 2)
Parent == Yaml(2, {1}, {"goal"}, {}, {}, TRUE, 0)
ChildNarrower == Yaml(1, {}, {}, {}, {3}, TRUE, 3)
AskGoal == Note({"goal"}, 0)
AskGoalWell == Note({"goal"}, 1)
AskScope == Note({"scope"}, 0)

MCIds == {1, 2}
MCPrompts == {3}
MCYamls == {Child, ChildByHand, ChildTidied, ChildWider, ChildNarrower, Parent, Skeleton(1), Skeleton(2)}
MCTyped == {ChildByHand, ChildNarrower}
MCNotes == {AskGoal, AskGoalWell, AskScope}
MCPackage ==
  (1 :> Child) @@ (2 :> Parent) @@ (3 :> AskGoal) @@ (4 :> None)
MCCanons == {MCPackage}
MCBundles ==
  {(1 :> ChildWider) @@ (2 :> None) @@ (3 :> AskScope) @@ (4 :> p1)}
MCHandMade ==
  {<<"repo", 1, ChildByHand>>, <<"repo", 3, AskScope>>, <<"repo", 4, Broken>>}

Pages == Permutations(Clients)
=============================================================================
