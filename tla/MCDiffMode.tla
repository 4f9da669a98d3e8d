----------------------------- MODULE MCDiffMode -----------------------------
EXTENDS DiffMode, TLC
CONSTANTS p1, p2
MCSymmetry == Permutations(Processes)
(* A crate of two files and its manifest, a file of another crate, and a   *)
(* guest program outside both, whose findings name the crate "zkvm".       *)
MCCratesOf == [f \in Paths |-> IF f = "b1" THEN {"B"} ELSE IF f = "g" THEN {} ELSE {"A"}]
MCNamedCrate == [f \in Paths |-> IF f = "b1" THEN "B" ELSE IF f = "g" THEN "zkvm" ELSE "A"]
MCTrees == {t \in [Paths -> 0..2] :
              t["b1"] # 0 /\ t["Cargo.toml"] # 0 /\ t["g"] # 1 /\ t["a1"] # 1}
MCFirst == [f \in Paths |-> IF f = "a1" THEN 0 ELSE IF f = "Cargo.toml" THEN 1 ELSE 2]
=============================================================================
