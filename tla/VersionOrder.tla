----------------------------- MODULE VersionOrder -----------------------------
(***************************************************************************)
(* The order of versions by which UpdateService decides whether a release  *)
(* is an update: up to three numbers, a missing one counting as 0, the     *)
(* first that differs deciding.  What comes after the third is not looked  *)
(* at.                                                                     *)
(***************************************************************************)
EXTENDS Naturals, Sequences

\* The parts of a version string that parses.
Version == Seq(Nat)

Part(v, i) == IF i <= Len(v) THEN v[i] ELSE 0

IsNewerVersion(new, current) ==
    \E i \in 1 .. 3 :
      /\ Part(new, i) > Part(current, i)
      /\ \A j \in 1 .. i - 1 : Part(new, j) = Part(current, j)

\* Two versions that the check cannot tell apart.
SameVersion(v, w) == \A i \in 1 .. 3 : Part(v, i) = Part(w, i)
=============================================================================
