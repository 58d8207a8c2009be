----------------------------- MODULE MCUpdatePage -----------------------------
(* Small instances of UpdatePage for TLC. *)
EXTENDS UpdatePage

\* The version that runs, itself with a build number, and a release that is newer.
MCInstalled == <<1, 0>>
MCReleases == {<<1, 0, 0, 7>>, <<1, 0, 1>>}

\* Pages are interchangeable, and so are the calls.
Symmetry == Permutations(Pages) \cup Permutations(Downloads)
=============================================================================
