----------------------------- MODULE MCDirCache -----------------------------
(* Two subtrees of the same shape, so that a rename moves three levels. *)
EXTENDS DirCache, TLC
CONSTANTS a, b, c
TreePaths == {<<>>, <<a>>, <<a, c>>, <<a, c, c>>, <<b>>, <<b, c>>, <<b, c, c>>}
SmallPaths == {<<>>, <<a>>, <<a, c>>, <<b>>, <<b, c>>}

\* The subtrees are alike, and so are the versions.
Symmetry == {f @@ g : f \in Permutations({a, b}), g \in Permutations(Versions)}
=============================================================================
