------------------------------- MODULE Patch --------------------------------
(***************************************************************************)
(* The patch of the network a Node keeps: StandardGossipHandler's          *)
(* compute_patch, a depth-first walk from the local Node over the records  *)
(* of the incoming Gossip that goes db_patch_size hops deep.               *)
(***************************************************************************)
EXTENDS Integers, FiniteSets, FiniteSetsExt, SequencesExt

\* The walk from `key' with `hops' remaining, as the patch it turns `patch' into.
\* `links' gives the neighbors of the Nodes there are records for.
RECURSIVE compute_patch_recursive(_, _, _, _)
compute_patch_recursive(patch, key, links, hops) ==
  IF hops = 0 THEN patch \cup {key}
  ELSE IF key \notin DOMAIN links THEN patch \ {key}
  ELSE FoldLeft(LAMBDA p, k : IF k \in p THEN p ELSE compute_patch_recursive(p, k, links, hops - 1),
                patch \cup {key},
                SetToSortSeq(links[key], <))

compute_patch(root, links, hops) == compute_patch_recursive({}, root, links, hops)
=============================================================================
