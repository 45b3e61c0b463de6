---------------------------- MODULE MCMediaLibrary ----------------------------
(***************************************************************************)
(* Two calls of finalize_media_upload for one upload.                      *)
(***************************************************************************)
EXTENDS MediaLibrary, TLC

CONSTANTS f1, f2

Symmetry == Permutations({f1, f2})
===============================================================================
