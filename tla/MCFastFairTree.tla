---------------------------- MODULE MCFastFairTree ----------------------------
(***************************************************************************)
(* Small trees: a full leaf, two leaves, three levels, a cut leaf in the   *)
(* middle.                                                                 *)
(***************************************************************************)
EXTENDS FastFairTree

MCLoads  == { <<2, 4, 6>>, <<2, 6, 4, 7>>, <<1, 2, 3, 4, 5, 6, 7>>, <<1, 4, 5, 6, 7, 2, 3>> }
MCRanges == { <<1, 100>>, <<2, 5>> }
=============================================================================
