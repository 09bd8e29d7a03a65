--------------------------- MODULE MCCatalogConsole ---------------------------
(***************************************************************************)
(* A small merchant for TLC: two documents that state different facts, one *)
(* of them doubtful, two requests in flight.                               *)
(***************************************************************************)
EXTENDS CatalogConsole, TLC

CONSTANTS plain, odd

\* A representation of one document denies the world built from the other.
Different == {<<plain, odd>>, <<odd, plain>>}

Symmetry == Permutations(Sessions)
=============================================================================
