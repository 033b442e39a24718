----------------------------- MODULE MCStoreOps -----------------------------
(* Values for the constants of StoreOps that a .cfg cannot write.          *)
EXTENDS StoreOps, TLC

CONSTANTS word, digits   \* two words: stoll throws on the first, reads 1 from
                         \* the second (the text "1x", say)

MCStollOf == word :> None @@ digits :> 1

\* int64 scaled down to -2 .. IntMax.
MCIntMin == -2
=============================================================================
