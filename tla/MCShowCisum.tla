----------------------------- MODULE MCShowCisum -----------------------------
(* Small instances of show.cisum over the NFT ledger.                      *)
EXTENDS ShowCisum

CONSTANTS fan   \* a ticket holder

\* A batch naming its recipient twice.
MCBatches == {<<fan, fan>>}
MCShowDates == {<<1, 0>>, <<1, 2>>}
MCSaleWindows == {<<1, 1>>}
=============================================================================
