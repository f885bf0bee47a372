----------------------------- MODULE MCTicketNFT -----------------------------
(* Small instance of the NFT ledger on its own.                            *)
EXTENDS TicketNFT
=============================================================================
