----------------------------- MODULE MCAutoStop -----------------------------
(* A card session and an order bought by amount, read page by page.        *)
EXTENDS AutoStop

OrderSet == {1, 2}
CardSet == {1}
FlakySet == {1}
LeaverSet == {2}
=============================================================================
