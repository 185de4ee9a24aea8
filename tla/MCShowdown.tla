----------------------------- MODULE MCShowdown -----------------------------
\* Boards with up to three of a rank, three to five of a suit and four in a row; hole cards
\* that make every hand from high card to royal flush of them.
EXTENDS Showdown

C(r, s) == [rank |-> r, suit |-> s]

MCBoardCards == {C(14, "S"), C(13, "S"), C(12, "S"), C(11, "S"), C(5, "S"), C(5, "H"), C(4, "H"), C(3, "H")}
MCHoleCards  == {C(10, "S"), C(14, "H"), C(14, "D"), C(5, "C"), C(2, "H"), C(4, "S")}
=============================================================================
