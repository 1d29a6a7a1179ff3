----------------------------- MODULE MCGridServer -----------------------------
EXTENDS GridServer

CONSTANTS h1, h12, h2

(* The addresses end in .1, .12 and .2.                                    *)
Neighbours == {h1, h12, h2}
PartOf == {<<h1, h12>>}
TwoIds == <<3, 5>>
ThreeIds == <<3, 5, 6>>
=============================================================================
