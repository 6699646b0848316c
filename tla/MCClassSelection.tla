------------------------- MODULE MCClassSelection -------------------------
\* Two skins, so that one can take the place of the other, and game modes
\* with two classes, with one and with none.
EXTENDS ClassSelection

CONSTANTS c1, c2

const_Skins == {c1, c2}

const_Offers == {<<>>, <<c2>>, <<c1, c2>>}
=============================================================================
