------------------------------- MODULE MCFwLoad -------------------------------
EXTENDS FwLoadInv, TLC

\* Two images of one length, and one too long for the buffer.
MCImages == {"a", "b", "long"}
MCImgLen == [i \in MCImages |-> IF i = "long" THEN 8 ELSE 4]

\* Cuts that leave a whole header in the first write and the end of the image to the last; the
\* file that is too long is cut too, and overflows the buffer with its second or third piece.
MCCuts == {<<"a", 2>>, <<"a", 3>>, <<"b", 2>>, <<"b", 3>>, <<"long", 2>>, <<"long", 3>>}

\* One image, cut within the last HdrLen units of its file.
OneImage == {"a"}
OneLen   == [i \in OneImage |-> 4]
LateCuts == {<<"a", 2>>, <<"a", 4>>}

\* Two images of different lengths, each written at once.
TwoImages == {"a", "c"}
TwoLens   == [i \in TwoImages |-> IF i = "a" THEN 4 ELSE 6]
NoCuts    == {}

Symmetry == Permutations(Writers) \cup Permutations(Devices)
=============================================================================
