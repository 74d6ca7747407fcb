--------------------------- MODULE MCDriverValues ---------------------------
(***************************************************************************)
(* Values at the edges: characters of each length of UTF-8 and of UTF-16's *)
(* pairs, texts and blobs that end at a chunk or behind it, with a NUL and *)
(* without anything, and numbers at the sixth decimal.                     *)
(***************************************************************************)
EXTENDS DriverValues

Edges == {0, 1, 127, 128, 2047, 2048, 55295, 57344, 65535, 65536, 128512, 1114111}
Mixed == {0, 26085, 128512}
MCTexts == {<<c>> : c \in Edges} \cup UNION {[1..n -> Mixed] : n \in 0..2}
MCBlobs == UNION {[1..n -> {0, 255}] : n \in 0..3}
MCReals == {-75, 25, 50, 100, 150000000, 123456789}
MCInts == {-1, 0, 7}
=============================================================================
