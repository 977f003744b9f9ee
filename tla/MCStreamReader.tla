--------------------------- MODULE MCStreamReader ---------------------------
(***************************************************************************)
(* Instances of ListReader for TLC: streams of up to three pieces.  With a *)
(* minimum record length of 2 and a maximum of 12 cells every order of     *)
(* the limits in libmseed.h is kept: 2 < 3 < 4 (40, 48, 64 bytes), and the *)
(* largest power of two, 8, and a header behind it fit in the buffer.      *)
(***************************************************************************)
EXTENDS ListReader

Other(n) == [i \in 1 .. n |-> [hdr |-> "none", len |-> 0, content |-> "good", selected |-> FALSE]]

(* A header that says len, with n cells of the record present. *)
Piece(hdr, len, n, content, selected) ==
  <<[hdr |-> hdr, len |-> len, content |-> content, selected |-> selected]>> \o Other(n - 1)

Pieces ==
  {Piece("v3", 2, 2, "good", TRUE), Piece("v3", 5, 5, "good", FALSE),
   Piece("v3", 11, 11, "good", TRUE), Piece("v3", 3, 3, "badheader", TRUE),
   Piece("v2", 4, 4, "good", TRUE), Piece("v2", 0, 8, "good", TRUE),
   Piece("v2", 8, 8, "baddata", TRUE), Other(1)}

(* Pieces that are last: truncated, too long, or rubbish, or a record on   *)
(* which the end of the buffer can fall.                                   *)
Ends ==
  {<<>>, Piece("v3", 5, 3, "good", TRUE), Piece("v2", 4, 2, "good", TRUE),
   Piece("v2", 4, 3, "good", TRUE), Piece("v2", 4, 4, "good", TRUE),
   Piece("v3", 13, 4, "good", TRUE), Other(1)}

SomeStreams == {p \o q \o e : p \in Pieces, q \in Pieces \cup {<<>>}, e \in Ends}

SomeOptions ==
  [skip : BOOLEAN, select : BOOLEAN, start : {0}, end : {0}, chunk : {0, 2}]
  \cup [skip : {FALSE}, select : {FALSE}, start : {2}, end : {6}, chunk : {0}]
=============================================================================
