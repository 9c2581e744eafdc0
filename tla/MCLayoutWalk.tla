---------------------------- MODULE MCLayoutWalk ----------------------------
(* LayoutWalk for TLC: arguments around powers of 2 and the ends of the word. *)
EXTENDS LayoutWalk

MCLowests == 0 .. 4 \union {7, 8, 9, 15, 16, 31, 32, 63, 64, 65, 1023, 1024, 1025}
MCHighests == {2, 31, 32, 63, 64, 65, 100, 1023, 2047, 2048, MaxWord}

MCAlphabet == <<"A", "B", "C", "D", "E", "F", "G", "H">>
=============================================================================
