----------------------------- MODULE MCChatRoom -----------------------------
(* Instances of ChatRoom for TLC.  B is a name of full length: its tag "#k"  *)
(* replaces its end, and tagging "B#2" gives the same names.  Where a run    *)
(* is not about names, all of them fall in the one class U.                  *)
EXTENDS ChatRoom, Sequences

CONSTANTS
    c1, c2,
    B, B2, B3, B4, U

AllNames    == {B, B2, B3, B4, U}
BaseTags    == <<B, B2, B3, B4>>
MCTag(n, k) == IF n = U THEN U ELSE BaseTags[k]
=============================================================================
