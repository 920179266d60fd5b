------------------------------ MODULE MCNames ------------------------------
(* One user who types anything short, and others whose names collide, one of *)
(* them with a client that normalises nothing.                              *)
EXTENDS Names

CONSTANTS Anybody, MaxTyped

Keys == {"a", "e", "acute", "sharp_s", "s", "space", "tab", "zwsp"}

Colliding == {<<"a">>, <<"A">>, <<"a", "hash", "2">>, <<"s", "s">>, <<"sharp_s", "s">>}

Raw == {<<>>, <<"A", "space">>, <<"a", "zwsp">>, <<"a", "hash", "2", "2">>}

MCTyped == [u \in Users |->
    CASE u = Anybody -> BoundedSeq(Keys, MaxTyped)
      [] u \in Foreign -> Colliding \cup Raw
      [] OTHER -> Colliding]
=============================================================================
