---------------------------- MODULE MCChatServer ----------------------------
(* Values of the constants of ChatServer for model checking. *)
EXTENDS ChatServer, TLC

CONSTANTS c1, c2, c3

MCTwo == {c1, c2}
MCThree == {c1, c2, c3}
\* The second name is shorter than the first, the third longer.
MCNameOf == c1 :> <<"a", "b">> @@ c2 :> <<"c">> @@ c3 :> <<"d", "e", "f">>
=============================================================================
