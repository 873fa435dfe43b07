------------------------------- MODULE MCApp --------------------------------
(* The sample application with tags that are the same or unrelated. *)
EXTENDS App

MCTags == {<<"a">>, <<"b">>}
=============================================================================
