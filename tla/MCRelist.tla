------------------------------- MODULE MCRelist -------------------------------
(***************************************************************************)
(* Relist on small instances: two listers, one with more than one page.    *)
(***************************************************************************)
EXTENDS Relist, TLC

CONSTANTS a, b, c

MCObjs == {a, b, c}

MCListerOf == a :> 1 @@ b :> 1 @@ c :> 2

=============================================================================
