------------------------------ MODULE MCRouter ------------------------------
(* Two worlds and the wildcard; Redis rules of this service and of another, *)
(* and Consul answers that gain, lose and change a world.                   *)
EXTENDS Router, TLC

MCWorlds == {-1, 0, 1}
MCTypes == {200}
la == <<"a">>
lb == <<"b", "c">>
MCLists == {<<>>, la, lb}
Rule(s, y, e) == [service |-> s, strategy |-> y, endpoints |-> e]
MCRuleSets ==
  {(<<200, 0>> :> Rule("game", "consistent_hash", la)),
   (<<200, 1>> :> Rule("other", "realm_based", lb))}
MCServiceMaps == {(-1 :> la) @@ (1 :> lb), (1 :> la)}
MCAsks == {<<200, 1, 3>>}
MCCrc32(w, i) == w + i

=============================================================================
