---------------------------- MODULE MCAlgorithms ----------------------------
(***************************************************************************)
(* Small instances for TLC of two parts that compute something and have    *)
(* nothing to do with each other: the reconnect delay and the routing of   *)
(* names.  Either of them runs while the other stands still.               *)
(***************************************************************************)
EXTENDS Backoff, Routing

MCDurations == -15..15

MCLabel == {"app", "APP", "base", "Base", "a_b", ""}
MCLower == [l \in MCLabel |->
              CASE l = "APP" -> "app" [] l = "Base" -> "base" [] OTHER -> l]
MCDomains == {<<"">>, <<"", "">>, <<"base">>, <<"Base", "">>, <<"", "app", "base", "">>,
              <<"", "", "base">>}

MCInit ==
  \/ /\ BackoffInit
     /\ phase = "other" /\ flags = <<>> /\ domain = <<"">> /\ tokens = <<>>
  \/ /\ RoutingInit
     /\ bpc = "asleep" /\ initial = 1 /\ maxDelay = 1 /\ attempt = 0
     /\ i = 0 /\ delay = 1

MCNext ==
  \/ phase = "other" /\ BackoffNext /\ UNCHANGED routingVars
  \/ RoutingNext /\ UNCHANGED backoffVars

MCSpec == MCInit /\ [][MCNext]_<<backoffVars, routingVars>>
=============================================================================
