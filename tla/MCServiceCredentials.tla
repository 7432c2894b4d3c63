------------------------ MODULE MCServiceCredentials ------------------------
(* An instance of ServiceCredentials for TLC: two Agents, an API-key and a       *)
(* bearer type that are configured and a third that is not, and an issuer that   *)
(* may repeat an identifier or a secret or return a credential that is over.     *)
EXTENDS ServiceCredentials, TLC

CONSTANTS i1, i2, s1, s2, key, bearer, basic, h1, authorization

MCGrantTypes == <<key, bearer>>
MCMethods == <<bearer, key>>

MCCredentials ==
  { [id |-> i1, type |-> key, header |-> h1, secret |-> s1, expires |-> 1],
    [id |-> i2, type |-> key, header |-> h1, secret |-> s1, expires |-> 2],
    [id |-> i2, type |-> bearer, header |-> authorization, secret |-> s2, expires |-> 2] }

MCRequests ==
  { {},
    {[type |-> key, header |-> h1, secret |-> s1]},
    {[type |-> bearer, header |-> authorization, secret |-> s2],
     [type |-> key, header |-> h1, secret |-> s1]},
    {[type |-> bearer, header |-> authorization, secret |-> s1],
     [type |-> bearer, header |-> authorization, secret |-> s2]},
    {[type |-> basic, header |-> authorization, secret |-> s1]} }

MCSelectors ==
  { [type |-> None, id |-> None], [type |-> key, id |-> None], [type |-> bearer, id |-> i2],
    [type |-> basic, id |-> None], [type |-> key, id |-> i1] }

TaskAndAgentSymmetry == Permutations(Tasks) \cup Permutations(Agents)
=============================================================================
