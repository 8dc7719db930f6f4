----------------------------- MODULE MCHashChain -----------------------------
(* A hash chain as its owner sees it and as its work flows: the manager that    *)
(* starts and stops it, and the work and solutions of a chain that runs; and,   *)
(* at the other end of the program's reach, the sessions of the stratum proxy.  *)
(* A behaviour is one of a single side and the others rest.                     *)
EXTENDS WorkPath, ChainManager, ProxyServer

VARIABLE side

CONSTANTS n1, n2, main, hook
MCNonce == {n1, n2}
MainAndHook == {main, hook}

MCInit == side \in {"work", "manager", "proxy"} /\ Init /\ ManagerInit /\ ProxyInit

MCNext ==
  \/ side = "work"    /\ Next        /\ UNCHANGED <<side, manager_vars, proxy_vars>>
  \/ side = "manager" /\ ManagerNext /\ UNCHANGED <<side, vars, proxy_vars>>
  \/ side = "proxy"   /\ ProxyNext   /\ UNCHANGED <<side, vars, manager_vars>>

\* In their initial states neither the manager nor the proxy owes a step.
MCSpec ==
  /\ MCInit /\ [][MCNext]_<<side, vars, manager_vars, proxy_vars>>
  /\ ManagerFairness /\ ProxyFairness
=============================================================================
