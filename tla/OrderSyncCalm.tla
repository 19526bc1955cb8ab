--------------------------- MODULE OrderSyncCalm ---------------------------
(***************************************************************************)
(* OrderSync where the environment does not disturb a request: no block    *)
(* arrives between its call of getblockcount and its call of               *)
(* dxGetTradingData, none is disconnected, and nobody else writes to the   *)
(* database.  With one request at a time (PHP's built-in server) the       *)
(* cache is then complete.                                                 *)
(***************************************************************************)
EXTENDS OrderSync

Between(r) == pc[r] \in {"read", "fetch"}

CalmNext ==
  \/ Mine /\ \A r \in Requests : ~Between(r)
  \/ \E r \in Requests : Sync(r) \/ Abort(r)

CalmSpec == Init /\ [][CalmNext]_vars /\ Fairness

\* Every trade that is mined is in the end in the cache.
EveryTradeIsCached == \A o \in Orders : (blockOf[o] > 0) ~> (o \in stored)
=============================================================================
