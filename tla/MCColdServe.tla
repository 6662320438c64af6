---------------------------- MODULE MCColdServe ----------------------------
(* ColdServe over the canonical chain of MCChain.  A behaviour has either  *)
(* requests, over fewer heights and an archive that starts at the first,   *)
(* from peers that disconnect while no request is under way, or refreshes, *)
(* a hot store and an archive that starts anywhere and grows by one block  *)
(* at a time.                                                              *)
EXTENDS ColdServe, MCChain

CONSTANT ServeTop   \* bound: heights archived and asked for next to requests

VARIABLE side       \* "serve" or "refresh"

MCMainChain == [h \in 1 .. MaxHeight |-> <<h, "main">>]

MCInit == ServeInit /\ side \in {"serve", "refresh"}

AtRest == coldWork = <<>> /\ \A t \in Worker : step[t] = "idle"

ServeSide ==
    /\ hot' = hot
    /\ manifest'.first <= 1 /\ manifest'.last <= ServeTop
    /\ \A i \in DOMAIN coldWork' : coldWork'[i] <= ServeTop
    /\ \A t \in Refresher : step'[t] = "idle"
    /\ \A c \in Client : budgets'[c] = NoBudget => budgets[c] = NoBudget \/ AtRest

RefreshSide ==
    /\ budgets' = budgets /\ coldWork' = coldWork
    /\ \A s \in manifest'.segments : s.first = s.last

MCNext ==
    /\ ServeNext
    /\ IF side = "serve" THEN ServeSide ELSE RefreshSide
    /\ UNCHANGED side

MCServeSpec == MCInit /\ [][MCNext]_<<serveVars, side>> /\ ServeFairness(Worker)

============================================================================
