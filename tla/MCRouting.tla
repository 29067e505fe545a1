----------------------------- MODULE MCRouting ------------------------------
(* Small instances of Routing for TLC, and Router's choice against its      *)
(* reference definition.                                                    *)
EXTENDS Routing, TLC

Symmetry == Permutations(Runs) \cup Permutations(Procs)

MCFamily == [p \in Providers |-> IF p = 1 THEN "anthropic" ELSE "openai"]

Requests == [mode : Modes, risk : Risks, family : {"none", "anthropic"}]

(* Usable candidates with room.                                             *)
Cases == [registered : {TRUE}, status : {"healthy", "degraded"}, auth : {"authenticated"},
          exhausted : {FALSE}, failures : {0, 3}, active : {0}, limit : {1},
          pressure : Pressures, reset : {"hour"}, quality : Qualities, retries : {0},
          latency : {NoLatency}, family : {"anthropic", "openai"}]

(* ModelRouter.route takes no provider that another one dominates, and of   *)
(* two alike it takes for a review the one of another family.               *)
ASSUME RouterFollowsReference ==
    \A request \in Requests, c \in Cases, d \in Cases :
        LET p == Selected(request, <<c, d>>, {})
        IN  /\ Dominates(c, d) => p = 1
            /\ Dominates(d, c) => p = 2
            /\ request.family # "none" /\ [c EXCEPT !.family = d.family] = d =>
                   p = (IF c.family = request.family /\ d.family # c.family THEN 2 ELSE 1)

(* observedStats: a better outcome never makes a quality worse, and only    *)
(* the last twenty count.                                                   *)
ASSUME QualityIsMonotone ==
    /\ \A n \in 1..4 : \A entries \in [1..n -> Qualities], i \in 1..n, q \in Qualities :
           Rank.quality[q] >= Rank.quality[entries[i]] =>
               Rank.quality[ObservedQuality([entries EXCEPT ![i] = q])]
                   >= Rank.quality[ObservedQuality(entries)]
    /\ ObservedQuality(<<"poor">> \o [i \in 1..20 |-> "excellent"]) = "excellent"
=============================================================================
