------------------------- MODULE AtomicFundingCache -------------------------
(***************************************************************************)
(* What FundingCache promises its users: an update replaces both fields of *)
(* a symbol's entry at once, and a get returns an entry as it is at one    *)
(* moment between its call and its return.                                 *)
(***************************************************************************)
CONSTANTS Symbols, Infos, Pricers,
          NoInfo   \* FundingInfo{}

VARIABLES cache,   \* symbol -> FundingInfo
          answer   \* pricer -> what its last get returned

AtomicInit == cache = [s \in Symbols |-> NoInfo] /\ answer = [p \in Pricers |-> NoInfo]

update(s, info) == cache' = [cache EXCEPT ![s] = info] /\ UNCHANGED answer

get(p, s) == answer' = [answer EXCEPT ![p] = cache[s]] /\ UNCHANGED cache

AtomicNext == \E s \in Symbols : \/ \E info \in Infos : update(s, info)
                                 \/ \E p \in Pricers : get(p, s)

AtomicSpec == AtomicInit /\ [][AtomicNext]_<<cache, answer>>
=============================================================================
