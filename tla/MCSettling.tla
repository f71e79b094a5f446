----------------------------- MODULE MCSettling -----------------------------
(***************************************************************************)
(* Services that share no state and settle under fairness, one of them at  *)
(* a time: whichever is picked at first takes its steps, and nothing is    *)
(* enabled by which the others would have to.                              *)
(***************************************************************************)
EXTENDS Images, Staking, Quotas, Prices

VARIABLE part

SettlingInit == /\ part \in {"images", "staking", "quotas", "prices"}
                /\ ImagesInit /\ StakingInit /\ QuotasInit /\ PricesInit
                /\ part # "quotas" => quotaRow = [k \in {"chute", "*"} |-> None]
                /\ part # "prices" => /\ discountRow = [k \in {"chute", "*"} |-> NoValue]
                                      /\ override = NoValue

Stays(own) == /\ part = own
              /\ own # "images" => UNCHANGED imageVars
              /\ own # "staking" => UNCHANGED stakeVars
              /\ own # "quotas" => UNCHANGED quotaVars
              /\ own # "prices" => UNCHANGED priceVars
              /\ UNCHANGED part

\* Requests are alike, and readers are, so they come in order.  What is said of
\* an image is said up to its first trouble, where its run ends.
InOrder == /\ request["r2"].pc # "new" => request["r1"].pc # "new"
           /\ reader.calls["l2"] # "out" => reader.calls["l1"] # "out"

SettlingNext == \/ Stays("images") /\ ~trouble /\ ImagesNext /\ InOrder'
                \/ Stays("staking") /\ StakingNext
                \/ Stays("quotas") /\ QuotasNext
                \/ Stays("prices") /\ PricesNext

SettlingSpec ==
    /\ SettlingInit
    /\ [][SettlingNext]_<<part, imageVars, stakeVars, quotaVars, priceVars>>
    /\ ImagesFairness /\ StakingFairness /\ QuotasFairness /\ PricesFairness

MCRows == {[k \in {"chute", "*"} |-> IF k = "chute" THEN c ELSE s] :
              c \in {None, 1}, s \in {None, 0}}
MCDiscounts == {[k \in {"chute", "*"} |-> IF k = "chute" THEN c ELSE s] :
                   c \in {NoValue, 50}, s \in {NoValue, 25}}
MCOverrides == {NoValue, [applies |-> TRUE, price |-> 7], [applies |-> FALSE, price |-> 0]}

\* The types of the part picked.
SettlingTypeOK == /\ part = "images" => ImagesTypeOK
                  /\ part = "staking" => StakingTypeOK
                  /\ part = "quotas" => QuotasTypeOK
                  /\ part = "prices" => PricesTypeOK

\* admin_quotas_change, admin_discounts_change (user/router.py:211, 273): both
\* the quotas and the prices looked up follow the rows in the end.
LookupsFollow == CachesFollow /\ PricesFollow
=============================================================================
