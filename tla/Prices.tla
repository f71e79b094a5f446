------------------------------- MODULE Prices -------------------------------
(***************************************************************************)
(* What one user pays for invocations of one chute: PriceOverride.get and  *)
(* InvocationDiscount.get, which keep their values under the same memcache *)
(* key, idiscount:{user}:{chute}, and the prices computed with them.       *)
(***************************************************************************)
EXTENDS Naturals

CONSTANTS Charges,        \* invocations charged at the same time
          DiscountRows,   \* the discounts of the user's rows, for the chute and for "*"
          Overrides,      \* the price overrides of user and chute; NoValue is none
          MaxRevisions,   \* bound: changes of the discounts
          Quoted,         \* the price of the invocation without discount
          NoValue

ASSUME PriceAssumption ==
    /\ MaxRevisions \in Nat /\ Quoted \in Nat
    /\ DiscountRows \subseteq [{"chute", "*"} -> (1 .. 100) \cup {NoValue}]
    /\ \A o \in Overrides \ {NoValue} : o.applies \in BOOLEAN /\ o.price \in Nat

VARIABLES discountRow, \* invocation_discounts, in percent
          override,    \* the row of price_overrides, and whether it has a price
                       \* for what the chute is
          priceCache,  \* the entry: a discount or an override
          charge,      \* the prices being computed
          revising,    \* admin_discounts_change has purged and not committed
          revisions    \* revisions so far

priceVars == <<discountRow, override, priceCache, charge, revising, revisions>>

Discount == IF discountRow["chute"] # NoValue THEN discountRow["chute"]
            ELSE IF discountRow["*"] # NoValue THEN discountRow["*"] ELSE 0
Entry(of, value) == [of |-> of, value |-> value]
NoEntry == Entry("nothing", NoValue)
NoCharge == [pc |-> "idle", found |-> NoValue, price |-> NoValue]

PricesInit == /\ discountRow \in DiscountRows
              /\ override \in Overrides
              /\ priceCache = NoEntry
              /\ charge = [c \in Charges |-> NoCharge]
              /\ revising = FALSE
              /\ revisions = 0

\* admin_discounts_change: the entry of the chute is deleted if the chute had
\* a row, before the commit.
PurgesDiscounts == /\ ~revising /\ revisions < MaxRevisions
                   /\ revising' = TRUE
                   /\ priceCache' = IF discountRow["chute"] # NoValue THEN NoEntry ELSE priceCache
                   /\ UNCHANGED <<discountRow, override, charge, revisions>>

CommitsDiscounts == /\ revising
                    /\ discountRow' \in DiscountRows
                    /\ revising' = FALSE
                    /\ revisions' = revisions + 1
                    /\ UNCHANGED <<override, priceCache, charge>>

PriceExpires == /\ priceCache' = NoEntry
                /\ UNCHANGED <<discountRow, override, charge, revising, revisions>>

-----------------------------------------------------------------------------
\* An entry of the other kind does not parse, and is deleted.
Parses(of) == priceCache.of = of

\* What is charged with an override or with a discount, none of them being 0.
Price(o, discount) == IF o # NoValue /\ o.applies THEN o.price
                      ELSE (Quoted * (100 - discount)) \div 100

\* An override that applies is the price, and any other leads to the discount;
\* if any override were the end of it:
OverriddenAnyhow(c, o) ==
    charge' = [charge EXCEPT ![c] = IF o # NoValue
                                      THEN [NoCharge EXCEPT !.pc = "priced", !.price = Price(o, 0)]
                                      ELSE [NoCharge EXCEPT !.pc = "discount"]]
Overridden(c, o) ==
    charge' = [charge EXCEPT ![c] = IF o # NoValue /\ o.applies
                                      THEN [NoCharge EXCEPT !.pc = "priced", !.price = Price(o, 0)]
                                      ELSE [NoCharge EXCEPT !.pc = "discount"]]

LooksForOverride(c) ==
    /\ charge[c].pc = "idle"
    /\ IF Parses("override")
         THEN Overridden(c, priceCache.value) /\ UNCHANGED priceCache
         ELSE /\ charge' = [charge EXCEPT ![c] = [NoCharge EXCEPT !.pc = "read override"]]
              /\ priceCache' = NoEntry
    /\ UNCHANGED <<discountRow, override, revising, revisions>>

\* That there is none is not cached.
ReadsOverride(c) ==
    /\ charge[c].pc = "read override"
    /\ IF override = NoValue THEN Overridden(c, NoValue)
       ELSE charge' = [charge EXCEPT ![c].pc = "cache override"]
    /\ UNCHANGED <<discountRow, override, priceCache, revising, revisions>>

CachesOverride(c) ==
    /\ charge[c].pc = "cache override"
    /\ priceCache' = Entry("override", override)
    /\ Overridden(c, override)
    /\ UNCHANGED <<discountRow, override, revising, revisions>>

Discounted(c, discount) ==
    charge' = [charge EXCEPT ![c] = [NoCharge EXCEPT !.pc = "priced", !.price = Price(NoValue, discount)]]

LooksForDiscount(c) ==
    /\ charge[c].pc = "discount"
    /\ IF Parses("discount")
         THEN Discounted(c, priceCache.value) /\ UNCHANGED priceCache
         ELSE /\ charge' = [charge EXCEPT ![c].pc = "read discount"]
              /\ priceCache' = NoEntry
    /\ UNCHANGED <<discountRow, override, revising, revisions>>

ReadsDiscount(c) ==
    /\ charge[c].pc = "read discount"
    /\ charge' = [charge EXCEPT ![c].found = Discount, ![c].pc = "cache discount"]
    /\ UNCHANGED <<discountRow, override, priceCache, revising, revisions>>

CachesDiscount(c) ==
    /\ charge[c].pc = "cache discount"
    /\ priceCache' = Entry("discount", charge[c].found)
    /\ Discounted(c, charge[c].found)
    /\ UNCHANGED <<discountRow, override, revising, revisions>>

\* The usage is queued at that price.
QueuesCharge(c) ==
    /\ charge[c].pc = "priced"
    /\ charge' = [charge EXCEPT ![c] = NoCharge]
    /\ UNCHANGED <<discountRow, override, priceCache, revising, revisions>>

ChargeNext(c) == \/ ReadsOverride(c) \/ CachesOverride(c) \/ LooksForDiscount(c)
                 \/ ReadsDiscount(c) \/ CachesDiscount(c) \/ QueuesCharge(c)
PricesNext == \/ PurgesDiscounts \/ CommitsDiscounts \/ PriceExpires
              \/ \E c \in Charges : LooksForOverride(c) \/ ChargeNext(c)

\* Entries expire, and an invocation once begun is charged.
PricesFairness == /\ WF_priceVars(PriceExpires)
                  /\ \A c \in Charges : WF_priceVars(ChargeNext(c))
PricesSpec == PricesInit /\ [][PricesNext]_priceVars /\ PricesFairness

-----------------------------------------------------------------------------
Entries == [of : {"nothing"}, value : {NoValue}] \cup [of : {"discount"}, value : 0 .. 100]
               \cup [of : {"override"}, value : Overrides \ {NoValue}]
PricesTypeOK ==
    /\ discountRow \in DiscountRows
    /\ override \in Overrides
    /\ priceCache \in Entries
    /\ charge \in [Charges -> [pc : {"idle", "read override", "cache override", "discount",
                                     "read discount", "cache discount", "priced"},
                               found : (0 .. 100) \cup {NoValue}, price : Nat \cup {NoValue}]]
    /\ revising \in BOOLEAN
    /\ revisions \in 0 .. MaxRevisions

\* InvocationDiscount.get, PriceOverride.get (user/schemas.py:237, 302): though
\* both share a key and delete one another's entries, the prices are in the end
\* those of the rows, an override before a discount.
PricesFollow ==
    <>[](\A c \in Charges : charge[c].pc = "priced" => charge[c].price = Price(override, Discount))
=============================================================================
