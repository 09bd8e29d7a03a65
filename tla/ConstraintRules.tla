--------------------------- MODULE ConstraintRules ---------------------------
(***************************************************************************)
(* What a buyer may require of a purchase and when data says that it is    *)
(* met: values and their comparison (constraints/rules.py), the rules a    *)
(* statement becomes (constraints/service.py), what the reference buyer    *)
(* asks of a candidate (benchmark/reference_executor.py) and what the      *)
(* oracle asks of the catalog (benchmark/catalog.py).                      *)
(*                                                                         *)
(* A value is [type, of].  A constraint is one of                          *)
(*   [kind |-> "required_attribute", key, operator, value],                *)
(*   [kind |-> "allowed_category", category],                              *)
(*   [kind |-> "max_quantity", quantity],                                  *)
(*   [kind |-> "max_total_amount", amount, currency],                      *)
(* and the value of the first is a set: the members of a list, or the one  *)
(* scalar.  A brief is [hard, limit, currency, quantity], its constraints  *)
(* in the order they were stated; an entry of a catalog is                 *)
(* [listed, sold, category, attributes, price, currency, stock].           *)
(***************************************************************************)
EXTENDS Integers, Sequences, FiniteSets

CONSTANTS
    Normal,      \* normalize_text, over every text in use
    MaxMembers   \* MAX_VALUE_MEMBERS

Unpublished == "unpublished"
Financial == {"max_total_amount", "max_quantity"}

-----------------------------------------------------------------------------
(* Values and comparisons (constraints/rules.py).                          *)

\* A scalar, or a list of them, that a constraint may hold.
ValidConstraint(c) ==
    c.kind = "required_attribute" =>
        /\ Cardinality(c.value) \in 1..MaxMembers
        /\ \A v, w \in c.value : v.type # "other" /\ v.type = w.type
        /\ c.operator # "IN" => Cardinality(c.value) = 1
        /\ c.operator \in {"GTE", "LTE"} => \A v \in c.value : v.type = "number"

\* The value the merchant published under a name: the exact one, or the only one that differs in
\* case; of two that do, neither.
LookupAttribute(attributes, key) ==
    LET alike == {n \in DOMAIN attributes : Normal[n] = Normal[key]}
    IN  IF key \in DOMAIN attributes THEN {attributes[key]}
        ELSE {attributes[n] : n \in {m \in alike : alike = {m}}}

Same(v, w) == IF v.type = "string" THEN Normal[v.of] = Normal[w.of] ELSE v.of = w.of

\* compare: a value of another type is not unequal, it cannot be read.
Compare(operator, expected, actual) ==
    IF actual.type = "other" \/ \E v \in expected : v.type # actual.type THEN "unreadable"
    ELSE IF \/ operator \in {"EQ", "IN"} /\ \E v \in expected : Same(v, actual)
            \/ operator = "NE" /\ \A v \in expected : ~Same(v, actual)
            \/ operator = "GTE" /\ \A v \in expected : actual.of >= v.of
            \/ operator = "LTE" /\ \A v \in expected : actual.of <= v.of
         THEN "met" ELSE "unmet"

Text(t) == [type |-> "string", of |-> t]
Judge(operator, expected, found) ==
    IF found = {} THEN "missing" ELSE Compare(operator, expected, CHOOSE v \in found : TRUE)

-----------------------------------------------------------------------------
(* A statement and its rules.                                              *)

\* The places of the constraints of each kind in what was stated.
Requiring(hard) == {i \in DOMAIN hard : hard[i].kind = "required_attribute"}
Categories(hard) == {i \in DOMAIN hard : hard[i].kind = "allowed_category"}
Semantic(b) == {i \in DOMAIN b.hard : b.hard[i].kind \notin Financial}

\* The quantity ceiling of a brief: none is no limit.
Ceiling(b) ==
    LET stated == {i \in DOMAIN b.hard : b.hard[i].kind = "max_quantity"}
    IN  IF stated = {} THEN 0 ELSE b.hard[CHOOSE i \in stated : TRUE].quantity

\* What a brief may be: constraints of valid values, one ceiling at most, and not under what it wants.
WellStated(b) ==
    /\ \A i \in DOMAIN b.hard : ValidConstraint(b.hard[i])
    /\ \A i, j \in DOMAIN b.hard : b.hard[i].kind = "max_quantity" /\ b.hard[j].kind = "max_quantity" => i = j
    /\ Ceiling(b) # 0 => b.quantity <= Ceiling(b)

\* The categories stated, without those that repeat an earlier one in another case.
Fresh(hard) ==
    {i \in Categories(hard) : \A j \in Categories(hard) :
        j < i => Normal[hard[j].category] # Normal[hard[i].category]}

\* semantic_specs: every category the buyer would accept folds into one rule.
SemanticSpecs(hard) ==
    {hard[i] : i \in Requiring(hard)}
    \cup IF Categories(hard) = {} THEN {}
         ELSE {[kind |-> "allowed_category", operator |-> "IN", value |-> {Text(hard[i].category) : i \in Fresh(hard)}]}

\* NewIntentConstraints: nothing to enforce, or two rules of one kind about one attribute.
Malformed(hard) ==
    \/ SemanticSpecs(hard) = {}
    \/ \E i, j \in Requiring(hard) :
         i # j /\ Normal[hard[i].key] = Normal[hard[j].key] /\ hard[i].operator = hard[j].operator

\* A brief wants something and bounds what it may cost, and each of its constraints is of a kind a
\* buyer may state; prices and stock are whole and not negative.
IsBrief(b) ==
    /\ DOMAIN b = {"hard", "limit", "currency", "quantity"} /\ DOMAIN b.hard \subseteq Nat
    /\ b.limit \in Nat /\ b.quantity \in Nat \ {0}
    /\ \A i \in DOMAIN b.hard :
         \/ b.hard[i].kind = "allowed_category"
         \/ b.hard[i].kind = "required_attribute" /\ b.hard[i].operator \in {"EQ", "NE", "IN", "GTE", "LTE"}
         \/ b.hard[i].kind = "max_quantity" /\ b.hard[i].quantity \in Nat \ {0}
Counted(entry) == entry.price \in Nat /\ entry.stock \in Nat

-----------------------------------------------------------------------------
(* The buyer's question and the oracle's.                                  *)

Allowed(hard) == {Text(hard[i].category) : i \in Categories(hard)}

\* What the categories stated make of an entry, and what one required attribute makes of it.
OfCategory(hard, entry) ==
    IF Categories(hard) = {} THEN "met"
    ELSE IF entry.category = Unpublished THEN "missing"
    ELSE Compare("IN", Allowed(hard), Text(entry.category))
OfAttribute(c, entry) == Judge(c.operator, c.value, LookupAttribute(entry.attributes, c.key))

\* The category, then each attribute, as the executor asks them: the first that is not met.
FirstUnmet(hard, entry) ==
    LET failing == {i \in Requiring(hard) : OfAttribute(hard[i], entry) # "met"}
    IN  IF OfCategory(hard, entry) # "met" THEN OfCategory(hard, entry)
        ELSE IF failing = {} THEN "met"
        ELSE OfAttribute(hard[CHOOSE i \in failing : \A j \in failing : i <= j], entry)

\* Fault: the price is asked before the stock.
AssessPriceFirst(b, entry) ==
    LET unmet == FirstUnmet(b.hard, entry)
    IN  CASE entry.currency # b.currency -> "WRONG_CURRENCY"
          [] entry.currency = b.currency /\ entry.price * b.quantity > b.limit -> "OVER_BUDGET"
          [] entry.currency = b.currency /\ entry.price * b.quantity <= b.limit ->
               IF unmet \in {"missing", "unreadable"} THEN "UNSTATED"
               ELSE IF unmet = "unmet" THEN "MISMATCH"
               ELSE IF entry.stock < b.quantity THEN "OUT_OF_STOCK" ELSE "ACCEPTED"

\* assess
Assess(b, entry) ==
    LET unmet == FirstUnmet(b.hard, entry)
    IN  IF entry.currency # b.currency THEN "WRONG_CURRENCY"
        ELSE IF unmet \in {"missing", "unreadable"} THEN "UNSTATED"
        ELSE IF unmet = "unmet" THEN "MISMATCH"
        ELSE IF entry.stock < b.quantity THEN "OUT_OF_STOCK"
        ELSE IF entry.price * b.quantity > b.limit THEN "OVER_BUDGET" ELSE "ACCEPTED"

\* satisfies, of the oracle
Qualifies(b, entry) ==
    /\ entry.listed /\ entry.sold /\ entry.stock >= b.quantity
    /\ entry.currency = b.currency /\ entry.price * b.quantity <= b.limit
    /\ Categories(b.hard) # {} =>
         entry.category # Unpublished /\ Compare("IN", Allowed(b.hard), Text(entry.category)) = "met"
    /\ \A i \in Requiring(b.hard) : OfAttribute(b.hard[i], entry) = "met"

=============================================================================
