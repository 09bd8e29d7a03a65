------------------------- MODULE StatedRequirements -------------------------
(***************************************************************************)
(* What a buyer states must be bought, and the three readers of it: the    *)
(* buyer's own choice of a variant (benchmark/reference_executor.py), the  *)
(* gate a quote must pass before it may be paid                            *)
(* (checkout/intent_authorization.py) and the oracle that says whether the *)
(* catalog had anything to sell (benchmark/catalog.py).  All three compare *)
(* through constraints/rules.py, each on data it read at its own moment,   *)
(* and each folds the stated constraints in its own way.                   *)
(*                                                                         *)
(* Two buyers shop: the reference executor, whose steps are fixed, and an  *)
(* agent of the API, which authorizes what it likes, states its limits     *)
(* with its requirements, may state twice and quotes anything.  The        *)
(* merchant may move its catalog between any two steps, and revoke the     *)
(* mandate.  A product has one variant.                                    *)
(***************************************************************************)
EXTENDS ConstraintRules

CONSTANTS
    Shelf,       \* the variants, in catalog order (external_id)
    Catalogs,    \* set of [variants -> entry]
    Later,       \* the entries the merchant may give a variant later
    Briefs,      \* [hard, limit, currency, quantity]
    Mandates,    \* [limit, currency, ceiling]: what an agent may authorize; a ceiling of 0 is none
    SearchLimit, \* MAX_SEARCH_LIMIT
    MaxMoves     \* bound: how often the merchant moves its catalog

Variants == {Shelf[i] : i \in DOMAIN Shelf}

\* The shelf is a list and the search a page of it.
ASSUME ShelfAssumption == DOMAIN Shelf = 1..Len(Shelf) /\ Len(Shelf) \in Nat /\ SearchLimit \in Nat
ASSUME BriefsAssumption == \A b \in Briefs : IsBrief(b)
\* Money and stock are whole and not negative, in what is published and in what is authorized.
ASSUME CatalogsAssumption ==
    /\ \A c \in Catalogs : DOMAIN c = Variants /\ \A v \in Variants : Counted(c[v])
    /\ \A entry \in Later : Counted(entry)
ASSUME MandatesAssumption == \A m \in Mandates : m.limit \in Nat /\ m.ceiling \in Nat

NoMandate == [limit |-> 0, currency |-> "none", ceiling |-> 0, active |-> FALSE]
NoQuote == [variant |-> "none", quantity |-> 0]
NoAnswer == [outcome |-> "none", code |-> "none"]

VARIABLES
    shopper,      \* "reference" or "agent"
    brief,        \* the mission, or what the agent was told to buy
    catalog,      \* [Variants -> entry]
    moves,        \* how often it has moved
    step,         \* the call the buyer makes next
    listing,      \* the places of the hits of the search not opened yet
    candidates,   \* what the buyer found acceptable, with the price it read
    rejections,   \* why the rest was not
    mandate,
    requirements, \* the rules stored, or none
    quote,
    answer        \* what the buyer told its caller

requirementsVars == <<shopper, brief, catalog, moves, step, listing, candidates, rejections,
                      mandate, requirements, quote, answer>>

-----------------------------------------------------------------------------
(* Stating requirements (constraints/service.py).                          *)

\* Fault: a mandate that names no ceiling is within any.
WithinSilentMandate(c) ==
    CASE c.kind = "max_total_amount" -> mandate.limit <= c.amount
      [] c.kind = "max_quantity" -> mandate.ceiling <= c.quantity
      [] OTHER -> TRUE

\* _check_against_mandate: a mandate may not authorize more than the buyer says it may spend.
WithinMandate(c) ==
    CASE c.kind = "max_total_amount" -> mandate.limit <= c.amount
      [] c.kind = "max_quantity" -> mandate.ceiling # 0 /\ mandate.ceiling <= c.quantity
      [] OTHER -> TRUE

Reply(hard, limits) ==
    IF Malformed(hard) THEN "invalid"
    ELSE IF ~mandate.active THEN "mandate_revoked"
    ELSE IF requirements # {} THEN "constraints_already_exist"
    ELSE IF \E c \in limits : c.kind = "max_total_amount" /\ c.currency # mandate.currency
         THEN "mandate_currency_mismatch"
    ELSE IF \E c \in limits : ~WithinMandate(c) THEN "mandate_exceeds_intent_limit"
    ELSE "created"

-----------------------------------------------------------------------------
(* The three readers.                                                      *)

\* evaluate_intent_constraints: what the quoted line fails, of what was stored.  A checkout of the
\* set's own mandate and merchant, of one line.
CheckLine(spec, line) ==
    IF spec.kind = "allowed_category"
    THEN IF line.category = Unpublished THEN "unmet"
         ELSE Compare(spec.operator, spec.value, Text(line.category))
    ELSE Judge(spec.operator, spec.value, LookupAttribute(line.attributes, spec.key))

Violations == {rule \in requirements : CheckLine(rule, quote) # "met"}

\* authorize_checkout_execution: the mandate allows it, and there are requirements and all are met.
Authorized ==
    /\ mandate.active
    /\ quote.currency = mandate.currency
    /\ quote.price * quote.quantity <= mandate.limit
    /\ mandate.ceiling # 0 => quote.quantity <= mandate.ceiling
    /\ requirements # {}
    /\ Violations = {}

\* select: the cheapest, and of equals the first by sku, here the place on the shelf.
Place(v) == CHOOSE i \in DOMAIN Shelf : Shelf[i] = v
Select(found) ==
    CHOOSE c \in found : \A d \in found :
        \/ c.price < d.price
        \/ c.price = d.price /\ Place(c.variant) <= Place(d.variant)

-----------------------------------------------------------------------------
RequirementsInit ==
    /\ shopper \in {"reference", "agent"}
    /\ brief \in {b \in Briefs : WellStated(b)}
    /\ catalog \in Catalogs
    /\ moves = 0
    /\ step = IF shopper = "reference" THEN "search" ELSE "authorize"
    /\ listing = {} /\ candidates = {} /\ rejections = {}
    /\ mandate = NoMandate /\ requirements = {} /\ quote = NoQuote /\ answer = NoAnswer

\* What the executor tells its caller, and that it is over.
Report(outcome, code) ==
    /\ answer' = [outcome |-> outcome, code |-> code]
    /\ step' = "done"
Going(next) == step' = next /\ UNCHANGED answer

\* Browse: the listed products, up to the limit of a search.
Search ==
    /\ step = "search"
    /\ LET hits == {i \in DOMAIN Shelf : catalog[Shelf[i]].listed}
       IN  listing' = {i \in hits : Cardinality({j \in hits : j < i}) < SearchLimit}
    /\ Going("open")
    /\ UNCHANGED <<shopper, brief, catalog, moves, candidates, rejections, mandate, requirements, quote>>

\* Open the next hit.  What was withdrawn is not there to reject.
Open ==
    /\ step = "open"
    /\ \E i \in listing :
         LET v == Shelf[i]
             offered == catalog[v].listed /\ catalog[v].sold
             verdict == Assess(brief, catalog[v])
         IN  /\ \A j \in listing : i <= j
             /\ candidates' = IF offered /\ verdict = "ACCEPTED"
                              THEN candidates \cup {[variant |-> v, price |-> catalog[v].price * brief.quantity]}
                              ELSE candidates
             /\ rejections' = IF offered /\ verdict # "ACCEPTED" THEN rejections \cup {verdict} ELSE rejections
             /\ listing' = listing \ {i}
    /\ UNCHANGED <<shopper, brief, catalog, moves, step, mandate, requirements, quote, answer>>

\* _abstention: the most informative of what was wrong with everything.
Abstention ==
    CASE rejections = {} -> "NO_CANDIDATE_FOUND"
      [] "OVER_BUDGET" \in rejections -> "BUDGET_INSUFFICIENT"
      [] "OVER_BUDGET" \notin rejections /\ "UNSTATED" \in rejections -> "MERCHANT_DATA_INSUFFICIENT"
      [] rejections # {} /\ rejections \cap {"OVER_BUDGET", "UNSTATED"} = {} -> "NO_COMPLIANT_CANDIDATE"

BuyNothing ==
    /\ step = "open" /\ listing = {} /\ candidates = {}
    /\ Report("abstained", Abstention)
    /\ UNCHANGED <<shopper, brief, catalog, moves, listing, candidates, rejections, mandate, requirements, quote>>

\* The executor authorizes exactly what the brief says, an agent what it likes.
AuthorizeSpending ==
    /\ \/ /\ step = "open" /\ listing = {} /\ candidates # {}
          /\ mandate' = [limit |-> brief.limit, currency |-> brief.currency, ceiling |-> Ceiling(brief), active |-> TRUE]
       \/ /\ step = "authorize"
          /\ \E m \in Mandates : mandate' = [limit |-> m.limit, currency |-> m.currency, ceiling |-> m.ceiling,
                                            active |-> TRUE]
    /\ Going("state")
    /\ UNCHANGED <<shopper, brief, catalog, moves, listing, candidates, rejections, requirements, quote>>

\* The financial limits of a brief, which are checked against the mandate and not stored.
Limits(b) ==
    {[kind |-> "max_total_amount", amount |-> b.limit, currency |-> b.currency]}
    \cup {b.hard[i] : i \in {j \in DOMAIN b.hard : b.hard[j].kind = "max_quantity"}}

\* state_requirements, as the executor calls it: only what the mandate cannot say, and not at all
\* when that is nothing.  A request that is malformed raises past its caller.
StateRequirements ==
    /\ step = "state" /\ shopper = "reference"
    /\ LET reply == Reply(brief.hard, {})
       IN  IF Semantic(brief) = {} THEN Going("quote") /\ UNCHANGED requirements
           ELSE /\ requirements' = IF reply = "created" THEN SemanticSpecs(brief.hard) ELSE requirements
                /\ CASE reply = "created" -> Going("quote")
                     [] reply = "invalid" -> Report("raised", reply)
                     [] OTHER -> Report("error", reply)
    /\ UNCHANGED <<shopper, brief, catalog, moves, listing, candidates, rejections, mandate, quote>>

\* An agent states all it was told, or another brief: accepted once, and never replaced.
StateAsAgent ==
    /\ step \in {"state", "prepare"} /\ shopper = "agent"
    /\ \E b \in {brief} \cup {other \in Briefs : other.quantity = brief.quantity /\ requirements # {}} :
         /\ requirements' = IF Reply(b.hard, Limits(b)) = "created" THEN SemanticSpecs(b.hard) ELSE requirements
         /\ step' = IF step = "state" THEN "quote" ELSE step
    /\ UNCHANGED <<shopper, brief, catalog, moves, listing, candidates, rejections, mandate, quote, answer>>

\* create_checkout: what stops a quote, and the line as it is quoted.
Refusal(v, quantity) ==
    CASE ~catalog[v].sold -> "VARIANT_UNAVAILABLE"
      [] catalog[v].sold /\ ~catalog[v].listed -> "VARIANT_UNAVAILABLE"
      [] catalog[v].sold /\ catalog[v].listed /\ quantity > catalog[v].stock -> "OUT_OF_STOCK"
      [] OTHER -> "none"

Quote ==
    /\ step = "quote"
    /\ \E v \in Variants, quantity \in {brief.quantity, brief.quantity + 1} :
         /\ shopper = "reference" => v = Select(candidates).variant /\ quantity = brief.quantity
         /\ LET refusal == Refusal(v, quantity)
            IN  IF refusal # "none" THEN Report("refused", refusal) /\ UNCHANGED quote
                ELSE /\ quote' = [variant |-> v, quantity |-> quantity, price |-> catalog[v].price,
                                  currency |-> catalog[v].currency, category |-> catalog[v].category,
                                  attributes |-> catalog[v].attributes]
                     /\ Going("prepare")
    /\ UNCHANGED <<shopper, brief, catalog, moves, listing, candidates, rejections, mandate, requirements>>

\* prepare_checkout: the gates, then the stock.
Prepare ==
    /\ step = "prepare"
    /\ CASE ~Authorized -> Report("denied", "NOT_AUTHORIZED")
         [] Authorized /\ catalog[quote.variant].stock < quote.quantity -> Report("refused", "OUT_OF_STOCK")
         [] OTHER -> Going("pay")
    /\ UNCHANGED <<shopper, brief, catalog, moves, listing, candidates, rejections, mandate, requirements, quote>>

\* complete_checkout judges again; a refusal that is not about authority is the harness's own.
Pay ==
    /\ step = "pay"
    /\ \/ Authorized /\ Report("paid", "none")
       \/ ~Authorized /\ Report("denied", "NOT_AUTHORIZED")
       \/ Report("error", "RESERVATION_LAPSED")
    /\ UNCHANGED <<shopper, brief, catalog, moves, listing, candidates, rejections, mandate, requirements, quote>>

\* The merchant changes what it publishes, or what is left of it.
Move ==
    /\ moves < MaxMoves /\ step # "done"
    /\ \E v \in Variants, entry \in Later :
         entry # catalog[v] /\ catalog' = [catalog EXCEPT ![v] = entry]
    /\ moves' = moves + 1
    /\ UNCHANGED <<shopper, brief, step, listing, candidates, rejections, mandate, requirements, quote, answer>>

Revoke ==
    /\ mandate.active /\ step # "done"
    /\ mandate' = [mandate EXCEPT !.active = FALSE]
    /\ UNCHANGED <<shopper, brief, catalog, moves, step, listing, candidates, rejections, requirements, quote, answer>>

RequirementsNext ==
    \/ Search \/ Open \/ BuyNothing \/ AuthorizeSpending \/ StateRequirements \/ StateAsAgent
    \/ Quote \/ Prepare \/ Pay \/ Move \/ Revoke

RequirementsSpec == RequirementsInit /\ [][RequirementsNext]_requirementsVars

-----------------------------------------------------------------------------
\* What a line says of a constraint, read without any of the code above: it publishes a value of
\* the stated kind under that name, and the value is what was asked for.
AskedFor(c, v) ==
    /\ \A w \in c.value : v.type = w.type
    /\ CASE c.operator \in {"EQ", "IN"} -> \E w \in c.value : Same(v, w)
         [] c.operator = "NE" -> \A w \in c.value : ~Same(v, w)
         [] c.operator = "GTE" -> \A w \in c.value : v.of >= w.of
         [] c.operator = "LTE" -> \A w \in c.value : v.of <= w.of
SaysSo(c, line) ==
    CASE c.kind = "required_attribute" ->
           \E n \in DOMAIN line.attributes : Normal[n] = Normal[c.key] /\ AskedFor(c, line.attributes[n])
      [] c.kind = "allowed_category" ->
           /\ line.category # Unpublished
           /\ \E i \in Categories(brief.hard) : Normal[brief.hard[i].category] = Normal[line.category]
      [] c.kind = "max_quantity" -> line.quantity <= c.quantity

\* Nothing is paid for that the buyer did not state: not over its limits, whoever authorized more,
\* not on a value the merchant never published or published as something else, and not when it
\* stated nothing (constraints/rules.py:128, constraints/service.py:258,
\* checkout/execution_authorization.py:128).
BoughtAsStated ==
    answer.outcome = "paid" =>
        /\ quote.price * quote.quantity <= brief.limit /\ quote.currency = brief.currency
        /\ Semantic(brief) # {}
        /\ \A i \in DOMAIN brief.hard : SaysSo(brief.hard[i], quote)

\* The catalog has what the brief asks for; it would, if what the brief may cost were no question.
Sells == \E v \in Variants : Qualifies(brief, catalog[v])
SellsForMore ==
    \E v \in Variants :
        Qualifies([brief EXCEPT !.limit = catalog[v].price * brief.quantity], catalog[v])

\* While nothing moves, the buyer, the gate and the oracle agree: the executor is denied only what
\* it stated no requirement for, it abstains exactly when the catalog had nothing for it, and it
\* names money as the reason exactly when more money would have bought something
\* (benchmark/reference_executor.py:251, 606; benchmark/catalog.py:131).
ReadersAgree ==
    (shopper = "reference" /\ moves = 0 /\ answer.outcome # "none") =>
        /\ answer.outcome = "denied" /\ mandate.active => Semantic(brief) = {}
        /\ answer.outcome = "raised" => Sells
        /\ (answer.outcome = "abstained") = ~Sells
        /\ answer.code = "BUDGET_INSUFFICIENT" => SellsForMore
        /\ answer.outcome = "abstained" /\ SellsForMore => answer.code = "BUDGET_INSUFFICIENT"

-----------------------------------------------------------------------------
(* The inductive invariants the proofs use.                                *)

Steps == {"search", "open", "authorize", "state", "quote", "prepare", "pay", "done"}

\* The mandate stays under the limits of the brief.
Bounded ==
    /\ mandate.limit <= brief.limit /\ mandate.currency = brief.currency
    /\ \A i \in DOMAIN brief.hard : brief.hard[i].kind = "max_quantity" =>
         mandate.ceiling # 0 /\ mandate.ceiling <= brief.hard[i].quantity

\* What the next steps rely on.  A brief is turned into rules once, while the mandate is within it;
\* before that the executor authorized what the brief says.
StatedInv ==
    /\ brief \in Briefs /\ WellStated(brief) /\ step \in Steps
    /\ DOMAIN mandate = {"limit", "currency", "ceiling", "active"}
    /\ mandate.limit \in Nat /\ mandate.ceiling \in Nat
    /\ DOMAIN catalog = Variants /\ \A v \in Variants : Counted(catalog[v])
    /\ step \in {"prepare", "pay"} => quote.price \in Nat /\ quote.quantity \in Nat
    /\ step \in {"search", "open", "authorize"} => requirements = {}
    /\ step \in {"search", "open"} => shopper = "reference"
    /\ step = "authorize" => shopper = "agent"
    /\ requirements # {} => requirements = SemanticSpecs(brief.hard) /\ Bounded
    /\ step = "state" /\ shopper = "reference" => Bounded
    /\ step # "done" => answer = NoAnswer
    /\ BoughtAsStated

(* What the executor knows of the shelf while nothing moves.               *)
Stocked(i) == catalog[Shelf[i]]
Hits == {i \in DOMAIN Shelf : Stocked(i).listed}
Found(i) == [variant |-> Shelf[i], price |-> Stocked(i).price * brief.quantity]
\* The places a buyer may open and take.
Takes(i) == Stocked(i).sold /\ Assess(brief, Stocked(i)) = "ACCEPTED"
LineOf(i) ==
    [variant |-> Shelf[i], quantity |-> brief.quantity, price |-> Stocked(i).price, currency |-> Stocked(i).currency,
     category |-> Stocked(i).category, attributes |-> Stocked(i).attributes]

\* What the buyer knows of the hits it opened is what they are.
Browsed ==
    /\ listing \subseteq Hits
    /\ \A c \in candidates : \E i \in Hits \ listing : Takes(i) /\ c = Found(i)
    /\ \A r \in rejections : \E i \in Hits \ listing : Stocked(i).sold /\ r = Assess(brief, Stocked(i)) /\ r # "ACCEPTED"
    /\ \A i \in Hits \ listing : Stocked(i).sold =>
         IF Assess(brief, Stocked(i)) = "ACCEPTED" THEN Found(i) \in candidates ELSE Assess(brief, Stocked(i)) \in rejections

\* While nothing moves, what the executor found, authorized, stated and quoted is still so.
Undisturbed ==
    /\ step = "search" => candidates = {} /\ rejections = {}
    /\ step # "search" => Browsed
    /\ step \in {"state", "quote", "prepare", "pay"} =>
         /\ listing = {} /\ candidates # {}
         /\ mandate.limit = brief.limit /\ mandate.currency = brief.currency /\ mandate.ceiling = Ceiling(brief)
    /\ step \in {"quote", "prepare", "pay"} /\ Semantic(brief) # {} => requirements = SemanticSpecs(brief.hard)
    /\ step \in {"prepare", "pay"} => \E i \in Hits : Takes(i) /\ quote = LineOf(i)

StillInv ==
    /\ StatedInv /\ moves \in Nat /\ ReadersAgree
    /\ shopper = "reference" /\ moves = 0 => Undisturbed

=============================================================================
