---------------------------- MODULE GeneratedSuite ----------------------------
(***************************************************************************)
(* The first benchmark of a merchant, built from what the merchant         *)
(* published: the source is projected into the isolated catalog of the     *)
(* evaluation (workspace/projection.py), and the missions and their answer *)
(* key are computed from that catalog (workspace/generation.py).           *)
(*                                                                         *)
(* A line of the source is one variant with the words of its product:      *)
(* [sku, category, price, currency, quantity, availability, metadata,      *)
(* shown, flaw].  A quantity of -1 was not published; `shown` holds what   *)
(* can be read in the title, the prose, the category and the label; a flaw *)
(* is text too long for a column or text that addresses its reader.        *)
(***************************************************************************)
EXTENDS ConstraintRules

CONSTANTS
    Sources,         \* set of sequences of lines
    Configurations,  \* [units, budget]: assumed stock and mission budget
    Groups,          \* every [category, currency] in use, in sorted order
    Facts,           \* every [key, value] in use that a constraint may state, in sorted order
    Provenance,      \* the keys under IMPORT_PROVENANCE_PREFIX
    MaxLines,        \* MAX_TOTAL_VARIANTS
    MultiUnit,       \* MULTI_UNIT_QUANTITY
    MaxShortage,     \* MAX_STOCK_ABSTENTION_QUANTITY
    MaxPerFamily     \* MAX_MISSIONS_PER_FAMILY

\* A source is a list of lines of whole prices; what was published of its depth is a count.
ASSUME SourcesAssumption ==
    \A s \in Sources :
        /\ Len(s) \in Nat /\ DOMAIN s = 1..Len(s)
        /\ \A i \in DOMAIN s : s[i].price \in Nat /\ s[i].quantity \in Nat \cup {-1}
ASSUME ConfigurationsAssumption == \A c \in Configurations : c.units \in Nat /\ c.budget \in Nat
ASSUME VocabularyAssumption ==
    /\ Len(Groups) \in Nat /\ DOMAIN Groups = 1..Len(Groups)
    /\ Len(Facts) \in Nat /\ DOMAIN Facts = 1..Len(Facts)
ASSUME SuiteLimitsAssumption ==
    MultiUnit \in Nat \ {0} /\ MaxPerFamily \in Nat \ {0} /\ MaxMembers \in Nat \ {0}

VARIABLES
    source, choice,
    stage,      \* "given", "projected", "built" or the code of a refusal
    entries,    \* the evaluation catalog
    omitted,    \* the fields it does not carry
    simulated,  \* the lines whose depth was assumed
    suite       \* the missions

suiteVars == <<source, choice, stage, entries, omitted, simulated, suite>>

Least(S) == CHOOSE x \in S : \A y \in S : x <= y
Greatest(S) == CHOOSE x \in S : \A y \in S : y <= x

-----------------------------------------------------------------------------
(* Projection.                                                             *)

Unsaid(line) == line.quantity = -1 /\ line.availability = "UNKNOWN"

\* What refuses one line: the product it belongs to first, then its stock, then its own text.
LineBlocker(line) ==
    CASE line.flaw = "product_too_long" -> "source_field_too_long"
      [] line.flaw = "product_addresses" -> "source_addresses_the_reader"
      [] line.flaw \notin {"product_too_long", "product_addresses"} /\ Unsaid(line) -> "source_availability_unknown"
      [] line.flaw = "too_long" /\ ~Unsaid(line) -> "source_field_too_long"
      [] line.flaw = "addresses" /\ ~Unsaid(line) -> "source_addresses_the_reader"
      [] OTHER -> "none"

Carried(line) == {k \in DOMAIN line.metadata : k \notin Provenance /\ line.metadata[k].type # "nested"}

Project(line) ==
    [sku |-> line.sku, listed |-> TRUE, sold |-> TRUE, category |-> line.category,
     attributes |-> [k \in Carried(line) |-> line.metadata[k]],
     price |-> line.price, currency |-> line.currency,
     stock |-> IF line.quantity = -1 THEN choice.units ELSE line.quantity,
     shown |-> line.shown]

\* The first thing that refuses the source; an empty shelf is seen last.
Blocker ==
    LET flawed == {i \in DOMAIN source : LineBlocker(source[i]) # "none"}
    IN  IF Len(source) > MaxLines THEN "source_too_large"
        ELSE IF flawed # {} THEN LineBlocker(source[Least(flawed)])
        ELSE IF \A i \in DOMAIN source : Project(source[i]).stock < 1 THEN "no_purchasable_variant"
        ELSE "none"

-----------------------------------------------------------------------------
(* The families of missions.  Each proposes, for one category and          *)
(* currency, what its briefs would ask: the quantity, the limit, and the   *)
(* facts, by their places, that one brief each is about; 0 is no fact.     *)

Shop == {entries[i] : i \in DOMAIN entries}
Every(g) == {e \in Shop : e.category = g.category /\ e.currency = g.currency}
Buyable(g) == {e \in Every(g) : e.stock >= 1}
PricesOf(lines) == {e.price : e \in lines}
HasCategory(g) == g.category # Unpublished

NoProposal == [about |-> {}, quantity |-> 1, limit |-> 0]
\* Nothing is proposed where there is no money to state.
Proposal(about, quantity, limit) ==
    [about |-> IF limit > 0 THEN about ELSE {}, quantity |-> quantity, limit |-> limit]

CategoryPurchases(g) ==
    IF HasCategory(g) /\ Buyable(g) # {} THEN Proposal({0}, 1, Greatest(PricesOf(Buyable(g)))) ELSE NoProposal

BudgetConstrainedPurchases(g) ==
    IF HasCategory(g) /\ \E p, q \in PricesOf(Buyable(g)) : p # q
    THEN Proposal({0}, 1, Least(PricesOf(Buyable(g)))) ELSE NoProposal

MultiUnitPurchases(g) ==
    LET stocked == {e \in Buyable(g) : e.stock >= MultiUnit}
    IN  IF HasCategory(g) /\ stocked # {}
        THEN Proposal({0}, MultiUnit, Greatest(PricesOf(stocked)) * MultiUnit) ELSE NoProposal

BudgetAbstentions(g) ==
    IF HasCategory(g) /\ Buyable(g) # {} THEN Proposal({0}, 1, Least(PricesOf(Buyable(g))) \div 2) ELSE NoProposal

StockAbstentions(g) ==
    LET wanted == Greatest({e.stock : e \in Buyable(g)}) + 1
    IN  IF HasCategory(g) /\ Buyable(g) # {} /\ wanted <= MaxShortage
        THEN Proposal({0}, wanted, Greatest(PricesOf(Buyable(g))) * wanted) ELSE NoProposal

UnavailableAbstentions(g) ==
    IF HasCategory(g) /\ Every(g) # {} /\ Buyable(g) = {}
    THEN Proposal({0}, 1, Greatest(PricesOf(Every(g)))) ELSE NoProposal

\* A value of a variant that can also be read in its text; a flag never can.
Observable(value, shown) ==
    CASE value.type = "string" -> Normal[value.of] \in shown.words
      [] value.type = "number" -> value.of \in shown.numbers
      [] OTHER -> FALSE

Carries(e, fact) ==
    /\ fact.key \in DOMAIN e.attributes
    /\ e.attributes[fact.key].type = fact.value.type
    /\ Same(e.attributes[fact.key], fact.value)

\* The facts of a group that a mission may be about.
Specifications(g) ==
    {a \in DOMAIN Facts : \E e \in Every(g) :
        /\ Carries(e, Facts[a]) /\ e.attributes[Facts[a].key].of = Facts[a].value.of
        /\ Observable(Facts[a].value, e.shown)}

SpecificationPurchases(g) ==
    IF Buyable(g) # {}
    THEN Proposal({a \in Specifications(g) : \E e \in Buyable(g) : Carries(e, Facts[a])},
                  1, Greatest(PricesOf(Buyable(g))))
    ELSE NoProposal

SpecificationAbstentions(g) ==
    IF HasCategory(g) /\ Every(g) # {}
    THEN Proposal({a \in Specifications(g) : ~\E e \in Buyable(g) : Carries(e, Facts[a])},
                  1, Greatest(PricesOf(Every(g))))
    ELSE NoProposal

FamilyOrder == <<"CATEGORY_PURCHASE", "BUDGET_ABSTENTION", "BUDGET_CONSTRAINED_PURCHASE",
                 "UNAVAILABLE_ABSTENTION", "SPECIFICATION_PURCHASE", "STOCK_ABSTENTION",
                 "MULTI_UNIT_PURCHASE", "SPECIFICATION_ABSTENTION">>
Families == {FamilyOrder[i] : i \in DOMAIN FamilyOrder}
Purchases == {"CATEGORY_PURCHASE", "BUDGET_CONSTRAINED_PURCHASE", "SPECIFICATION_PURCHASE", "MULTI_UNIT_PURCHASE"}

Proposals(family, g) ==
    CASE family = "CATEGORY_PURCHASE" -> CategoryPurchases(g)
      [] family = "BUDGET_CONSTRAINED_PURCHASE" -> BudgetConstrainedPurchases(g)
      [] family = "MULTI_UNIT_PURCHASE" -> MultiUnitPurchases(g)
      [] family = "SPECIFICATION_PURCHASE" -> SpecificationPurchases(g)
      [] family = "BUDGET_ABSTENTION" -> BudgetAbstentions(g)
      [] family = "STOCK_ABSTENTION" -> StockAbstentions(g)
      [] family = "UNAVAILABLE_ABSTENTION" -> UnavailableAbstentions(g)
      [] family = "SPECIFICATION_ABSTENTION" -> SpecificationAbstentions(g)

-----------------------------------------------------------------------------
(* The answer key.                                                         *)

\* The requirements of a brief: the category at the first place, the fact at the second.
Requirements(g, a) ==
    [i \in {j \in {1, 2} : IF j = 1 THEN HasCategory(g) ELSE a # 0} |->
        IF i = 1 THEN [kind |-> "allowed_category", category |-> g.category]
        ELSE [kind |-> "required_attribute", key |-> Facts[a].key, operator |-> "EQ", value |-> {Facts[a].value}]]

\* The brief proposed to a group about a fact.
BriefOf(g, a, proposal) ==
    [hard |-> Requirements(g, a), limit |-> proposal.limit, currency |-> g.currency, quantity |-> proposal.quantity]

\* _ground_truth: the cheapest line that qualifies, over the whole catalog.
Qualifying(b) == {e \in Shop : Qualifies(b, e)}
Worth(b) == IF Qualifying(b) = {} THEN 0 ELSE Least(PricesOf(Qualifying(b))) * b.quantity

\* Fault: the outcome the family claims is taken for the outcome.
AgreesUnchecked(family, b) == Semantic(b) # {} /\ (family \in Purchases => Worth(b) > 0)

\* _agreed: the brief has a requirement the gate can certify, the catalog gives the outcome its
\* family claims, and what can be bought is not free.
Agrees(family, b) ==
    /\ Semantic(b) # {}
    /\ (Qualifying(b) # {}) = (family \in Purchases)
    /\ family \in Purchases => Worth(b) > 0

-----------------------------------------------------------------------------
(* The draw.                                                               *)

\* What a family proposes to a group, each with its place among the proposals of the group.
CandidatesOf(i, proposal) ==
    {[rank |-> Cardinality({b \in proposal.about : b < a}), group |-> i, about |-> a,
      brief |-> BriefOf(Groups[i], a, proposal)] : a \in proposal.about}
Candidates(family) == UNION {CandidatesOf(i, Proposals(family, Groups[i])) : i \in DOMAIN Groups}

\* The first of every group, then the second of every group.
Precedes(c, d) == c.rank < d.rank \/ (c.rank = d.rank /\ c.group < d.group)

Agreed(family) == {c \in Candidates(family) : Agrees(family, c.brief)}
Placed(agreed) == {[place |-> Cardinality({d \in agreed : Precedes(d, c)}), brief |-> c.brief] : c \in agreed}
Resolved(family) == {p \in Placed(Agreed(family)) : p.place < MaxPerFamily}

\* One of every family in turn.
Sooner(m, n) == m.place < n.place \/ (m.place = n.place /\ m.turn < n.turn)
Pool ==
    UNION {{[turn |-> i, place |-> p.place, brief |-> p.brief] : p \in Resolved(FamilyOrder[i])} :
           i \in DOMAIN FamilyOrder}

\* Until the budget or the families are spent.
Drawn(pool) == {m \in pool : Cardinality({n \in pool : Sooner(n, m)}) < choice.budget}

Mission(family, b) ==
    [family |-> family, brief |-> b, buyable |-> family \in Purchases, worth |-> Worth(b)]
DrawnSuite == {Mission(FamilyOrder[m.turn], m.brief) : m \in Drawn(Pool)}

-----------------------------------------------------------------------------
SuiteInit ==
    /\ source \in Sources /\ choice \in Configurations
    /\ stage = "given"
    /\ entries = <<>> /\ omitted = {} /\ simulated = {} /\ suite = {}

\* project_catalog
ProjectCatalog ==
    /\ stage = "given"
    /\ IF Blocker # "none" THEN stage' = Blocker /\ UNCHANGED <<entries, omitted, simulated>>
       ELSE /\ stage' = "projected"
            /\ entries' = [i \in DOMAIN source |-> Project(source[i])]
            /\ omitted' = UNION {{<<source[i].sku, k>> : k \in DOMAIN source[i].metadata \ Carried(source[i])} :
                                 i \in DOMAIN source}
            /\ simulated' = {source[i].sku : i \in {j \in DOMAIN source : source[j].quantity = -1}}
    /\ UNCHANGED <<source, choice, suite>>

\* generate_suite
GenerateSuite ==
    /\ stage = "projected"
    /\ suite' = DrawnSuite
    /\ stage' = IF suite' = {} THEN "no_mission_family" ELSE "built"
    /\ UNCHANGED <<source, choice, entries, omitted, simulated>>

SuiteNext == ProjectCatalog \/ GenerateSuite
SuiteSpec == SuiteInit /\ [][SuiteNext]_suiteVars

-----------------------------------------------------------------------------
Accepted(b) == {e \in Shop : Assess(b, e) = "ACCEPTED"}

\* What a mission says is so: the buyer that judges for itself finds what every purchase mission
\* says is there, at no less than its worth, and nothing for any abstention; its brief is one the
\* gate accepts, states nothing AgentRank wrote itself, and is about something the storefront shows.
MissionIsTrue(mission) ==
    LET b == mission.brief
    IN  /\ mission.buyable = (Accepted(b) # {})
        /\ mission.buyable =>
             /\ mission.worth > 0 /\ mission.worth <= b.limit
             /\ \A e \in Accepted(b) : mission.worth <= e.price * b.quantity
        /\ WellStated(b) /\ ~Malformed(b.hard)
        /\ \A i \in Requiring(b.hard) :
             /\ b.hard[i].key \notin Provenance
             /\ \A v \in b.hard[i].value : \E e \in Shop : Observable(v, e.shown)

\* The suite is an answer key a buyer can be marked against, and no family has a second mission
\* before another has the first it could have (workspace/generation.py:247, 330, 477).
SuiteIsTrue ==
    /\ \A m \in suite : MissionIsTrue(m)
    /\ \A m, n \in suite : m # n /\ m.family = n.family =>
         \A f \in Families : (\E k \in suite : k.family = f) \/ Resolved(f) = {}

-----------------------------------------------------------------------------
(* The inductive invariant the proofs use: the catalog is what the source  *)
(* projects to, and the suite is what is drawn from the catalog.           *)

SuiteInv ==
    /\ source \in Sources /\ choice \in Configurations
    /\ entries = <<>> \/ entries = [i \in DOMAIN source |-> Project(source[i])]
    /\ suite = {} \/ suite = DrawnSuite
    /\ stage = "given" => suite = {}

-----------------------------------------------------------------------------
(* Statements of the repository that the generation refutes: no run lists  *)
(* them; each fails when it is added to the configuration as an INVARIANT. *)

\* What the families of abstentions say of themselves: that money is not the reason.  Where a
\* category is spelled in two ways, more money finds a line (workspace/generation.py:675, 703, 726).
MoneyIsNeverTheReason ==
    \A m \in suite :
        m.family \in {"STOCK_ABSTENTION", "UNAVAILABLE_ABSTENTION", "SPECIFICATION_ABSTENTION"} =>
            Accepted([m.brief EXCEPT !.limit = 1000]) = {}

\* That a purchase is asked for by a fact the buyer can read of what it may buy: only a line out of
\* stock may show it (workspace/generation.py:608).
FactIsShown ==
    \A m \in suite : m.family = "SPECIFICATION_PURCHASE" =>
        \A i \in Requiring(m.brief.hard) :
            \A v \in m.brief.hard[i].value : \E e \in Accepted(m.brief) : Observable(v, e.shown)

\* That a small suite measures both: it may hold purchases alone although an abstention was there
\* to draw (workspace/definitions.py:113).
BothAreMeasured ==
    stage = "built" /\ (\E f \in Families \ Purchases : Resolved(f) # {}) => \E m \in suite : ~m.buyable

=============================================================================
