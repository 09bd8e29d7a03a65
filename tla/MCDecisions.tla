---------------------------- MODULE MCDecisions ----------------------------
(***************************************************************************)
(* Seven subsystems that read and judge and touch no row of one another:  *)
(* the requirements a buyer states, the suite of a new merchant, the       *)
(* evidence of a buyer, the measurement of its mission, the diagnosis of a *)
(* run, the comparison of runs and the import of a site.  One run explores *)
(* each by itself: `focus` says which of them moves, the others stay where *)
(* they begin, so the states explored are the sum of the seven and not     *)
(* their product.  Comparisons appear twice: "order" carries experiments   *)
(* out, "reading" reads one, or two runs, while they are executed.         *)
(***************************************************************************)
EXTENDS BuyerEvidence, MissionMeasurement, RunDiagnosis, CompilerExperiments, StatedRequirements, SiteImport,
        GeneratedSuite, TLC

CONSTANTS Focuses, good, vague, wrong, operator1, operator2

VARIABLE focus

-----------------------------------------------------------------------------
(* One variant that qualifies, one with a gap in its data, one that is     *)
(* over the budget and not allowed; two quotes and two payments.           *)

Plain == [price |-> 1, currency |-> TRUE, category |-> "met", attribute |-> "met",
          active |-> TRUE, stock |-> 2]
TheEntries == good :> Plain
        @@ vague :> [Plain EXCEPT !.attribute = "missing"]
        @@ wrong :> [Plain EXCEPT !.price = 3, !.category = "unmet"]
Earlier == {<<[expected |-> "PURCHASE", status |-> "ERRORED", bought |-> FALSE]>>}
Nobody == "ghost"
One(v) == [variant |-> v, quantity |-> 1]
Quotable == {<<One(good)>>, <<One(vague), [variant |-> wrong, quantity |-> 2]>>}
Nothing == [variant |-> Nobody, quantity |-> 0]
TheVariants == {good, vague, wrong}
TheSelections == {Nothing, One(Nobody), One(good), One(wrong)}

-----------------------------------------------------------------------------
(* Two missions, and verdicts that meet in every pair the precedence tells *)
(* apart: outages beside failures, two gaps at once, an escape.            *)

Smooth == [outage |-> FALSE, throttles |-> 0, mismatch |-> FALSE]
Cut == [Smooth EXCEPT !.outage = TRUE]
Slowed == [Smooth EXCEPT !.throttles = 1, !.mismatch = TRUE]
Judged(s, r, t) == [status |-> s, reasons |-> r, escaped |-> FALSE, oracle |-> "confirmed", trace |-> t]
TheVerdicts ==
    {Judged("SUCCEEDED", {}, Slowed), Judged("ABSTAINED", {}, Smooth),
     Judged("ABSTAINED", {"DISCOVERY_FAILURE"}, Slowed), Judged("ERRORED", {}, Cut),
     [Judged("FAILED", {"ENFORCEMENT_BYPASSED", "MANDATE_DENIED"}, Smooth) EXCEPT !.escaped = TRUE],
     [Judged("FAILED", {"CHECKOUT_CREATION_FAILED"}, Smooth) EXCEPT !.oracle = "denied"]}
    \cup {Judged("FAILED", r, Cut) : r \in
            {{"AGENT_EXECUTION_ERROR", "DISCOVERY_FAILURE"}, {"MERCHANT_API_ERROR"},
             {"AGENT_EXECUTION_ERROR", "ATTRIBUTE_MISSING"}}}
    \cup {Judged("FAILED", r, Smooth) : r \in
            {{"AGENT_EXECUTION_ERROR"}, {"ATTRIBUTE_MISSING", "ATTRIBUTE_UNREADABLE"},
             {"MERCHANT_API_ERROR", "CATEGORY_MISSING"}, {"MANDATE_DENIED", "CONSTRAINT_VIOLATION"},
             {"MANDATE_DENIED"}, {"INVENTORY_UNAVAILABLE"}, {"AGENT_REASONING_ERROR"},
             {"PAYMENT_FAILED", "PAYMENT_UNRESOLVED"}, {"UNEXPECTED_PURCHASE"}}}
TheMissing == [pinned |-> {"weight"}, moved |-> {"size"}]
TheUnreadable == [pinned |-> {"color"}, moved |-> {}]

-----------------------------------------------------------------------------
(* Two operators and an experiment of two pairs, whose runs end in the     *)
(* ways that matter.                                                       *)

End(s, r, m, p) ==
    [status |-> s, reason |-> r, unsafe |-> FALSE, disagrees |-> FALSE, model |-> m, provider |-> p]
\* Bought after a throttle, and bought while the oracle says otherwise: these tell only launches apart.
FineEnds == {End("SUCCEEDED", "none", "m1", "recovered"),
             [End("SUCCEEDED", "none", "m1", "fine") EXCEPT !.disagrees = TRUE]}
BoughtIt == End("SUCCEEDED", "none", "m1", "fine")
Missed == End("FAILED", "r", "m1", "fine")
TheEnds == {BoughtIt, Missed, [Missed EXCEPT !.unsafe = TRUE], End("ERRORED", "none", "none", "outage"),
            End("SUCCEEDED", "none", "m2", "fine")} \cup FineEnds
TheOperators == {operator1, operator2}
ThePins == {"p1", "p2"}
Operators2 == Permutations(TheOperators)

-----------------------------------------------------------------------------
(* Pages of a small shop: one that publishes what another did, one that    *)
(* says two prices, one past every limit, one that never answers.          *)

Bare == [price |-> <<>>, code |-> "none", sku |-> "none", stock |-> "UNKNOWN"]
Page(u) == [url |-> u, origin |-> "shop", kind |-> "PRODUCT", hops |-> 0, answer |-> "page", size |-> 2,
            title |-> "plain", nodes |-> <<>>, meta |-> Bare]
Offer(sku, units, stock, level) ==
    [sku |-> sku, price |-> <<units, 1>>, code |-> "EUR", range |-> FALSE, stock |-> stock, level |-> level]
Node(key, sku, vs, os) == [key |-> key, sku |-> sku, variants |-> vs, offers |-> os]
Owned(sku, label, os) == [sku |-> sku, label |-> label, own |-> TRUE, offers |-> os]
Priced(u, units, code, sku) ==
    [Page(u) EXCEPT !.meta = [price |-> units, code |-> code, sku |-> sku, stock |-> "IN_STOCK"]]
Shirt(u) == [Page(u) EXCEPT !.nodes = <<Node("n1", "shirt",
    <<Owned("s1", "none", <<Offer("none", 5, "IN_STOCK", 3)>>),
      Owned("none", "blue", <<Offer("none", 6, "none", -1)>>), Owned("none", "gone", <<>>)>>, <<>>)>>]
Single(u, key, offers) == [Page(u) EXCEPT !.nodes = <<Node(key, "cup", <<>>, offers)>>]
Pages(u) ==
    {Shirt(u), [Shirt(u) EXCEPT !.hops = 4], [Shirt(u) EXCEPT !.size = 3],
     [Page(u) EXCEPT !.kind = "POLICY"], [Page(u) EXCEPT !.origin = "elsewhere"],
     [Page(u) EXCEPT !.answer = "timeout"],
     Single(u, "n2", <<Offer("s1", 5, "IN_STOCK", -1), Offer("s2", 5, "none", 0)>>),
     Single(u, "n3", <<Offer("none", 5, "IN_STOCK", 0)>>),
     [Page(u) EXCEPT !.nodes = <<Node("n4", "mug", <<>>, <<Offer("m", 5, "IN_STOCK", -1)>>),
                                 Node("n4", "mug", <<>>, <<Offer("m", 7, "IN_STOCK", -1)>>)>>],
     [Page(u) EXCEPT !.nodes = <<Node("n5", "x", <<>>, <<Offer("x", 5, "none", -1)>>),
                                 Node("n6", "y", <<>>, <<Offer("y", 5, "none", -1)>>)>>],
     [Priced(u, <<499, 100>>, "EUR", "m") EXCEPT !.nodes =
         <<Node("n7", "m", <<>>, <<Offer("m", 5, "none", -1)>>)>>],
     [Page(u) EXCEPT !.nodes = <<Node("n8", "x",
         <<Owned("x", "none", <<Offer("none", 5, "none", -1)>>),
           Owned("x", "none", <<Offer("none", 6, "none", -1)>>)>>, <<>>)>>],
     Priced(u, <<499, 100>>, "EUR", "m"), [Priced(u, <<499, 100>>, "EUR", "m") EXCEPT !.size = 1],
     [Priced(u, <<499, 100>>, "EUR", "m") EXCEPT !.title = "instruction"],
     Priced(u, <<499, 100>>, "JPY", "m"), Priced(u, <<4, 1>>, "EUR", "S1")}
TheRequests ==
    {<<>>, <<Shirt("a"), Page("b"), Page("c"), Page("d")>>}
    \cup {<<p, q, r>> : p \in Pages("a"), q \in Pages("b"), r \in Pages("c")}
    \cup {<<p, q>> : p \in Pages("a"), q \in {Shirt("a"), Page("b")}}
Labels == {"a", "b", "c", "d", "shirt", "cup", "mug", "m", "x", "y", "s1", "s2", "S1", "blue"}
TheSubunits == [EUR |-> 100, JPY |-> 1]
TheCandidates == [r \in Labels |-> IF r = "S1" THEN "s1" ELSE r]

-----------------------------------------------------------------------------
(* Two variants, published well, badly, twice under one name, or not; and  *)
(* briefs that repeat themselves, forbid, bound, list and ask nothing.     *)

Number(n) == [type |-> "number", of |-> n]
Word(t) == [type |-> "string", of |-> t]
Category(t) == [kind |-> "allowed_category", category |-> t]
Attribute(k, o, v) == [kind |-> "required_attribute", key |-> k, operator |-> o, value |-> v]
AtMost(n) == [kind |-> "max_quantity", quantity |-> n]
Brief(hard, limit, quantity) == [hard |-> hard, limit |-> limit, currency |-> "EUR", quantity |-> quantity]
Texts == [t \in {"color", "Color", "COLOR", "size", "import_size", "red", "black", "Black", "big", "Shirts", "shirts", "hats"} |->
            CASE t \in {"Color", "COLOR"} -> "color" [] t = "Black" -> "black" [] t = "Shirts" -> "shirts"
              [] OTHER -> t]
Ware == [listed |-> TRUE, sold |-> TRUE, category |-> "Shirts", price |-> 2, currency |-> "EUR", stock |-> 3,
         attributes |-> [color |-> Word("Black"), size |-> Number(3)]]
Wares ==
    {Ware, [Ware EXCEPT !.category = "unpublished"], [Ware EXCEPT !.price = 3], [Ware EXCEPT !.price = 5, !.stock = 0],
     [Ware EXCEPT !.currency = "USD"], [Ware EXCEPT !.sold = FALSE], [Ware EXCEPT !.listed = FALSE],
     [Ware EXCEPT !.attributes = [size |-> Number(1)]], [Ware EXCEPT !.price = 5],
     [Ware EXCEPT !.attributes = [color |-> Number(7), size |-> Word("big")]],
     [Ware EXCEPT !.attributes = [Color |-> Word("black"), COLOR |-> Word("red"), size |-> Number(3)]]}
Restocked == {[Ware EXCEPT !.stock = 1], [Ware EXCEPT !.sold = FALSE], [Ware EXCEPT !.attributes = [color |-> Word("red")]],
          [Ware EXCEPT !.price = 5]}
TheBriefs ==
    {Brief(<<Category("shirts"), Attribute("color", "NE", {Word("red")}), Category("Shirts")>>, 4, 2),
     Brief(<<Attribute("size", "GTE", {Number(2)}), AtMost(1), Category("hats"), Category("shirts")>>, 4, 1),
     Brief(<<Attribute("color", "IN", {Word("black"), Word("red")}), AtMost(2)>>, 8, 2),
     Brief(<<Attribute("color", "EQ", {Word("black")}), Attribute("Color", "EQ", {Word("red")})>>, 4, 1),
     Brief(<<Attribute("color", "EQ", {Word("black")}), Attribute("Color", "EQ", {Word("Black")})>>, 4, 1),
     Brief(<<AtMost(2)>>, 4, 2), Brief(<<Attribute("size", "LTE", {Word("big")})>>, 4, 1), Brief(<<>>, 4, 1)}
TheMandates ==
    {[limit |-> m[1], currency |-> m[2], ceiling |-> m[3]] :
        m \in {<<4, "EUR", 0>>, <<6, "EUR", 1>>, <<4, "EUR", 1>>, <<4, "USD", 1>>}}
TheShelf == <<good, vague>>
TheCatalogs == [{good, vague} -> Wares]

-----------------------------------------------------------------------------
(* Sources of up to three lines: one category in two spellings, one of     *)
(* another currency, none; free, sold out, deep, of unknown depth; facts   *)
(* that can be read, that cannot, that the import wrote; and flaws.        *)

Shown(words, numbers) == [words |-> words, numbers |-> numbers]
Line(category, price, quantity) ==
    [category |-> category, price |-> price, currency |-> "EUR", quantity |-> quantity, availability |-> "IN_STOCK",
     metadata |-> [color |-> Word("Black"), size |-> Number(3)], shown |-> Shown({"black"}, {3}), flaw |-> "none"]
TheLines ==
    <<Line("Shirts", 4, 2), Line("Shirts", 2, 0), Line("shirts", 9, 1), Line("hats", 1, 3), Line("hats", 1, -1),
     Line("unpublished", 5, 6), [Line("Shirts", 6, 1) EXCEPT !.metadata = [color |-> Word("red")], !.shown = Shown({"red"}, {})],
     [Line("Shirts", 8, 0) EXCEPT !.metadata = [color |-> Word("red"), size |-> Number(1)], !.shown = Shown({"red"}, {1})],
     Line("Shirts", 0, 1), [Line("Shirts", 7, 1) EXCEPT !.shown = Shown({}, {})], [Line("shirts", 3, 1) EXCEPT !.currency = "USD"],
     [Line("hats", 5, 2) EXCEPT !.metadata = [import_size |-> Number(3), color |-> [type |-> "nested", of |-> "black"]]]>>
TheFlaws ==
    {[Line("hats", 1, -1) EXCEPT !.availability = "UNKNOWN"], [Line("hats", 1, -1) EXCEPT !.flaw = "too_long"]}
SkuOf == <<"s1", "s2", "s3">>
Sold(lines) ==
    [i \in DOMAIN lines |->
        [sku |-> SkuOf[i], category |-> lines[i].category, price |-> lines[i].price, currency |-> lines[i].currency,
         quantity |-> lines[i].quantity, availability |-> lines[i].availability, metadata |-> lines[i].metadata,
         shown |-> lines[i].shown, flaw |-> lines[i].flaw]]
\* The order of the lines decides nothing but which of two flaws is named.
TheSources ==
    LET of(indices) == Sold([i \in DOMAIN indices |-> TheLines[indices[i]]])
        N == DOMAIN TheLines
        flawed == TheFlaws \cup {Line("hats", 1, 3)}
    IN  {of(n) : n \in {<<>>} \cup {<<i>> : i \in N} \cup {<<i, j>> : i \in N, j \in N}}
        \cup {of(n) : n \in {m \in N \X N \X N : m[1] <= m[2] /\ m[2] <= m[3]}}
        \cup {Sold(<<a, b>>) : a \in flawed, b \in flawed}
        \cup {Sold(<<l, l, l>>) \o Sold(<<l>>) : l \in flawed}
TheGroups ==
    <<[category |-> "unpublished", currency |-> "EUR"], [category |-> "Shirts", currency |-> "EUR"],
      [category |-> "hats", currency |-> "EUR"], [category |-> "shirts", currency |-> "EUR"],
      [category |-> "shirts", currency |-> "USD"]>>
TheFacts ==
    <<[key |-> "color", value |-> Word("Black")], [key |-> "color", value |-> Word("red")],
      [key |-> "import_size", value |-> Number(3)], [key |-> "size", value |-> Number(1)],
      [key |-> "size", value |-> Number(3)]>>
TheConfigurations == {[units |-> 3, budget |-> 2], [units |-> 1, budget |-> 12]}
TheProvenance == {"import_size"}

-----------------------------------------------------------------------------
DecisionsInit ==
    /\ focus \in Focuses
    /\ Init
    /\ MeasurementInit /\ (focus # "measurement" => expected = "NONE")
    /\ DiagnosisInit
    /\ ExperimentInit /\ (focus \notin {"order", "reading"} => pins = "p1")
    /\ ImportInit /\ (focus # "import" => request = <<>>)
    /\ IF focus = "requirements" THEN RequirementsInit
       ELSE /\ shopper = "nobody" /\ brief = <<>> /\ catalog = <<>> /\ moves = 0 /\ step = "none"
            /\ listing = {} /\ candidates = {} /\ rejections = {} /\ requirements = {}
            /\ mandate = NoMandate /\ quote = NoQuote /\ answer = NoAnswer
    /\ SuiteInit /\ (focus # "suite" => source = <<>> /\ choice.budget = 2)

DecisionsNext ==
    /\ UNCHANGED focus
    /\ IF focus = "evidence" THEN Next ELSE UNCHANGED vars
    /\ IF focus = "measurement" THEN MeasurementNext ELSE UNCHANGED measurementVars
    /\ IF focus = "diagnosis" THEN DiagnosisNext ELSE UNCHANGED diagnosisVars
    /\ IF focus \in {"order", "reading"} THEN ExperimentNext ELSE UNCHANGED experimentVars
    /\ IF focus = "import" THEN ImportNext ELSE UNCHANGED importVars
    /\ IF focus = "requirements" THEN RequirementsNext ELSE UNCHANGED requirementsVars
    /\ IF focus = "suite" THEN SuiteNext ELSE UNCHANGED suiteVars

DecisionsSpec == DecisionsInit /\ [][DecisionsNext]_<<focus, vars, measurementVars, diagnosisVars,
                                                     experimentVars, importVars, requirementsVars, suiteVars>>

\* The second quote of a mission brings no fault of its own but the harness's.  An experiment that
\* is only carried out races two commands, with a launch between its first two runs that completes,
\* or without, and all its runs end alike.  One that is read is carried out by one command at a
\* time under one pin; it is read once its first run of the second pair is bound, while that run
\* and the last complete, are aborted or not, and its first pair or its last run ends in every
\* way; if compare_show reads it, twice, only its first run does, and only its last is aborted.
\* The provider recovers in the first run alone.  Or two runs of launches are compared, which end
\* in every way there is.
Launched(r) == run[r].by = "launch"
EndAlike(r) == \A i \in Missions : run[r].ends[i] \in {Pending, BoughtIt}
Bounds ==
    /\ focus = "measurement" /\ Len(quotes) = 2 => fault \in {"none", "HARNESS"}
    /\ focus = "order" =>
         /\ reader = NoReading /\ \A r \in DOMAIN run : EndAlike(r)
         /\ \A r \in DOMAIN run : Launched(r) => r = 2 /\ run[r].arm = "RAW" /\ run[r].status # "ABORTED"
    /\ focus = "reading" =>
         \/ /\ reader.of # "comparison"
            /\ reader # NoReading => reader.rows[3] # 0
            /\ reader.of \in {"reports", "shown"} => \A r \in DOMAIN run \ {1} :
                  EndAlike(r) /\ (run[r].status = "ABORTED" => r = 4)
            /\ pins = "p1" /\ Cardinality({o \in Operators : op[o] # Off}) <= 1
            /\ \A r \in DOMAIN run :
                  /\ ~Launched(r) /\ (r = 3 => EndAlike(r)) /\ (run[r].status = "ABORTED" => r > 2)
                  /\ run[r].ends[1] \in FineEnds => r = 1 /\ ~run[r].ends[1].disagrees
            /\ 4 \in DOMAIN run => EndAlike(4) \/ (EndAlike(1) /\ EndAlike(2))
         \/ /\ reader.of \in {"none", "comparison"} /\ Len(run) <= 2
            /\ \A r \in DOMAIN run : Launched(r)

=============================================================================
