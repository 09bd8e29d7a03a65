------------------------------ MODULE SiteImport ------------------------------
(***************************************************************************)
(* One import of a merchant's public pages: run of the import service      *)
(* (importer/service.py) takes the named pages one after another under a   *)
(* budget of bytes and one deadline, each page through the redirects and   *)
(* refusals of the fetcher (importer/network.py), and reads products and   *)
(* policies out of it (importer/extraction.py, amounts.py) into a draft    *)
(* the merchant may confirm (importer/draft.py).                           *)
(*                                                                         *)
(* A page is what its markup publishes: product nodes with variants and    *)
(* offers, page metadata, plain text; the identity derived from a label is *)
(* the label.  Descriptions, categories, policy bodies and the parsing of  *)
(* HTML are left out.  What a request key stands for, and confirming a     *)
(* draft, are CatalogConsole's.                                            *)
(***************************************************************************)
EXTENDS Integers, Sequences, FiniteSets, Functions

CONSTANTS
    Requests,      \* the sequences of pages an import may name
    MaxPages,      \* MAX_IMPORT_PAGES
    ByteBudget,    \* MAX_IMPORT_TOTAL_BYTES
    PageBytes,     \* FetchLimits.max_response_bytes
    MaxRedirects,  \* FetchLimits.max_redirects
    MaxVariants,   \* MAX_TOTAL_VARIANTS
    MaxPerProduct, \* MAX_VARIANTS_PER_PRODUCT
    MaxPrice,      \* MAX_PRICE_AMOUNT_MINOR
    Subunits,      \* [currency code -> the minor units in one: ten to its decimal places]
    Candidate      \* [published identifier -> the identifier a source may carry]

\* What is read of a page is of some size and of whole parts.
Money(price) == price = <<>> \/ price \in Int \X (Nat \ {0})
Offers(node) ==
    Range(node.offers) \cup UNION {Range(node.variants[i].offers) : i \in DOMAIN node.variants}
OffersOf(page) == UNION {Offers(page.nodes[i]) : i \in DOMAIN page.nodes}
IsSeq(s) == s \in Seq(Range(s))
IsNode(n) == IsSeq(n.variants) /\ IsSeq(n.offers) /\ \A v \in Range(n.variants) : IsSeq(v.offers)
IsPage(page) ==
    /\ page.answer # "none" /\ page.size \in Nat /\ Money(page.meta.price)
    /\ \A i \in DOMAIN page.nodes : IsNode(page.nodes[i])
    /\ \A o \in OffersOf(page) : Money(o.price)
ASSUME PagesAssumption == \A pages \in Requests : IsSeq(pages) /\ \A page \in Range(pages) : IsPage(page)
ASSUME LimitsOfImport ==
    /\ ByteBudget \in Nat \ {0} /\ PageBytes \in Nat
    /\ MaxVariants \in Nat /\ MaxPerProduct \in Nat \ {0}
    /\ \A code \in DOMAIN Subunits : Subunits[code] \in Nat \ {0}

VARIABLES
    request,   \* the pages named
    records,   \* the page records, in order
    products, policies, omissions, findings,   \* what was read so far
    taken,     \* Identifiers: [products, skus], each a set of <<candidate, raw>>
    spent,     \* bytes read
    import     \* [state, draft]: what was stored, or that it has not been

importVars == <<request, records, products, policies, omissions, findings, taken, spent, import>>

Retrieving == [state |-> "RETRIEVING", draft |-> <<>>]
ImportInit ==
    /\ request \in Requests
    /\ records = <<>> /\ products = <<>> /\ policies = <<>> /\ omissions = {} /\ findings = {}
    /\ taken = [products |-> {}, skus |-> {}] /\ spent = 0 /\ import = Retrieving

-----------------------------------------------------------------------------
(* Amounts.  A published price is <<units, parts>>, units out of as many   *)
(* parts (4.99 is <<499, 100>>), or <<>> where there is none.              *)

\* normalize_currency
CurrencyRefusal(code) ==
    IF code = "none" THEN "currency_missing"
    ELSE IF code \notin DOMAIN Subunits THEN "currency_unsupported" ELSE "none"
\* minor_units: nothing is rounded.
Shifted(price, code) == price[1] * Subunits[code]
Exact(price, code) == Shifted(price, code) % price[2] = 0
Minor(price, code) == Shifted(price, code) \div price[2]
AmountRefusal(price, code) ==
    IF CurrencyRefusal(code) # "none" THEN CurrencyRefusal(code)
    ELSE IF price = <<>> THEN "price_missing"
    ELSE IF price[1] < 0 THEN "price_negative"
    ELSE IF ~Exact(price, code) THEN "price_precision"
    ELSE IF Minor(price, code) > MaxPrice THEN "price_too_large" ELSE "none"

-----------------------------------------------------------------------------
(* Extraction.  A reading answers a product or an omission, with findings  *)
(* and the identifiers it took.  The variants of a product are a function  *)
(* of their places among the entries of its node.                          *)

NoProduct == [id |-> "none", url |-> "none", by |-> "none", variants |-> <<>>]
Left(reason, ids) == [product |-> NoProduct, omission |-> reason, findings |-> {}, taken |-> ids]
Kept(product, extra, ids) == [product |-> product, omission |-> "none", findings |-> extra, taken |-> ids]

\* _assign: one candidate never stands for two published identifiers.
Collides(ids, raw) == \E t \in ids : t[1] = Candidate[raw] /\ t[2] # raw
Assign(ids, raw) == ids \cup {<<Candidate[raw], raw>>}

\* _product_nodes: one node per "@id".
ProductNodes(page) ==
    {page.nodes[i] : i \in {i \in DOMAIN page.nodes :
                              \A j \in 1..(i - 1) : page.nodes[j].key # page.nodes[i].key}}

\* _variant_entries: variants with offers, or every offer of the product by itself.
Offered(node) == {i \in DOMAIN node.variants : node.variants[i].offers # <<>>}
Entries(node) == IF Offered(node) # {} THEN Offered(node) ELSE DOMAIN node.offers
EntryAt(node, i) ==
    IF Offered(node) # {} THEN node.variants[i]
    ELSE [sku |-> node.sku, label |-> "none", own |-> FALSE, offers |-> <<node.offers[i]>>]
OfferAt(node, i) == EntryAt(node, i).offers[1]

\* The identity of a variant: the offer's, the owner's, or a name derived from its label or from
\* being the first.
RawSku(node, i, url) ==
    IF OfferAt(node, i).sku # "none" THEN OfferAt(node, i).sku
    ELSE IF EntryAt(node, i).sku # "none" THEN EntryAt(node, i).sku
    ELSE IF EntryAt(node, i).own THEN EntryAt(node, i).label
    ELSE IF \A j \in Entries(node) : i <= j THEN url ELSE "none"

\* _availability and _inventory_level: what is stated, and the count where there is one.
Implied(level) == IF level = 0 THEN "OUT_OF_STOCK" ELSE "IN_STOCK"
StockConflict(offer) ==
    /\ offer.level >= 0
    /\ offer.stock # "none"     \* a state nothing can read disagrees with any count
    /\ offer.stock # Implied(offer.level)
Availability(offer) ==
    IF offer.level >= 0 THEN Implied(offer.level)
    ELSE IF offer.stock \in {"IN_STOCK", "OUT_OF_STOCK"} THEN offer.stock ELSE "UNKNOWN"

\* _variant: why one entry cannot be described, or "none".
VariantRefusal(node, i, url) ==
    LET offer == OfferAt(node, i)
        refusal == AmountRefusal(offer.price, offer.code)
    IN IF Len(EntryAt(node, i).offers) # 1 THEN "variant_ambiguous"
       ELSE IF refusal # "none" THEN refusal
       ELSE IF offer.range THEN "price_conflict"
       ELSE IF RawSku(node, i, url) = "none" THEN "variant_ambiguous"
       ELSE IF StockConflict(offer) THEN "availability_conflict" ELSE "none"
Variant(node, i, url) ==
    LET offer == OfferAt(node, i)
    IN [raw |-> RawSku(node, i, url), sku |-> Candidate[RawSku(node, i, url)],
        price |-> <<Minor(offer.price, offer.code), offer.code>>, stock |-> Availability(offer)]

\* The entries up to the first that cannot be described, and what stops one of those: an
\* identifier taken for another, or one that an earlier entry has.
Described(node, url) ==
    {i \in Entries(node) : \A j \in Entries(node) : j <= i => VariantRefusal(node, j, url) = "none"}
TakenBy(node, url, places) == {<<Variant(node, i, url).sku, Variant(node, i, url).raw>> : i \in places}
ClashAmong(node, url, ids, v, earlier) ==
    LET same == {j \in earlier : Variant(node, j, url).sku = v.sku}
    IN IF Collides(ids \cup TakenBy(node, url, earlier), v.raw) THEN "identifier_collision"
       ELSE IF same = {} THEN "none"
       ELSE IF \E j \in same : Variant(node, j, url).price # v.price THEN "price_conflict"
       ELSE "variant_ambiguous"
Clash(node, i, url, ids) ==
    ClashAmong(node, url, ids, Variant(node, i, url), {j \in Described(node, url) : j < i})

\* The variants of a product in order, up to the first that stops, and why it does.
Readable(node, url, ids) ==
    {i \in Described(node, url) : \A j \in Described(node, url) : j <= i => Clash(node, j, url, ids) = "none"}
RefusalOfFirst(node, url, ids, rest) ==
    LET first == CHOOSE i \in rest : \A j \in rest : i <= j
    IN IF rest = {} THEN "none"
       ELSE IF first \in Described(node, url) THEN Clash(node, first, url, ids)
       ELSE VariantRefusal(node, first, url)
ReadRefusal(node, url, ids) == RefusalOfFirst(node, url, ids, Entries(node) \ Readable(node, url, ids))

\* _metadata_price_conflict: only a price the metadata states whole can disagree.
MetadataConflict(page, variants) ==
    /\ page.meta.price # <<>> /\ AmountRefusal(page.meta.price, page.meta.code) = "none"
    /\ \E i \in DOMAIN variants : /\ DOMAIN variants = {i}
                                 /\ <<Minor(page.meta.price, page.meta.code), page.meta.code>> # variants[i].price

ExternalIdentity(node, url) == IF node.sku # "none" THEN node.sku ELSE url

\* No title, or one that addresses whatever reads it.
TitleRefusal(page) ==
    IF page.title = "none" THEN "title_missing"
    ELSE IF page.title = "instruction" THEN "instruction_like" ELSE "none"

\* _from_structured, of the entries that were read and what stopped it
StructuredOf(page, node, ids, read, refusal) ==
    LET now == [ids EXCEPT !.skus = @ \cup TakenBy(node, page.url, read)]
        raw == ExternalIdentity(node, page.url)
        kept == {i \in read : Cardinality({j \in read : j < i}) < MaxPerProduct}
        variants == [i \in kept |-> Variant(node, i, page.url)]
    IN IF TitleRefusal(page) # "none" THEN Left(TitleRefusal(page), ids)
       ELSE IF refusal # "none" THEN Left(refusal, now)
       ELSE IF MetadataConflict(page, variants) THEN Left("price_conflict", now)
       ELSE IF Collides(ids.products, raw) THEN Left("identifier_collision", now)
       ELSE Kept([id |-> Candidate[raw], url |-> page.url, by |-> "structured", variants |-> variants],
                 {f \in {"variants_truncated"} : kept # read}, [now EXCEPT !.products = Assign(@, raw)])
FromStructured(page, node, ids) ==
    StructuredOf(page, node, ids, Readable(node, page.url, ids.skus), ReadRefusal(node, page.url, ids.skus))

\* _from_metadata
FromMetadata(page, ids) ==
    LET refusal == AmountRefusal(page.meta.price, page.meta.code)
        raw == IF page.meta.sku # "none" THEN page.meta.sku ELSE page.url
        only == [raw |-> raw, sku |-> Candidate[raw], stock |-> page.meta.stock,
                 price |-> <<Minor(page.meta.price, page.meta.code), page.meta.code>>]
    IN IF page.meta.price = <<>> THEN Left("price_missing", ids)
       ELSE IF refusal # "none" THEN Left(refusal, ids)
       ELSE IF TitleRefusal(page) # "none" THEN Left(TitleRefusal(page), ids)
       ELSE IF Collides(ids.products, raw) \/ Collides(ids.skus, raw)
       THEN Left("identifier_collision", ids)
       ELSE Kept([id |-> Candidate[raw], url |-> page.url, by |-> "metadata", variants |-> <<only>>],
                 {}, [products |-> Assign(ids.products, raw), skus |-> Assign(ids.skus, raw)])

\* extract_product
ExtractProduct(page, ids) ==
    LET priced == {n \in ProductNodes(page) : Entries(n) # {}}
    IN IF Cardinality(ProductNodes(page)) > 1 THEN Left("several_products", ids)
       ELSE IF priced = {} THEN FromMetadata(page, ids)
       ELSE FromStructured(page, CHOOSE n \in priced : TRUE, ids)

\* extract_policy
PolicyRefusal(page) ==
    IF page.title = "none" THEN "policy_empty"
    ELSE IF page.title = "instruction" THEN "instruction_like" ELSE "none"

-----------------------------------------------------------------------------
(* Fetching (importer/network.py): one answer per hop, MaxRedirects + 1 of *)
(* them.  "page" is a document that was read whole.                        *)

FetchRefusal(page) ==
    IF page.hops > MaxRedirects THEN "too_many_redirects"
    ELSE IF page.answer # "page" THEN page.answer
    ELSE IF page.size > PageBytes THEN "response_too_large" ELSE "none"

Record(page, got, reason, bytes) ==
    [url |-> page.url, kind |-> page.kind, retrieved |-> got, reason |-> reason, bytes |-> bytes]

\* Fault: only the product is compared, never its SKUs.
DuplicateOfProductOnly(product) ==
    IF \E p \in Range(products) : p.id = product.id THEN "duplicate_product" ELSE "none"
Skus(product) == {product.variants[i].sku : i \in DOMAIN product.variants}
\* _duplicate_identity
DuplicateIdentity(product) ==
    IF \E p \in Range(products) : p.id = product.id THEN "duplicate_product"
    ELSE IF \E p \in Range(products) : Skus(p) \cap Skus(product) # {}
    THEN "duplicate_variant" ELSE "none"

-----------------------------------------------------------------------------
(* The import.                                                             *)

\* _targets: everything is refused before the first request.
Acceptable ==
    /\ Len(request) \in 1..MaxPages
    /\ \A i, j \in DOMAIN request :
          request[i].origin = request[j].origin /\ (request[i].url = request[j].url => i = j)
RefuseTargets ==
    /\ import = Retrieving /\ records = <<>> /\ ~Acceptable
    /\ import' = [Retrieving EXCEPT !.state = "REFUSED"]
    /\ UNCHANGED <<request, records, products, policies, omissions, findings, taken, spent>>

Current == request[Len(records) + 1]
Fetching == import = Retrieving /\ Acceptable /\ Len(records) < Len(request)

\* A page past the budget is refused without being asked for.
PassOver ==
    /\ Fetching /\ spent >= ByteBudget
    /\ records' = Append(records, Record(Current, FALSE, "import_byte_budget", 0))
    /\ UNCHANGED <<request, products, policies, omissions, findings, taken, spent, import>>

FetchFails ==
    /\ Fetching /\ spent < ByteBudget /\ FetchRefusal(Current) # "none"
    /\ records' = Append(records, Record(Current, FALSE, FetchRefusal(Current), 0))
    /\ omissions' = omissions \cup {<<Current.url, FetchRefusal(Current)>>}
    /\ UNCHANGED <<request, products, policies, findings, taken, spent, import>>

\* _read of a product page
TakeProduct(page, read) ==
    LET why == IF read.omission # "none" THEN read.omission ELSE DuplicateIdentity(read.product)
    IN /\ taken' = read.taken
       /\ findings' = findings \cup ({page.url} \X read.findings)
       /\ products' = IF why = "none" THEN Append(products, read.product) ELSE products
       /\ omissions' = IF why = "none" THEN omissions ELSE omissions \cup {<<page.url, why>>}
       /\ UNCHANGED policies
ReadProduct(page) == TakeProduct(page, ExtractProduct(page, taken))
\* _read of a policy page
ReadPolicy(page) ==
    /\ policies' = IF PolicyRefusal(page) = "none" THEN Append(policies, page.url) ELSE policies
    /\ omissions' = IF PolicyRefusal(page) = "none" THEN omissions
                    ELSE omissions \cup {<<page.url, PolicyRefusal(page)>>}
    /\ UNCHANGED <<products, findings, taken>>
Spent(page) == spent + page.size
FetchAnswers ==
    /\ Fetching /\ spent < ByteBudget /\ FetchRefusal(Current) = "none"
    /\ spent' = Spent(Current)
    /\ records' = Append(records, Record(Current, TRUE, "none", Current.size))
    /\ IF Current.kind = "PRODUCT" THEN ReadProduct(Current) ELSE ReadPolicy(Current)
    /\ UNCHANGED <<request, import>>

\* The deadline of the whole import: what was read is dropped with what was not reached.
Deadline ==
    /\ Fetching /\ spent < ByteBudget
    /\ records' = [i \in DOMAIN request |-> IF i \in DOMAIN records THEN records[i]
                                            ELSE Record(request[i], FALSE, "import_deadline", 0)]
    /\ import' = [Retrieving EXCEPT !.state = "FAILED"]
    /\ UNCHANGED <<request, products, policies, omissions, findings, taken, spent>>

VariantsUpTo(i) == SumFunctionOnSet([j \in DOMAIN products |-> Cardinality(DOMAIN products[j].variants)], 1..i)
\* _bounded: whole products, up to the first that would pass the limit.
Within == CHOOSE i \in 0..Len(products) :
    /\ VariantsUpTo(i) <= MaxVariants
    /\ i < Len(products) => VariantsUpTo(i + 1) > MaxVariants
FinishImport ==
    /\ import = Retrieving /\ Acceptable /\ Len(records) = Len(request)
    /\ import' = [state |-> "COMPLETED", draft |-> SubSeq(products, 1, Within)]
    /\ findings' = IF Within = Len(products) THEN findings
                   ELSE findings \cup {<<products[Within + 1].url, "import_truncated">>}
    /\ UNCHANGED <<request, records, products, policies, omissions, taken, spent>>

\* blockers_for
Confirmable == import.state = "COMPLETED" /\ import.draft # <<>>

ImportNext == RefuseTargets \/ PassOver \/ FetchFails \/ FetchAnswers \/ Deadline \/ FinishImport

ImportSpec == ImportInit /\ [][ImportNext]_importVars

-----------------------------------------------------------------------------
(* Properties.                                                             *)

ImportOver == import.state \in {"COMPLETED", "FAILED"}
Drafted == Range(import.draft)
PageAt(url) == CHOOSE p \in Range(request) : p.url = url

\* What the merchant may confirm is one catalog: whatever pages repeat one another or are cut
\* short, no product and no SKU is in the draft twice, no published identifier was renamed onto
\* another, and the whole fits a source document (importer/service.py:643 and 718).
DraftIsSound ==
    Confirmable =>
        /\ \A i, j \in DOMAIN import.draft : i # j =>
              /\ import.draft[i].id # import.draft[j].id
              /\ Skus(import.draft[i]) \cap Skus(import.draft[j]) = {}
        /\ \A p \in Drafted :
              /\ Cardinality(DOMAIN p.variants) \in 1..MaxPerProduct
              /\ \A i, j \in DOMAIN p.variants : p.variants[i].sku = p.variants[j].sku => i = j
        /\ VariantsUpTo(Len(import.draft)) <= MaxVariants
        /\ \A p, q \in Drafted : \A v \in Range(p.variants), w \in Range(q.variants) :
              v.sku = w.sku => v.raw = w.raw

\* Every page the merchant named is answered for, in the order it was named: imported, said to be
\* left out, or past a limit something says was reached; and however pages fail, no more is read
\* than the budget and one page (importer/service.py:351).
PagesAnswer ==
    ImportOver =>
        /\ Len(records) = Len(request)
        /\ \A i \in DOMAIN records : records[i].url = request[i].url
        /\ SumFunctionOnSet([i \in DOMAIN records |-> records[i].bytes], DOMAIN records) < ByteBudget + PageBytes
        /\ import.state = "FAILED" =>
              import.draft = <<>> /\ \E i \in DOMAIN records : records[i].reason = "import_deadline"
        /\ import.state = "COMPLETED" => \A i \in DOMAIN records :
              \/ ~records[i].retrieved
              \/ \E p \in Drafted : p.url = request[i].url
              \/ request[i].url \in Range(policies)
              \/ \E o \in omissions : o[1] = request[i].url
              \/ \E j \in 1..i : <<request[j].url, "import_truncated">> \in findings

\* What a page publishes as prices, wherever it does, and that an amount of minor units is one of
\* them to the last digit (importer/amounts.py:202).
Published(page) == {<<page.meta.price, page.meta.code>>} \cup {<<o.price, o.code>> : o \in OffersOf(page)}
PriceIsPublished(p, price) ==
    \E page \in Range(request) : page.url = p.url /\
        \E q \in Published(page) : /\ q[1] # <<>> /\ q[2] = price[2]
                                  /\ price[1] * q[1][2] = q[1][1] * Subunits[price[2]]

\* What an import leaves behind: a draft that can be confirmed as it stands, of prices that were
\* published, and an answer for every page (importer/draft.py:18, importer/service.py:351).
ImportIsSound ==
    /\ DraftIsSound /\ PagesAnswer
    /\ \A p \in Drafted : \A v \in Range(p.variants) : PriceIsPublished(p, v.price)

Prices(page) ==
    {<<Minor(o.price, o.code), o.code>> : o \in
        {o \in UNION {Range(n.offers) : n \in Range(page.nodes)} : AmountRefusal(o.price, o.code) = "none"}}
\* importer/draft.py: two prices that disagree are "not something to resolve by choosing".  Of two
\* nodes under one "@id" the first is read and the other is never looked at.
NoPriceIsChosen ==
    Confirmable => \A p \in Drafted :
        Cardinality(DOMAIN p.variants) = 1 /\ p.by = "structured" => Cardinality(Prices(PageAt(p.url))) <= 1

-----------------------------------------------------------------------------
(* The inductive invariant the proofs use.                                 *)

\* No candidate stands for two published identifiers.
OneMeaning(ids) == \A t, u \in ids : t[1] = u[1] => t[2] = u[2]
Identified(v, ids) == <<v.sku, v.raw>> \in ids

\* A product by itself: it has variants, up to the limit, of one SKU each, known as what they were
\* published as and at a price its page publishes.
WholeProduct(p) ==
    /\ IsFiniteSet(DOMAIN p.variants) /\ Cardinality(DOMAIN p.variants) \in 1..MaxPerProduct
    /\ \A i, j \in DOMAIN p.variants : p.variants[i].sku = p.variants[j].sku => i = j
    /\ \A v \in Range(p.variants) : PriceIsPublished(p, v.price)
GoodProduct(p) == WholeProduct(p) /\ \A v \in Range(p.variants) : Identified(v, taken.skus)
IdentifiersKnow(ids) ==
    DOMAIN ids = {"products", "skus"} /\ OneMeaning(ids.skus) /\ \A t \in ids.skus : t[1] = Candidate[t[2]]

ProductsKnow ==
    /\ IsSeq(products) /\ \A k \in DOMAIN products : GoodProduct(products[k])
    /\ \A k, l \in DOMAIN products : k # l =>
          products[k].id # products[l].id /\ Skus(products[k]) \cap Skus(products[l]) = {}
    /\ IdentifiersKnow(taken)

\* The pages taken so far, in order, with what became of each.
PageAnswered(i) ==
    \/ \E k \in DOMAIN products : products[k].url = request[i].url
    \/ request[i].url \in Range(policies)
    \/ \E o \in omissions : o[1] = request[i].url
RecordsKnow ==
    /\ IsSeq(records) /\ Len(records) <= Len(request)
    /\ \A i \in DOMAIN records :
          records[i].url = request[i].url /\ records[i].bytes \in Nat /\ (records[i].retrieved => PageAnswered(i))
    /\ spent \in Nat /\ spent < ByteBudget + PageBytes
    /\ spent = SumFunctionOnSet([i \in DOMAIN records |-> records[i].bytes], DOMAIN records)
    /\ IsSeq(policies)
    /\ records # <<>> => Acceptable

\* Products come in the order of their pages.
ProductsInOrder ==
    /\ \A k \in DOMAIN products : \E i \in DOMAIN records : products[k].url = request[i].url
    /\ \A k, l \in DOMAIN products : \A i, j \in DOMAIN records :
          k <= l /\ products[k].url = request[i].url /\ products[l].url = request[j].url => i <= j

ImportInv ==
    /\ request \in Requests
    /\ import.state = "RETRIEVING" => import = Retrieving /\ ProductsKnow /\ RecordsKnow /\ ProductsInOrder
    /\ ImportIsSound

=============================================================================
