---------------------------- MODULE LegacyQuote ----------------------------
(***************************************************************************)
(* The older way from photos to a price: each photo is analyzed by a       *)
(* vision model (core/image_analyzer.py), the analyses are merged, and     *)
(* the calculator prices the result (core/quote_calculator.py) by the      *)
(* formula and the tiers of the trade (config/pricing_configs.py).  The    *)
(* photo worker still runs it for customers without an organization.       *)
(*                                                                         *)
(* Amounts are cents, factors percents; a cent is cut off where the code   *)
(* computes with floats and rounds at the end.                             *)
(***************************************************************************)
EXTENDS Integers, Sequences, SequencesExt

CONSTANTS
    Trades,       \* the trades that occur
    Areas,        \* the square footages the vision model estimates
    Strange,      \* grades the vision model answers with that no table of the
                  \* code has: other words, a null
    MaxPhotos,    \* bound of the photos of a job
    Unseen        \* Python's None: not in the photo

\* The tables by which the merge ranks the grades of the photos.
Scores ==
    [complexity |-> [low |-> 1, medium |-> 2, high |-> 3],
     access     |-> [easy |-> 1, moderate |-> 2, hard |-> 3],
     damage     |-> [minor |-> 1, moderate |-> 2, major |-> 3]]

Known(field) == DOMAIN Scores[field]

ASSUME LegacyConstants ==
    /\ Trades \subseteq {"landscaping", "roofing", "plumbing", "autobody", "electrical"}
    /\ Areas \subseteq Nat \ {0}
    /\ MaxPhotos \in Nat
    /\ Unseen \notin Nat \cup Strange \cup [sum : Nat, count : Nat]
    /\ \A field \in {"complexity", "access", "damage"} : Unseen \notin Known(field)

VARIABLES
    trade,        \* the trade of the job
    photos,       \* the analyses of its photos so far
    estimate      \* the total of the quote, once calculated

legacyVars == <<trade, photos, estimate>>

-----------------------------------------------------------------------------
(***************************************************************************)
(* The analyses.                                                           *)
(***************************************************************************)

Reading(area, complexity, damage, access) ==
    [area |-> area, complexity |-> complexity, damage |-> damage, access |-> access]

DefaultAnalysis == Reading(Unseen, "medium", Unseen, "moderate")

\* The prompt asks for words, the parser takes whatever the vision model answers,
\* in every trade: a grade of its table or a strange one.  No area and an area of
\* 0 are the same to the code, and so are no damage and an empty one.  An answer
\* that is no object fails in the parser, and the photo is left out; one of
\* another type (an area in words) fails in the merge, and there is no quote.
Answers(field) == Known(field) \cup Strange

Replies ==
    [area       : Areas \cup {Unseen},
     complexity : Answers("complexity"),
     damage     : Answers("damage") \cup {Unseen},
     access     : Answers("access")]

\* A strange damage ranks with the minor ones, another strange grade in the middle.
Score(field, word) ==
    IF word \in Known(field) THEN Scores[field][word]
    ELSE IF field = "damage" THEN 1 ELSE 2

\* The photos that show a detail.
Showing(field, analyses) == {i \in DOMAIN analyses : analyses[i][field] # Unseen}

\* Mutant: the mildest of the photos decides.
Mildest(field, analyses) ==
    LET shown == Showing(field, analyses)
        score(i) == Score(field, analyses[i][field])
    IN analyses[CHOOSE i \in shown : \A j \in shown : score(i) <= score(j)][field]

\* Python's max: the first of the photos with the highest score.
Worst(field, analyses) ==
    LET shown == Showing(field, analyses)
        score(i) == Score(field, analyses[i][field])
    IN analyses[CHOOSE i \in shown :
                   \A j \in shown :
                      \/ score(i) > score(j)
                      \/ score(i) = score(j) /\ i <= j][field]

Column(field, analyses) == [i \in DOMAIN analyses |-> analyses[i][field]]

\* The merged area is an average: a sum and a count, or Unseen.
Merged(analyses) ==
    LET measured == Showing("area", analyses)
    IN [area       |-> IF measured = {} THEN Unseen
                       ELSE [sum   |-> SumFunctionOnSet(Column("area", analyses), measured),
                             count |-> Cardinality(measured)],
        complexity |-> Worst("complexity", analyses),
        damage     |-> IF Showing("damage", analyses) = {} THEN Unseen
                       ELSE Worst("damage", analyses),
        access     |-> Worst("access", analyses)]

\* A job of which no photo could be analyzed has the default analysis.
Analysis(analyses) ==
    Merged(IF analyses = <<>> THEN <<DefaultAnalysis>> ELSE analyses)

-----------------------------------------------------------------------------
(***************************************************************************)
(* The configurations.  A tier: up to which area, cents per unit,          *)
(* materials as percents of the base, hours, cents per hour.  The last     *)
(* tier has no end.                                                        *)
(***************************************************************************)

Tier(max, rate, material, hours, wage) ==
    [max |-> max, rate |-> rate, material |-> material, labor |-> hours * wage]

Infinity == 1000000

Landscaping ==
    [tiers |-> <<Tier(1000, 150, 40, 4, 6500), Tier(5000, 120, 35, 8, 6500),
                 Tier(20000, 90, 30, 16, 6500), Tier(Infinity, 60, 25, 40, 7500)>>,
     least |-> 15000, most |-> 5000000]

Roofing ==
    [tiers |-> <<Tier(500, 800, 50, 6, 8500), Tier(1500, 650, 45, 16, 8500),
                 Tier(4000, 500, 40, 40, 8500), Tier(Infinity, 400, 35, 80, 9500)>>,
     least |-> 30000, most |-> 10000000]

Plumbing ==
    [tiers |-> <<Tier(2, 15000, 30, 2, 9500), Tier(5, 12500, 30, 4, 9500),
                 Tier(10, 10000, 25, 8, 9500), Tier(Infinity, 8500, 25, 12, 11000)>>,
     least |-> 10000, most |-> 2500000]

Autobody ==
    [tiers |-> <<Tier(1, 45000, 40, 4, 8500), Tier(3, 40000, 40, 6, 8500),
                 Tier(6, 35000, 35, 10, 8500), Tier(Infinity, 30000, 35, 16, 9500)>>,
     least |-> 20000, most |-> 3000000]

Electrical ==
    [tiers |-> <<Tier(3, 18000, 35, 2, 11000), Tier(10, 15000, 35, 3, 11000),
                 Tier(20, 12000, 30, 8, 11000), Tier(Infinity, 10000, 30, 12, 12500)>>,
     least |-> 15000, most |-> 2000000]

Config ==
    [landscaping |-> Landscaping, roofing |-> Roofing, plumbing |-> Plumbing,
     autobody |-> Autobody, electrical |-> Electrical][trade]

\* A tier starts one above the end of the tier before it, so an average that
\* falls between two tiers falls through to the last one.
SelectTier(area) ==
    LET tiers == Config.tiers
        Fits(i) ==
            IF area = Unseen THEN i = 1
            ELSE /\ area.sum <= tiers[i].max * area.count
                 /\ i > 1 => (tiers[i - 1].max + 1) * area.count <= area.sum
        fitting == {i \in DOMAIN tiers : Fits(i)}
    IN IF fitting = {} THEN Last(tiers) ELSE tiers[CHOOSE i \in fitting : TRUE]

-----------------------------------------------------------------------------
(***************************************************************************)
(* The formulas.  Of what a photo shows, only landscaping and roofing read *)
(* anything: the calculator counts one fixture, panel or outlet, and the   *)
(* other details keep the defaults of the formula.                         *)
(***************************************************************************)

Percent(amount, factor) == (amount * factor) \div 100

ByArea(a, tier) == (a.area.sum * tier.rate) \div a.area.count

Work(base, materials, labor) == base + materials + labor

LandscapingFormula(a, tier) ==
    LET complexity ==
            CASE a.complexity = "low" -> 85 [] a.complexity = "high" -> 135 [] OTHER -> 100
        access ==
            CASE a.access = "moderate" -> 115 [] a.access = "hard" -> 140 [] OTHER -> 100
        base == Percent(Percent(ByArea(a, tier), complexity), access)
    IN Work(base, Percent(base, tier.material), Percent(tier.labor, complexity))

RoofingFormula(a, tier) ==
    LET damage ==
            CASE a.damage = "moderate" -> 120 [] a.damage = "major" -> 150 [] OTHER -> 100
        base == Percent(ByArea(a, tier), damage)
    IN Work(base, Percent(base, tier.material), tier.labor)

\* Copper, in the open.
PlumbingFormula(tier) == Work(tier.rate, Percent(tier.rate, 130), tier.labor)

\* A dent, with the paint to match.
AutobodyFormula(tier) ==
    LET base == Percent(tier.rate, 80)
    IN Work(base, Percent(Percent(base, tier.material), 115), tier.labor)

\* 120 ampere, romex, no permit.
ElectricalFormula(tier) ==
    Work(tier.rate, Percent(tier.rate, tier.material), tier.labor)

Formula(a, tier) ==
    CASE trade = "landscaping" -> LandscapingFormula(a, tier)
      [] trade = "roofing"     -> RoofingFormula(a, tier)
      [] trade = "plumbing"    -> PlumbingFormula(tier)
      [] trade = "autobody"    -> AutobodyFormula(tier)
      [] trade = "electrical"  -> ElectricalFormula(tier)

\* The formulas of landscaping and roofing multiply by the area, and raise a
\* TypeError where there is none.
Priceable(a) == trade \in {"landscaping", "roofing"} => a.area # Unseen

\* The sum of the line items, kept between the limits of the trade, with tax.
Price(a) ==
    LET items    == Formula(a, SelectTier(a.area))
        most     == IF items > Config.most THEN Config.most ELSE items
        subtotal == IF most < Config.least THEN Config.least ELSE most
    IN subtotal + Percent(subtotal, 8)

-----------------------------------------------------------------------------

LegacyTypeOK ==
    /\ trade \in Trades
    /\ Len(photos) <= MaxPhotos
    /\ \A i \in DOMAIN photos :
          /\ photos[i].area \in Areas \cup {Unseen}
          /\ photos[i].damage \in Answers("damage") \cup {Unseen}
          /\ \A field \in {"complexity", "access"} : photos[i][field] \in Answers(field)
    /\ estimate \in Nat \cup {Unseen}

LegacyInit ==
    /\ trade \in Trades
    /\ photos = <<>>
    /\ estimate = Unseen

\* A photo the vision model answers for.
AnalyzeImage ==
    /\ estimate = Unseen /\ Len(photos) < MaxPhotos
    /\ \E reply \in Replies : photos' = Append(photos, reply)
    /\ UNCHANGED <<trade, estimate>>

\* One it does not: an invalid file, an error of the service, no JSON.
FallBack ==
    /\ estimate = Unseen /\ Len(photos) < MaxPhotos
    /\ photos' = Append(photos, DefaultAnalysis)
    /\ UNCHANGED <<trade, estimate>>

Calculate ==
    /\ estimate = Unseen
    /\ Priceable(Analysis(photos))
    /\ estimate' = Price(Analysis(photos))
    /\ UNCHANGED <<trade, photos>>

LegacyNext == AnalyzeImage \/ FallBack \/ Calculate

-----------------------------------------------------------------------------

\* Photos that agree on the area, as far as they show it, make a quote that no
\* one of them alone would exceed: a further view of the same work never makes
\* it cheaper, through the merge, the factors, the limits and the rounding, but
\* for one disagreement of the tables.  A strange access ranks with the moderate
\* ones and is priced like an easy one, so that it may take the place of a
\* moderate one in the merge (analyze_batch, calculate, landscaping_formula).
OnlyStrangeAccessLowersThePrice ==
    estimate # Unseen =>
        \A i \in DOMAIN photos :
            LET seen == Analysis(<<photos[i]>>)
            IN (/\ Priceable(seen)
                /\ \A j \in DOMAIN photos : photos[j].area \in {Unseen, photos[i].area})
               => \/ Price(seen) <= estimate
                  \/ /\ trade = "landscaping"
                     /\ photos[i].access = "moderate"
                     /\ Analysis(photos).access \notin Known("access")

=============================================================================
