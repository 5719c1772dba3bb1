------------------------------ MODULE Pricing ------------------------------
(***************************************************************************)
(* The pricing engine (core/pricing_engine.py) between the handlers that   *)
(* feed it: PATCH /org/pricing saves an organization's settings, POST      *)
(* /quotes prices with them and stores a snapshot of what it priced with,  *)
(* GET /quotes/{id}/explain prices the snapshot again.                     *)
(*                                                                         *)
(* The engine computes with decimals and rounds what it publishes.  Here   *)
(* percentages are integers over Scale, amounts that go in are integers    *)
(* over Fine per cent, and a figure is an exact fraction until it is       *)
(* rounded.  The sum of the lines of a kind is one amount.                 *)
(***************************************************************************)
EXTENDS Integers

CONSTANTS
    Scale,        \* the unit of percentages: 100 is whole percents
    Fine,         \* units of an amount per cent
    Amounts,      \* sums of labor lines, and of material lines, that occur
    Rates,        \* percentages that callers send
    Unset         \* no lines of a kind; no override; no quote yet

ASSUME PricingConstants ==
    /\ Scale \in Nat \ {0}
    /\ Fine \in Nat \ {0}
    /\ Amounts \subseteq Nat
    /\ Rates \subseteq Nat
    /\ Unset \notin Nat

VARIABLES
    settings,     \* organizations.settings: what prices a quote
    priced        \* a stored quote: what it was priced with, and its figures

pricingVars == <<settings, priced>>

-----------------------------------------------------------------------------
(***************************************************************************)
(* The engine.                                                             *)
(***************************************************************************)

\* An input without lines is refused, and so are percentages out of range.
Accepts(input) ==
    /\ input.labor # Unset \/ input.material # Unset
    /\ 10 * input.overhead <= 9 * Scale
    /\ 10 * input.margin < 9 * Scale
    /\ 100 * (input.overhead + input.margin) < 95 * Scale

\* Mutant: cents are cut off.
CentsDown(n, d) == n \div d

\* ROUND_HALF_UP of n / d cents.
Cents(n, d) == (2 * n + d) \div (2 * d)

\* The cents nearest to n / d.  A figure derived from the price carries the
\* rounding of a 28-digit quotient: half a cent may come out just below.
Nearest(n, d) ==
    {Cents(n, d)} \cup (IF (2 * n + d) % (2 * d) = 0 THEN {Cents(n, d) - 1} ELSE {})

Amount(total) == IF total = Unset THEN 0 ELSE total

\* The published figures, in cents, over one denominator.  The price is the
\* cost over 1 - margin, so that the margin is a share of the price.
Figures(input) ==
    LET labor    == Amount(input.labor)
        material == Amount(input.material)
        rest     == Scale - input.margin
        unit     == Fine * Scale * rest
        cost     == (labor + material) * (Scale + input.overhead)
    IN [labor       : {Cents(labor * Scale * rest, unit)},
        material    : {Cents(material * Scale * rest, unit)},
        overhead    : {Cents((labor + material) * input.overhead * rest, unit)},
        total       : {Cents(cost * rest, unit)},
        profit      : {Cents(cost * input.margin, unit)},
        recommended : {Cents(cost * Scale, unit)},
        tax         : Nearest(cost * input.tax, unit),
        withTax     : Nearest(cost * (Scale + input.tax), unit)]

-----------------------------------------------------------------------------
(***************************************************************************)
(* The handlers.                                                           *)
(***************************************************************************)

Settings == [overhead : Nat, margin : Nat, tax : Nat]

Snapshot == [labor : Nat \cup {Unset}, material : Nat \cup {Unset},
             overhead : Nat, margin : Nat, tax : Nat]

FigureNames == {"labor", "material", "overhead", "total", "profit",
                "recommended", "tax", "withTax"}

PricingTypeOK ==
    /\ settings \in Settings
    /\ \/ priced = Unset
       \/ priced \in [snapshot : Snapshot, figures : [FigureNames -> Int]]

\* DEFAULT_ORG_SETTINGS.
PricingInit ==
    /\ settings = [overhead |-> (15 * Scale) \div 100,
                   margin   |-> (20 * Scale) \div 100,
                   tax      |-> (8 * Scale) \div 100]
    /\ priced = Unset

\* The limits of the fields that callers send.
InBounds(s) ==
    /\ 10 * s.overhead <= 9 * Scale
    /\ 10 * s.margin < 9 * Scale
    /\ 2 * s.tax <= Scale

\* Mutant: the handler leaves the test of the sum to the engine.
SaveSettingsUnsummed(overhead, margin, tax) ==
    LET s == [overhead |-> overhead, margin |-> margin, tax |-> tax]
    IN
    /\ InBounds(s)
    /\ settings' = s
    /\ UNCHANGED priced

SaveSettings(overhead, margin, tax) ==
    LET s == [overhead |-> overhead, margin |-> margin, tax |-> tax]
    IN
    /\ InBounds(s)
    /\ 100 * (s.overhead + s.margin) < 95 * Scale
    /\ settings' = s
    /\ UNCHANGED priced

\* What the quote is priced with: an override, by those who may, replaces the
\* setting for this quote.
Input(labor, material, override) ==
    LET Chosen(field) ==
            IF override[field] = Unset THEN settings[field] ELSE override[field]
    IN [labor    |-> labor,
        material |-> material,
        overhead |-> Chosen("overhead"),
        margin   |-> Chosen("margin"),
        tax      |-> Chosen("tax")]

\* Mutant: the snapshot is taken from the settings.
PriceQuoteOfSettings(labor, material, override) ==
    LET input == Input(labor, material, override)
    IN
    /\ priced = Unset
    /\ InBounds(input)
    /\ Accepts(input)
    /\ \E f \in Figures(input) :
          priced' = [snapshot |-> [input EXCEPT !.overhead = settings.overhead],
                     figures  |-> f]
    /\ UNCHANGED settings

PriceQuote(labor, material, override) ==
    LET input == Input(labor, material, override)
    IN
    /\ priced = Unset
    /\ InBounds(input)
    /\ Accepts(input)
    /\ \E f \in Figures(input) :
          priced' = [snapshot |-> input, figures |-> f]
    /\ UNCHANGED settings

Override == [overhead : Rates \cup {Unset}, margin : Rates \cup {Unset},
             tax : Rates \cup {Unset}]

PricingNext ==
    \/ \E overhead, margin, tax \in Rates : SaveSettings(overhead, margin, tax)
    \/ \E labor, material \in Amounts \cup {Unset}, override \in Override :
          PriceQuote(labor, material, override)

PricingSpec == PricingInit /\ [][PricingNext]_pricingVars

-----------------------------------------------------------------------------

Within(bound, x, y) == x - y <= bound /\ y - x <= bound

\* Although each is rounded by itself, the published figures add up: the parts
\* of the cost to the cost, cost and profit to the price, price and tax to the
\* total, within a cent; all parts to the price within two (compute).
AddsUp(f) ==
    /\ Within(1, f.labor + f.material + f.overhead, f.total)
    /\ Within(1, f.total + f.profit, f.recommended)
    /\ Within(1, f.recommended + f.tax, f.withTax)
    /\ Within(2, f.labor + f.material + f.overhead + f.profit, f.recommended)

PublishedFiguresAddUp == priced # Unset => AddsUp(priced.figures)

\* Whatever was saved, a quote with a line and no override is priced: the
\* handler that saves and the engine agree on what is out of range.
SavedSettingsPrice ==
    \A labor \in Amounts :
        Accepts([labor    |-> labor,             material |-> Unset,
                 overhead |-> settings.overhead, margin   |-> settings.margin,
                 tax      |-> settings.tax])

\* Whatever is saved after it, a stored quote can be explained: the engine
\* takes its snapshot and comes to the stored price, within the cent that
\* explain_quote allows.
StoredQuotesExplain ==
    priced # Unset =>
        /\ Accepts(priced.snapshot)
        /\ \A f \in Figures(priced.snapshot) :
              Within(1, f.recommended, priced.figures.recommended)

\* Neither pricing with saved settings nor pricing a snapshot again can fail
\* (update_pricing, create_quote, explain_quote against compute).
PricingNeverFails == SavedSettingsPrice /\ StoredQuotesExplain

=============================================================================
