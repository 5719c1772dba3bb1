------------------------------ MODULE DeskProofs ------------------------------
(***************************************************************************)
(* Proofs about the quoting desk (Desk), for every value of its constants: *)
(* the pricing engine, the rate limiter, the legacy quotes, the assistant, *)
(* and the desk that is made of them.                                      *)
(***************************************************************************)
EXTENDS Desk, HandlersProofs, FiniteSetTheorems

-----------------------------------------------------------------------------
(* The pricing engine, for every scale, every fineness of the amounts, and *)
(* every set of amounts and of percentages.                                *)
(*                                                                         *)
(* All figures are fractions over one denominator.  A figure rounded half  *)
(* up differs from its fraction by at most half a cent, so a sum of k      *)
(* figures differs from the figure of the sum by less than (k + 1)/2.      *)

\* Half up: a figure is more than its fraction less a half, and at most its
\* fraction and a half.
LEMMA HalfUp ==
  ASSUME NEW n \in Int, NEW d \in Nat \ {0}
  PROVE  /\ Cents(n, d) \in Int
         /\ 2 * (d * Cents(n, d)) <= 2 * n + d
         /\ 2 * (d * Cents(n, d)) > 2 * n - d
<1> DEFINE a == 2 * n + d
           b == 2 * d
           q == a \div b
<1>1. a \in Int /\ b \in Int /\ b > 0
  OBVIOUS
<1>2. q \in Int /\ b * q <= a /\ a < b * (q + 1)
  <2> HIDE DEF a, b
  <2>1. QED
    BY <1>1
<1>3. b * q = 2 * (d * q) /\ b * (q + 1) = 2 * (d * q) + 2 * d
  <2> HIDE DEF q
  <2>1. QED
    BY <1>2
<1>4. Cents(n, d) = q
  BY DEF Cents
<1> HIDE DEF q
<1>5. QED
  BY <1>2, <1>3, <1>4

\* A derived figure may be just half a cent below.
LEMMA HalfOff ==
  ASSUME NEW n \in Int, NEW d \in Nat \ {0}, NEW c \in Nearest(n, d)
  PROVE  /\ c \in Int
         /\ 2 * (d * c) <= 2 * n + d
         /\ 2 * (d * c) >= 2 * n - d
<1> DEFINE q == Cents(n, d)
<1>1. /\ q \in Int
      /\ 2 * (d * q) <= 2 * n + d
      /\ 2 * (d * q) > 2 * n - d
  BY HalfUp
<1>2. CASE c = q
  BY <1>1, <1>2
<1>3. CASE c # q
  <2>1. c = q - 1 /\ (2 * n + d) % (2 * d) = 0
    BY <1>3 DEF Nearest
  <2>2. 2 * (d * q) = 2 * n + d
    <3> DEFINE a == 2 * n + d
               b == 2 * d
    <3>1. a \in Int /\ b \in Int /\ b > 0
      OBVIOUS
    <3>2. q = a \div b /\ a % b = 0
      BY <2>1 DEF Cents
    <3> HIDE DEF a, b, q
    <3>3. b * q = a
      BY <3>1, <3>2
    <3>4. QED
      BY <3>3, <1>1 DEF a, b
  <2> HIDE DEF q
  <2>3. d * c = d * q - d
    BY <1>1, <2>1
  <2>4. QED
    BY <1>1, <2>1, <2>2, <2>3
<1>4. QED
  BY <1>2, <1>3

\* A whole number less than k + 1 parts of d is at most k.
LEMMA WholeParts ==
  ASSUME NEW d \in Nat \ {0}, NEW x \in Int, NEW k \in Int, d * x < d * (k + 1)
  PROVE  x <= k
<1>1. SUFFICES ASSUME x >= k + 1 PROVE FALSE
  OBVIOUS
<1>2. x - (k + 1) \in Nat
  BY <1>1
<1>3. d * (x - (k + 1)) >= 0
  BY <1>2
<1>4. d * (x - (k + 1)) = d * x - d * (k + 1)
  OBVIOUS
<1>5. QED
  BY <1>3, <1>4

LEMMA WithinParts ==
  ASSUME NEW d \in Nat \ {0}, NEW x \in Int, NEW y \in Int, NEW k \in Int,
         d * x - d * y < d * (k + 1), d * y - d * x < d * (k + 1)
  PROVE  Within(k, x, y)
<1>1. d * (x - y) = d * x - d * y /\ d * (y - x) = d * y - d * x
  OBVIOUS
<1>2. x - y <= k
  BY <1>1, WholeParts
<1>3. y - x <= k
  BY <1>1, WholeParts
<1>4. QED
  BY <1>2, <1>3 DEF Within

-----------------------------------------------------------------------------
(* The figures.                                                            *)

\* What the engine is given.
LEMMA AmountType ==
  ASSUME NEW total \in Nat \cup {Unset}
  PROVE  Amount(total) \in Nat
  BY PricingConstants DEF Amount

\* The engine's figures are whole cents and add up, whatever it accepts.
LEMMA FiguresAddUp ==
  ASSUME NEW input \in Snapshot, Accepts(input), NEW f \in Figures(input)
  PROVE  AddsUp(f) /\ f \in [FigureNames -> Int]
<1> DEFINE labor    == Amount(input.labor)
           material == Amount(input.material)
           over     == input.overhead
           margin   == input.margin
           tax      == input.tax
           rest     == Scale - margin
           d        == Fine * Scale * rest
           cost     == (labor + material) * (Scale + over)
           L        == labor * Scale * rest
           M        == material * Scale * rest
           O        == (labor + material) * over * rest
           P        == cost * margin
           X        == cost * tax
<1>1. /\ labor \in Nat /\ material \in Nat /\ over \in Nat /\ margin \in Nat
      /\ tax \in Nat /\ rest \in Nat \ {0} /\ Scale \in Nat \ {0} /\ Fine \in Nat \ {0}
  <2>1. /\ input.labor \in Nat \cup {Unset} /\ input.material \in Nat \cup {Unset}
        /\ over \in Nat /\ margin \in Nat /\ tax \in Nat
    BY DEF Snapshot
  <2>2. labor \in Nat /\ material \in Nat
    BY <2>1, AmountType
  <2>3. 10 * margin < 9 * Scale
    BY DEF Accepts
  <2> HIDE DEF labor, material, over, margin, tax
  <2>4. rest \in Nat \ {0}
    BY <2>1, <2>3, PricingConstants
  <2>5. QED
    BY <2>1, <2>2, <2>4, PricingConstants
<1> HIDE DEF labor, material, over, margin, tax
<1>2. d \in Nat \ {0}
  <2> HIDE DEF rest
  <2>1. Fine * Scale \in Nat \ {0}
    BY <1>1
  <2> DEFINE fs == Fine * Scale
  <2> HIDE DEF fs
  <2>2. fs * rest \in Nat \ {0}
    BY <1>1, <2>1 DEF fs
  <2>3. QED
    BY <2>2 DEF fs
<1>3. cost \in Int
  BY <1>1
<1>4. L \in Int /\ M \in Int /\ O \in Int /\ P \in Int /\ X \in Int
  BY <1>1
<1>5. /\ cost * rest = L + M + O
      /\ cost * Scale = L + M + O + P
      /\ cost * (Scale + tax) = L + M + O + P + X
  <2>1. cost * rest = L + M + O
    <3> HIDE DEF rest
    <3>1. QED
      BY <1>1
  <2>2. cost * Scale = cost * rest + P
    <3> HIDE DEF cost
    <3>1. QED
      BY <1>1, <1>3
  <2>3. cost * (Scale + tax) = cost * Scale + X
    <3> HIDE DEF cost
    <3>1. QED
      BY <1>1, <1>3
  <2> HIDE DEF L, M, O, P, X, cost, rest
  <2>4. QED
    BY <1>1, <1>3, <1>4, <2>1, <2>2, <2>3
<1>6. /\ f.labor = Cents(L, d) /\ f.material = Cents(M, d) /\ f.overhead = Cents(O, d)
      /\ f.total = Cents(cost * rest, d) /\ f.profit = Cents(P, d)
      /\ f.recommended = Cents(cost * Scale, d)
      /\ f.tax \in Nearest(X, d)
      /\ f.withTax \in Nearest(cost * (Scale + tax), d)
  BY DEF Figures, labor, material, over, margin, tax
<1>7. f = [labor |-> f.labor, material |-> f.material, overhead |-> f.overhead,
           total |-> f.total, profit |-> f.profit, recommended |-> f.recommended,
           tax |-> f.tax, withTax |-> f.withTax]
  BY DEF Figures
<1> HIDE DEF L, M, O, P, X, cost, rest, d
<1>8. /\ f.labor \in Int /\ f.material \in Int /\ f.overhead \in Int
      /\ f.total \in Int /\ f.profit \in Int /\ f.recommended \in Int
      /\ f.tax \in Int /\ f.withTax \in Int
  <2>1. L + M + O \in Int /\ L + M + O + P \in Int /\ L + M + O + P + X \in Int
    BY <1>4
  <2>2. f.labor \in Int /\ f.material \in Int /\ f.overhead \in Int /\ f.profit \in Int
    BY <1>2, <1>4, <1>6, HalfUp
  <2>3. f.total \in Int /\ f.recommended \in Int
    BY <1>2, <1>5, <1>6, <2>1, HalfUp
  <2>4. f.tax \in Int
    BY <1>2, <1>4, <1>6, HalfOff
  <2>5. f.withTax \in Int
    BY <1>2, <1>5, <1>6, <2>1, HalfOff
  <2>6. QED
    BY <2>2, <2>3, <2>4, <2>5
<1>9. AddsUp(f)
  <2>1. /\ L + M + O \in Int /\ L + M + O + P \in Int /\ L + M + O + P + X \in Int
    BY <1>4
  <2>2. /\ 2 * (d * f.labor) <= 2 * L + d /\ 2 * (d * f.labor) > 2 * L - d
        /\ 2 * (d * f.material) <= 2 * M + d /\ 2 * (d * f.material) > 2 * M - d
        /\ 2 * (d * f.overhead) <= 2 * O + d /\ 2 * (d * f.overhead) > 2 * O - d
        /\ 2 * (d * f.profit) <= 2 * P + d /\ 2 * (d * f.profit) > 2 * P - d
    BY <1>2, <1>4, <1>6, HalfUp
  <2>3. /\ 2 * (d * f.total) <= 2 * (L + M + O) + d
        /\ 2 * (d * f.total) > 2 * (L + M + O) - d
        /\ 2 * (d * f.recommended) <= 2 * (L + M + O + P) + d
        /\ 2 * (d * f.recommended) > 2 * (L + M + O + P) - d
    BY <1>2, <1>5, <1>6, <2>1, HalfUp
  <2>4. /\ 2 * (d * f.tax) <= 2 * X + d /\ 2 * (d * f.tax) >= 2 * X - d
        /\ 2 * (d * f.withTax) <= 2 * (L + M + O + P + X) + d
        /\ 2 * (d * f.withTax) >= 2 * (L + M + O + P + X) - d
    BY <1>2, <1>4, <1>5, <1>6, <2>1, HalfOff
  <2> DEFINE l == f.labor m == f.material o == f.overhead t == f.total
             p == f.profit r == f.recommended x == f.tax w == f.withTax
             dl == d * l dm == d * m do == d * o dt == d * t
             dp == d * p dr == d * r dx == d * x dw == d * w
  <2> HIDE DEF l, m, o, t, p, r, x, w, dl, dm, do, dt, dp, dr, dx, dw
  <2>5. /\ d \in Int /\ L \in Int /\ M \in Int /\ O \in Int /\ P \in Int /\ X \in Int
        /\ dl \in Int /\ dm \in Int /\ do \in Int /\ dt \in Int
        /\ dp \in Int /\ dr \in Int /\ dx \in Int /\ dw \in Int
        /\ 2 * dl <= 2 * L + d /\ 2 * dl > 2 * L - d
        /\ 2 * dm <= 2 * M + d /\ 2 * dm > 2 * M - d
        /\ 2 * do <= 2 * O + d /\ 2 * do > 2 * O - d
        /\ 2 * dp <= 2 * P + d /\ 2 * dp > 2 * P - d
        /\ 2 * dt <= 2 * (L + M + O) + d /\ 2 * dt > 2 * (L + M + O) - d
        /\ 2 * dr <= 2 * (L + M + O + P) + d /\ 2 * dr > 2 * (L + M + O + P) - d
        /\ 2 * dx <= 2 * X + d /\ 2 * dx >= 2 * X - d
        /\ 2 * dw <= 2 * (L + M + O + P + X) + d
        /\ 2 * dw >= 2 * (L + M + O + P + X) - d
    BY <1>2, <1>4, <1>8, <2>2, <2>3, <2>4
       DEF l, m, o, t, p, r, x, w, dl, dm, do, dt, dp, dr, dx, dw
  <2>6. Within(1, l + m + o, t)
    <3> DEFINE s == l + m + o
    <3>1. /\ dl + dm + do - dt < 2 * d
          /\ dt - (dl + dm + do) < 2 * d
      BY <2>5
    <3>2. d * s = dl + dm + do /\ d * (1 + 1) = 2 * d
      BY <1>2, <1>8 DEF dl, dm, do, l, m, o
    <3>3. s \in Int /\ t \in Int /\ 1 \in Int
      BY <1>8 DEF l, m, o, t
    <3> HIDE DEF s
    <3>4. d * s - d * t < d * (1 + 1) /\ d * t - d * s < d * (1 + 1)
      BY <3>1, <3>2, <2>5 DEF dt
    <3>5. Within(1, s, t)
      BY <1>2, <3>3, <3>4, WithinParts, Zenon
    <3>6. QED
      BY <3>5 DEF s
  <2>7. Within(1, t + p, r)
    <3> DEFINE s == t + p
    <3>1. /\ dt + dp - dr < 2 * d
          /\ dr - (dt + dp) < 2 * d
      BY <2>5
    <3>2. d * s = dt + dp /\ d * (1 + 1) = 2 * d
      BY <1>2, <1>8 DEF dt, dp, t, p
    <3>3. s \in Int /\ r \in Int /\ 1 \in Int
      BY <1>8 DEF t, p, r
    <3> HIDE DEF s
    <3>4. d * s - d * r < d * (1 + 1) /\ d * r - d * s < d * (1 + 1)
      BY <3>1, <3>2, <2>5 DEF dr
    <3>5. Within(1, s, r)
      BY <1>2, <3>3, <3>4, WithinParts, Zenon
    <3>6. QED
      BY <3>5 DEF s
  <2>8. Within(1, r + x, w)
    <3> DEFINE s == r + x
    <3>1. /\ dr + dx - dw < 2 * d
          /\ dw - (dr + dx) < 2 * d
      BY <2>5
    <3>2. d * s = dr + dx /\ d * (1 + 1) = 2 * d
      BY <1>2, <1>8 DEF dr, dx, r, x
    <3>3. s \in Int /\ w \in Int /\ 1 \in Int
      BY <1>8 DEF r, x, w
    <3> HIDE DEF s
    <3>4. d * s - d * w < d * (1 + 1) /\ d * w - d * s < d * (1 + 1)
      BY <3>1, <3>2, <2>5 DEF dw
    <3>5. Within(1, s, w)
      BY <1>2, <3>3, <3>4, WithinParts, Zenon
    <3>6. QED
      BY <3>5 DEF s
  <2>9. Within(2, l + m + o + p, r)
    <3> DEFINE s == l + m + o + p
    <3>1. /\ dl + dm + do + dp - dr < 3 * d
          /\ dr - (dl + dm + do + dp) < 3 * d
      BY <2>5
    <3>2. d * s = dl + dm + do + dp /\ d * (2 + 1) = 3 * d
      BY <1>2, <1>8 DEF dl, dm, do, dp, l, m, o, p
    <3>3. s \in Int /\ r \in Int /\ 2 \in Int
      BY <1>8 DEF l, m, o, p, r
    <3> HIDE DEF s
    <3>4. d * s - d * r < d * (2 + 1) /\ d * r - d * s < d * (2 + 1)
      BY <3>1, <3>2, <2>5 DEF dr
    <3>5. Within(2, s, r)
      BY <1>2, <3>3, <3>4, WithinParts, Zenon
    <3>6. QED
      BY <3>5 DEF s
  <2>10. QED
    BY <2>6, <2>7, <2>8, <2>9 DEF AddsUp, l, m, o, t, p, r, x, w
<1>10. f \in [FigureNames -> Int]
  BY <1>7, <1>8 DEF FigureNames
<1>11. QED
  BY <1>9, <1>10

-----------------------------------------------------------------------------
(* The invariant: what is saved and what is stored is what the engine       *)
(* accepts, and stored figures are the engine's for their snapshot.         *)

SettingsInRange ==
    InBounds(settings) /\ 100 * (settings.overhead + settings.margin) < 95 * Scale

StoredByEngine ==
    priced # Unset => /\ Accepts(priced.snapshot)
                      /\ priced.figures \in Figures(priced.snapshot)

PricingInv == PricingTypeOK /\ SettingsInRange /\ StoredByEngine

LEMMA PricingInvInit == PricingInit => PricingInv
<1> SUFFICES ASSUME PricingInit PROVE PricingInv
  OBVIOUS
<1> DEFINE o == (15 * Scale) \div 100
           m == (20 * Scale) \div 100
           t == (8 * Scale) \div 100
<1>1. /\ o \in Nat /\ 100 * o <= 15 * Scale
      /\ m \in Nat /\ 100 * m <= 20 * Scale
      /\ t \in Nat /\ 100 * t <= 8 * Scale
      /\ Scale \in Nat \ {0}
  BY PricingConstants
<1>2. settings = [overhead |-> o, margin |-> m, tax |-> t] /\ priced = Unset
  BY DEF PricingInit
<1> HIDE DEF o, m, t
<1>3. PricingTypeOK
  BY <1>1, <1>2 DEF PricingTypeOK, Settings
<1>4. SettingsInRange
  BY <1>1, <1>2 DEF SettingsInRange, InBounds
<1>5. QED
  BY <1>2, <1>3, <1>4 DEF PricingInv, StoredByEngine

LEMMA SaveSettingsInv ==
  ASSUME PricingInv, NEW overhead \in Rates, NEW margin \in Rates, NEW tax \in Rates,
         SaveSettings(overhead, margin, tax)
  PROVE  PricingInv'
<1>1. /\ settings' = [overhead |-> overhead, margin |-> margin, tax |-> tax]
      /\ priced' = priced
  BY DEF SaveSettings
<1>2. settings' \in Settings
  BY <1>1, PricingConstants DEF Settings
<1>3. SettingsInRange'
  BY <1>1 DEF SaveSettings, SettingsInRange, InBounds
<1>4. QED
  BY <1>1, <1>2, <1>3 DEF PricingInv, PricingTypeOK, StoredByEngine

LEMMA PriceQuoteInv ==
  ASSUME PricingInv, NEW labor \in Amounts \cup {Unset},
         NEW material \in Amounts \cup {Unset}, NEW override \in Override,
         PriceQuote(labor, material, override)
  PROVE  PricingInv'
<1> DEFINE input == Input(labor, material, override)
<1>1. input \in Snapshot
  <2>1. \A field \in {"overhead", "margin", "tax"} :
           /\ override[field] \in Nat \cup {Unset}
           /\ settings[field] \in Nat
    BY PricingConstants DEF PricingInv, PricingTypeOK, Settings, Override
  <2>2. QED
    BY <2>1, PricingConstants DEF Input, Snapshot
<1> HIDE DEF input
<1>2. Accepts(input) /\ settings' = settings
  BY DEF PriceQuote, input
<1>3. PICK f \in Figures(input) : priced' = [snapshot |-> input, figures |-> f]
  BY DEF PriceQuote, input
<1>4. f \in [FigureNames -> Int]
  BY <1>1, <1>2, FiguresAddUp
<1>5. PricingTypeOK'
  BY <1>1, <1>2, <1>3, <1>4 DEF PricingInv, PricingTypeOK
<1>6. StoredByEngine'
  BY <1>2, <1>3 DEF StoredByEngine
<1>7. QED
  BY <1>2, <1>5, <1>6 DEF PricingInv, SettingsInRange

LEMMA PricingInvStep == PricingInv /\ [PricingNext]_pricingVars => PricingInv'
<1> SUFFICES ASSUME PricingInv, [PricingNext]_pricingVars PROVE PricingInv'
  OBVIOUS
<1>1. CASE \E overhead, margin, tax \in Rates : SaveSettings(overhead, margin, tax)
  BY <1>1, SaveSettingsInv
<1>2. CASE \E labor, material \in Amounts \cup {Unset}, override \in Override :
              PriceQuote(labor, material, override)
  BY <1>2, PriceQuoteInv
<1>3. CASE UNCHANGED pricingVars
  BY <1>3 DEF pricingVars, PricingInv, PricingTypeOK, SettingsInRange, StoredByEngine
<1>4. QED
  BY <1>1, <1>2, <1>3 DEF PricingNext

\* Settings stay in the engine's range, and a stored quote keeps figures the
\* engine gives for its snapshot (update_pricing, create_quote).
THEOREM PricingInvariant == PricingSpec => []PricingInv
  BY PricingInvInit, PricingInvStep, PTL DEF PricingSpec

-----------------------------------------------------------------------------
(* The properties.                                                         *)

\* The published figures of every stored quote add up, for all amounts and
\* percentages the engine accepts (compute).
THEOREM FiguresHold == PricingSpec => []PublishedFiguresAddUp
<1>1. PricingInv => PublishedFiguresAddUp
  <2> SUFFICES ASSUME PricingInv, priced # Unset PROVE AddsUp(priced.figures)
    BY DEF PublishedFiguresAddUp
  <2>1. priced.snapshot \in Snapshot
    BY DEF PricingInv, PricingTypeOK
  <2>2. Accepts(priced.snapshot) /\ priced.figures \in Figures(priced.snapshot)
    BY DEF PricingInv, StoredByEngine
  <2>3. QED
    BY <2>1, <2>2, FiguresAddUp
<1>2. QED
  BY <1>1, PricingInvariant, PTL

\* The price is one figure: all the engine's answers for an input have it.
LEMMA OnePrice ==
  ASSUME NEW input \in Snapshot, Accepts(input),
         NEW f \in Figures(input), NEW g \in Figures(input)
  PROVE  Within(1, f.recommended, g.recommended)
<1>1. f.recommended = g.recommended
  BY DEF Figures
<1>2. f.recommended \in Int
  BY FiguresAddUp DEF FigureNames
<1>3. QED
  BY <1>1, <1>2 DEF Within

\* Whatever is saved before and after, a quote is priced and its snapshot can be
\* priced again (update_pricing, create_quote, explain_quote).
THEOREM PricingWorks == PricingSpec => []PricingNeverFails
<1>1. PricingInv => SavedSettingsPrice
  <2> SUFFICES ASSUME PricingInv, NEW labor \in Amounts
               PROVE  Accepts([labor    |-> labor,             material |-> Unset,
                               overhead |-> settings.overhead, margin   |-> settings.margin,
                               tax      |-> settings.tax])
    BY DEF SavedSettingsPrice
  <2>1. labor # Unset
    BY PricingConstants
  <2>2. QED
    BY <2>1 DEF PricingInv, SettingsInRange, InBounds, Accepts
<1>2. PricingInv => StoredQuotesExplain
  <2> SUFFICES ASSUME PricingInv, priced # Unset,
                      NEW f \in Figures(priced.snapshot)
               PROVE  /\ Accepts(priced.snapshot)
                      /\ Within(1, f.recommended, priced.figures.recommended)
    BY DEF StoredQuotesExplain, PricingInv, StoredByEngine
  <2>1. priced.snapshot \in Snapshot
    BY DEF PricingInv, PricingTypeOK
  <2>2. Accepts(priced.snapshot) /\ priced.figures \in Figures(priced.snapshot)
    BY DEF PricingInv, StoredByEngine
  <2>3. QED
    BY <2>1, <2>2, OnePrice
<1>3. QED
  BY <1>1, <1>2, PricingInvariant, PTL DEF PricingNeverFails

-----------------------------------------------------------------------------
(* The rate limiter.                                                       *)
(*                                                                         *)
(* What the limiter keeps is pruned at each call and swept now and then,   *)
(* what the property counts is the whole history.  The invariant that      *)
(* joins them: what is left of a key's list is exactly the history of its  *)
(* allowed calls in the window that ends now.                              *)

\* No call is from the future, and there are finitely many.
CallsArePast == IsFiniteSet(calls) /\ \A c \in calls : c.at <= now

\* The kept lists agree with the history.
ListsAreHistory == \A k \in Keys : Recent(k) = Admitted(k, now)

LimiterInv == LimiterTypeOK /\ CallsArePast /\ ListsAreHistory

-----------------------------------------------------------------------------
(* The table.                                                              *)

\* The cleanup drops only keys with nothing in the window.
LEMMA SweepKeepsWhatCounts ==
  ASSUME NEW h, NEW k, k \in DOMAIN h, k \notin DOMAIN Swept(h)
  PROVE  \A c \in h[k] : ~InWindow(c)
  BY DEF Swept

LEMMA SweepKeepsLists ==
  ASSUME NEW h
  PROVE  /\ DOMAIN Swept(h) \subseteq DOMAIN h
         /\ \A k \in DOMAIN Swept(h) : Swept(h)[k] = h[k]
  BY DEF Swept

\* Storing the list of one key, swept or not, leaves the lists of the others.
LEMMA StoredList ==
  ASSUME NEW k \in Keys, NEW window, \A c \in window : InWindow(c),
         \/ hits' = Swept(Put(k, window))
         \/ hits' = Put(k, window),
         now' = now
  PROVE  /\ \A x \in Keys : Recent(x)' = IF x = k THEN window ELSE Recent(x)
         /\ DOMAIN hits' \subseteq DOMAIN hits \cup {k}
         /\ \A x \in DOMAIN hits' :
               hits'[x] = IF x = k THEN window ELSE hits[x]
<1> DEFINE put == Put(k, window)
<1>1. /\ DOMAIN put = DOMAIN hits \cup {k}
      /\ put[k] = window
      /\ \A x \in DOMAIN hits \ {k} : put[x] = hits[x]
  BY DEF Put
<1>2. /\ DOMAIN hits' \subseteq DOMAIN put
      /\ \A x \in DOMAIN hits' : hits'[x] = put[x]
      /\ \A x \in DOMAIN put \ DOMAIN hits' : \A c \in put[x] : ~InWindow(c)
  <2> HIDE DEF put
  <2>1. CASE hits' = put
    BY <2>1
  <2>2. CASE hits' = Swept(put)
    BY <2>2, SweepKeepsLists, SweepKeepsWhatCounts
  <2>3. QED
    BY <2>1, <2>2 DEF put
<1>3. ASSUME NEW x \in Keys
      PROVE  Recent(x)' = IF x = k THEN window ELSE Recent(x)
  <2> HIDE DEF put
  <2>1. Recent(x)' = IF x \in DOMAIN hits' THEN {c \in hits'[x] : InWindow(c)}
                     ELSE {}
    BY DEF Recent, InWindow
  <2>2. CASE x \in DOMAIN hits'
    BY <2>1, <2>2, <1>1, <1>2 DEF Recent
  <2>3. CASE x \notin DOMAIN hits'
    BY <2>1, <2>3, <1>1, <1>2 DEF Recent
  <2>4. QED
    BY <2>2, <2>3
<1>4. QED
  BY <1>1, <1>2, <1>3

-----------------------------------------------------------------------------
(* The history.                                                            *)

\* What a new call adds to the windows: itself, when it is allowed, to the
\* window of its key that ends now.
LEMMA AdmittedGrows ==
  ASSUME LimiterTypeOK, NEW c, c.at = now, calls' = calls \cup {c},
         NEW x, NEW t \in 0..now
  PROVE  Admitted(x, t)' = IF c.allowed /\ x = c.key /\ t = now
                           THEN Admitted(x, t) \cup {c}
                           ELSE Admitted(x, t)
<1>1. now \in Nat /\ now - now < Window
  BY RateLimiterConstants DEF LimiterTypeOK
<1>2. (c.key = x /\ c.allowed /\ c.at <= t /\ t - c.at < Window)
      <=> (c.allowed /\ x = c.key /\ t = now)
  BY <1>1
<1>3. Admitted(x, t)' = {d \in calls \cup {c} :
                            d.key = x /\ d.allowed /\ d.at <= t /\ t - d.at < Window}
  BY DEF Admitted
<1>4. QED
  BY <1>2, <1>3 DEF Admitted

\* The record that each kind of call leaves.
LEMMA NewCalls ==
  ASSUME LimiterTypeOK, CallsArePast, NEW k \in Keys,
         Cardinality(calls) < MaxCalls
  PROVE  NewCall(k, TRUE) \in Call /\ NewCall(k, FALSE) \in Call
<1>1. Cardinality(calls) \in Nat
  BY FS_CardinalityType DEF CallsArePast
<1>2. QED
  BY <1>1, RateLimiterConstants DEF LimiterTypeOK, NewCall, Call

LEMMA AdmitRecords ==
  ASSUME LimiterTypeOK, CallsArePast, NEW k \in Keys, Admit(k)
  PROVE  \E c \in Call : /\ c.key = k /\ c.at = now /\ c.allowed
                        /\ calls' = calls \cup {c} /\ now' = now
                        /\ hits' = Swept(Put(k, Recent(k) \cup {c}))
<1>1. /\ NewCall(k, TRUE).key = k
      /\ NewCall(k, TRUE).at = now
      /\ NewCall(k, TRUE).allowed
  BY DEF NewCall
<1>2. NewCall(k, TRUE) \in Call
  BY NewCalls DEF Admit
<1>3. /\ calls' = calls \cup {NewCall(k, TRUE)}
      /\ hits' = Swept(Put(k, Recent(k) \cup {NewCall(k, TRUE)}))
      /\ now' = now
  BY Zenon DEF Admit
<1>4. QED
  BY <1>1, <1>2, <1>3, Zenon

LEMMA RefuseRecords ==
  ASSUME LimiterTypeOK, CallsArePast, NEW k \in Keys, Refuse(k)
  PROVE  \E c \in Call : /\ c.key = k /\ c.at = now /\ ~c.allowed
                        /\ calls' = calls \cup {c} /\ now' = now
                        /\ hits' = Put(k, Recent(k))
<1>1. /\ NewCall(k, FALSE).key = k
      /\ NewCall(k, FALSE).at = now
      /\ ~NewCall(k, FALSE).allowed
  BY DEF NewCall
<1>2. NewCall(k, FALSE) \in Call
  BY NewCalls DEF Refuse
<1>3. /\ calls' = calls \cup {NewCall(k, FALSE)}
      /\ hits' = Put(k, Recent(k))
      /\ now' = now
  BY Zenon DEF Refuse
<1>4. QED
  BY <1>1, <1>2, <1>3, Zenon

LEMMA AdmittedFinite ==
  ASSUME CallsArePast, NEW k, NEW t
  PROVE  IsFiniteSet(Admitted(k, t)) /\ Cardinality(Admitted(k, t)) \in Nat
  BY FS_Subset, FS_CardinalityType DEF Admitted, CallsArePast

\* A step that records a call keeps the history past and finite.
LEMMA RecordPast ==
  ASSUME LimiterTypeOK, CallsArePast, NEW c, c.at = now,
         calls' = calls \cup {c}, now' = now
  PROVE  CallsArePast'
<1>1. IsFiniteSet(calls')
  BY FS_AddElement DEF CallsArePast
<1>2. c.at <= now
  BY DEF LimiterTypeOK
<1>3. QED
  BY <1>1, <1>2 DEF CallsArePast

-----------------------------------------------------------------------------
(* The invariant.                                                          *)

LEMMA LimiterInvInit == LimiterInit => LimiterInv
<1> SUFFICES ASSUME LimiterInit PROVE LimiterInv
  OBVIOUS
<1>1. LimiterTypeOK
  BY RateLimiterConstants DEF LimiterInit, LimiterTypeOK
<1>2. CallsArePast
  BY FS_EmptySet DEF LimiterInit, CallsArePast
<1>3. ListsAreHistory
  BY DEF LimiterInit, ListsAreHistory, Recent, Admitted
<1>4. QED
  BY <1>1, <1>2, <1>3 DEF LimiterInv

LEMMA RecentIsRecent ==
  ASSUME LimiterTypeOK, NEW k
  PROVE  Recent(k) \subseteq calls /\ \A c \in Recent(k) : InWindow(c)
  BY DEF Recent, LimiterTypeOK

LEMMA AdmitInv ==
  ASSUME LimiterInv, NEW k \in Keys, Admit(k)
  PROVE  LimiterInv'
<1> USE DEF LimiterInv
<1>1. PICK c \in Call : /\ c.key = k /\ c.at = now /\ c.allowed
                       /\ calls' = calls \cup {c} /\ now' = now
                       /\ hits' = Swept(Put(k, Recent(k) \cup {c}))
  BY AdmitRecords
<1> DEFINE window == Recent(k) \cup {c}
<1>2. /\ hits' = Swept(Put(k, window))
      /\ calls' = calls \cup {c}
      /\ now' = now
      /\ now \in Nat
  BY <1>1 DEF LimiterTypeOK
<1>3. window \subseteq calls' /\ \A d \in window : InWindow(d)
  <2>1. InWindow(c)
    BY <1>1, <1>2, RateLimiterConstants DEF InWindow
  <2>2. Recent(k) \subseteq calls /\ \A d \in Recent(k) : InWindow(d)
    BY RecentIsRecent
  <2>3. QED
    BY <1>2, <2>1, <2>2
<1>4. /\ \A x \in Keys : Recent(x)' = IF x = k THEN window ELSE Recent(x)
      /\ DOMAIN hits' \subseteq DOMAIN hits \cup {k}
      /\ \A x \in DOMAIN hits' : hits'[x] = IF x = k THEN window ELSE hits[x]
  <2> HIDE DEF window
  <2>1. QED
    BY <1>2, <1>3, StoredList
<1>5. LimiterTypeOK'
  <2> HIDE DEF window
  <2>1. \A x \in DOMAIN hits' : hits'[x] \subseteq calls'
    BY <1>2, <1>3, <1>4 DEF LimiterTypeOK
  <2>2. calls' \subseteq Call
    BY <1>1, <1>2 DEF LimiterTypeOK
  <2>3. QED
    BY <1>2, <1>4, <2>1, <2>2 DEF LimiterTypeOK
<1>6. CallsArePast'
  BY <1>1, <1>2, RecordPast
<1>7. ListsAreHistory'
  <2>1. SUFFICES ASSUME NEW x \in Keys, NEW t \in 0..now, t = now
                 PROVE  Recent(x)' = Admitted(x, t)'
    BY <1>2 DEF ListsAreHistory, Admitted
  <2>2. Admitted(x, t)' = IF c.allowed /\ x = c.key /\ t = now
                          THEN Admitted(x, t) \cup {c} ELSE Admitted(x, t)
    BY <1>1, <1>2, AdmittedGrows
  <2>3. Recent(x) = Admitted(x, t)
    BY <2>1 DEF ListsAreHistory, Admitted
  <2>4. QED
    BY <1>1, <1>4, <2>1, <2>2, <2>3
<1>8. QED
  BY <1>5, <1>6, <1>7

LEMMA RefuseInv ==
  ASSUME LimiterInv, NEW k \in Keys, Refuse(k)
  PROVE  LimiterInv'
<1> USE DEF LimiterInv
<1>1. PICK c \in Call : /\ c.key = k /\ c.at = now /\ ~c.allowed
                       /\ calls' = calls \cup {c} /\ now' = now
                       /\ hits' = Put(k, Recent(k))
  BY RefuseRecords
<1> DEFINE window == Recent(k)
<1>2. /\ hits' = Put(k, window)
      /\ calls' = calls \cup {c}
      /\ now' = now
      /\ now \in Nat
  BY <1>1 DEF LimiterTypeOK
<1>3. window \subseteq calls' /\ \A d \in window : InWindow(d)
  <2>1. InWindow(c)
    BY <1>1, <1>2, RateLimiterConstants DEF InWindow
  <2>2. Recent(k) \subseteq calls /\ \A d \in Recent(k) : InWindow(d)
    BY RecentIsRecent
  <2>3. QED
    BY <1>2, <2>1, <2>2
<1>4. /\ \A x \in Keys : Recent(x)' = IF x = k THEN window ELSE Recent(x)
      /\ DOMAIN hits' \subseteq DOMAIN hits \cup {k}
      /\ \A x \in DOMAIN hits' : hits'[x] = IF x = k THEN window ELSE hits[x]
  <2> HIDE DEF window
  <2>1. QED
    BY <1>2, <1>3, StoredList
<1>5. LimiterTypeOK'
  <2> HIDE DEF window
  <2>1. \A x \in DOMAIN hits' : hits'[x] \subseteq calls'
    BY <1>2, <1>3, <1>4 DEF LimiterTypeOK
  <2>2. calls' \subseteq Call
    BY <1>1, <1>2 DEF LimiterTypeOK
  <2>3. QED
    BY <1>2, <1>4, <2>1, <2>2 DEF LimiterTypeOK
<1>6. CallsArePast'
  BY <1>1, <1>2, RecordPast
<1>7. ListsAreHistory'
  <2>1. SUFFICES ASSUME NEW x \in Keys, NEW t \in 0..now, t = now
                 PROVE  Recent(x)' = Admitted(x, t)'
    BY <1>2 DEF ListsAreHistory, Admitted
  <2>2. Admitted(x, t)' = IF c.allowed /\ x = c.key /\ t = now
                          THEN Admitted(x, t) \cup {c} ELSE Admitted(x, t)
    BY <1>1, <1>2, AdmittedGrows
  <2>3. Recent(x) = Admitted(x, t)
    BY <2>1 DEF ListsAreHistory, Admitted
  <2>4. QED
    BY <1>1, <1>4, <2>1, <2>2, <2>3
<1>8. QED
  BY <1>5, <1>6, <1>7

\* A call that has left the window does not come back: the window that ends
\* one tick later is part of the one that ends now.
LEMMA TickShrinks ==
  ASSUME LimiterTypeOK, CallsArePast, Tick, NEW k
  PROVE  Admitted(k, now)' = {c \in Admitted(k, now) : now' - c.at < Window}
<1>1. now \in Nat /\ now' = now + 1 /\ calls' = calls /\ Window \in Nat
  BY RateLimiterConstants DEF Tick, LimiterTypeOK
<1>2. \A c \in calls : c.at \in Nat /\ c.at <= now
  BY DEF LimiterTypeOK, Call, CallsArePast
<1>3. QED
  BY <1>1, <1>2 DEF Admitted

LEMMA TickInv ==
  ASSUME LimiterInv, Tick
  PROVE  LimiterInv'
<1> USE DEF LimiterInv
<1>1. now \in Nat /\ now' = now + 1 /\ calls' = calls /\ hits' = hits /\ Window \in Nat
  BY RateLimiterConstants DEF Tick, LimiterTypeOK
<1>2. LimiterTypeOK'
  BY RateLimiterConstants DEF Tick, LimiterTypeOK
<1>3. CallsArePast'
  BY <1>1 DEF CallsArePast, LimiterTypeOK, Call
<1>4. ASSUME NEW k \in Keys PROVE Recent(k)' = Admitted(k, now)'
  <2>1. Recent(k)' = {c \in Recent(k) : now' - c.at < Window}
    <3>1. \A x \in DOMAIN hits : \A c \in hits[x] : c.at \in Nat
      BY DEF LimiterTypeOK, Call
    <3>2. QED
      BY <1>1, <3>1 DEF Recent, InWindow
  <2>2. QED
    BY <2>1, TickShrinks DEF ListsAreHistory
<1>5. QED
  BY <1>2, <1>3, <1>4 DEF ListsAreHistory

LEMMA LimiterInvStep == LimiterInv /\ [LimiterNext]_limiterVars => LimiterInv'
<1> SUFFICES ASSUME LimiterInv, [LimiterNext]_limiterVars PROVE LimiterInv'
  OBVIOUS
<1>1. CASE \E k \in Keys : Admit(k) \/ Refuse(k)
  BY <1>1, AdmitInv, RefuseInv
<1>2. CASE Tick
  BY <1>2, TickInv
<1>3. CASE UNCHANGED limiterVars
  BY <1>3 DEF limiterVars, LimiterInv, LimiterTypeOK, CallsArePast, ListsAreHistory,
     Recent, Admitted, InWindow
<1>4. QED
  BY <1>1, <1>2, <1>3 DEF LimiterNext

\* What the limiter keeps of a key is what its history says of the window that
\* ends now, through pruning and cleanup (RateLimiter.allow).
THEOREM LimiterInvariant == LimiterSpec => []LimiterInv
<1>1. QED
  BY LimiterInvInit, LimiterInvStep, PTL DEF LimiterSpec

-----------------------------------------------------------------------------
(* The limit.                                                              *)

LEMMA LimitInit == LimiterInit => RefusesExactlyWhenFull
<1> SUFFICES ASSUME LimiterInit PROVE RefusesExactlyWhenFull
  OBVIOUS
<1>1. \A k, t : Admitted(k, t) = {}
  BY DEF LimiterInit, Admitted
<1>2. QED
  BY <1>1, FS_EmptySet, RateLimiterConstants
     DEF RefusesExactlyWhenFull, WindowsAreLimited, RefusalsAreEarned, LimiterInit

\* An allowed call finds its window short of the limit, so it fills it at most;
\* no refused call is in that window, for a refusal would have found it full.
LEMMA AdmitLimit ==
  ASSUME LimiterInv, RefusesExactlyWhenFull, NEW k \in Keys, Admit(k)
  PROVE  RefusesExactlyWhenFull'
<1> USE DEF LimiterInv
<1>0. PICK c \in Call : /\ c.key = k /\ c.at = now /\ c.allowed
                       /\ calls' = calls \cup {c} /\ now' = now
                       /\ hits' = Swept(Put(k, Recent(k) \cup {c}))
  BY AdmitRecords
<1>1. now \in 0..now /\ now' = now /\ calls' = calls \cup {c}
  BY <1>0 DEF LimiterTypeOK
<1>2. /\ Cardinality(Admitted(k, now)) < MaxRequests
      /\ Cardinality(Admitted(k, now)) \in Nat
      /\ IsFiniteSet(Admitted(k, now))
  BY AdmittedFinite DEF Admit, ListsAreHistory
<1>3. ASSUME NEW x \in Keys, NEW t \in 0..now
      PROVE  Admitted(x, t)' = IF x = k /\ t = now THEN Admitted(x, t) \cup {c}
                               ELSE Admitted(x, t)
  <2>1. Admitted(x, t)' = IF c.allowed /\ x = c.key /\ t = now
                          THEN Admitted(x, t) \cup {c} ELSE Admitted(x, t)
    BY <1>0, <1>1, AdmittedGrows
  <2>2. QED
    BY <1>0, <2>1
<1>4. WindowsAreLimited'
  <2> SUFFICES ASSUME NEW x \in Keys, NEW t \in 0..now
               PROVE  Cardinality(Admitted(x, t)') <= MaxRequests
    BY <1>1 DEF WindowsAreLimited, Admitted
  <2>1. CASE x = k /\ t = now
    <3>1. Admitted(x, t)' = Admitted(k, now) \cup {c}
      BY <1>3, <2>1
    <3> DEFINE A == Admitted(k, now)
    <3>2. IsFiniteSet(A) /\ Cardinality(A) \in Nat /\ Cardinality(A) < MaxRequests
      BY <1>2
    <3> HIDE DEF A
    <3>3. Cardinality(A \cup {c}) = IF c \in A THEN Cardinality(A) ELSE Cardinality(A) + 1
      BY <3>2, FS_AddElement
    <3>4. QED
      BY <3>1, <3>2, <3>3, RateLimiterConstants DEF A
  <2>2. CASE ~(x = k /\ t = now)
    BY <1>3, <2>2 DEF RefusesExactlyWhenFull, WindowsAreLimited
  <2>3. QED
    BY <2>1, <2>2
<1>5. RefusalsAreEarned'
  <2> SUFFICES ASSUME NEW d \in calls', ~d.allowed
               PROVE  Cardinality(Admitted(d.key, d.at)') = MaxRequests
    BY DEF RefusalsAreEarned, Admitted
  <2>1. d \in calls
    BY <1>0, <1>1
  <2>2. d.key \in Keys /\ d.at \in 0..now
    BY <2>1 DEF LimiterTypeOK, Call, CallsArePast
  <2>3. Cardinality(Admitted(d.key, d.at)) = MaxRequests
    BY <2>1 DEF RefusesExactlyWhenFull, RefusalsAreEarned
  <2>4. ~(d.key = k /\ d.at = now)
    BY <2>3, <1>2, RateLimiterConstants
  <2>5. Admitted(d.key, d.at)' = Admitted(d.key, d.at)
    BY <2>2, <2>4, <1>3
  <2>6. QED
    BY <2>3, <2>5
<1>6. QED
  BY <1>4, <1>5 DEF RefusesExactlyWhenFull

LEMMA RefuseLimit ==
  ASSUME LimiterInv, RefusesExactlyWhenFull, NEW k \in Keys, Refuse(k)
  PROVE  RefusesExactlyWhenFull'
<1> USE DEF LimiterInv
<1>0. PICK c \in Call : /\ c.key = k /\ c.at = now /\ ~c.allowed
                       /\ calls' = calls \cup {c} /\ now' = now
                       /\ hits' = Put(k, Recent(k))
  BY RefuseRecords
<1>1. now \in 0..now /\ now' = now /\ calls' = calls \cup {c}
  BY <1>0 DEF LimiterTypeOK
<1>2. ASSUME NEW x \in Keys, NEW t \in 0..now
      PROVE  Admitted(x, t)' = Admitted(x, t)
  BY <1>0, <1>1, AdmittedGrows
<1>3. Cardinality(Admitted(k, now)) = MaxRequests
  <2>1. Cardinality(Admitted(k, now)) >= MaxRequests
    BY DEF Refuse, ListsAreHistory
  <2>2. Cardinality(Admitted(k, now)) <= MaxRequests
    BY <1>1 DEF RefusesExactlyWhenFull, WindowsAreLimited
  <2>3. QED
    BY <2>1, <2>2, AdmittedFinite, RateLimiterConstants
<1>4. WindowsAreLimited'
  BY <1>1, <1>2 DEF RefusesExactlyWhenFull, WindowsAreLimited, Admitted
<1>5. ASSUME NEW d \in calls', ~d.allowed
      PROVE  Cardinality(Admitted(d.key, d.at)') = MaxRequests
  <2>1. CASE d = c
    BY <2>1, <1>0, <1>1, <1>2, <1>3
  <2>2. CASE d \in calls
    <3>1. d.key \in Keys /\ d.at \in 0..now
      BY <2>2 DEF LimiterTypeOK, Call, CallsArePast
    <3>2. Admitted(d.key, d.at)' = Admitted(d.key, d.at)
      BY <3>1, <1>2
    <3>3. QED
      BY <3>2, <2>2, <1>5 DEF RefusesExactlyWhenFull, RefusalsAreEarned
  <2>3. QED
    BY <2>1, <2>2, <1>1
<1>6. RefusalsAreEarned'
  BY <1>5 DEF RefusalsAreEarned, Admitted
<1>7. QED
  BY <1>4, <1>6 DEF RefusesExactlyWhenFull

LEMMA TickLimit ==
  ASSUME LimiterInv, RefusesExactlyWhenFull, Tick
  PROVE  RefusesExactlyWhenFull'
<1> USE DEF LimiterInv
<1>1. now \in Nat /\ now' = now + 1 /\ calls' = calls
  BY DEF Tick, LimiterTypeOK
<1>2. \A x, t : Admitted(x, t)' = Admitted(x, t)
  BY <1>1 DEF Admitted
<1>3. WindowsAreLimited'
  <2> SUFFICES ASSUME NEW x \in Keys, NEW t \in 0..now'
               PROVE  Cardinality(Admitted(x, t)') <= MaxRequests
    BY <1>1 DEF WindowsAreLimited, Admitted
  <2>1. CASE t \in 0..now
    BY <2>1, <1>1 DEF RefusesExactlyWhenFull, WindowsAreLimited, Admitted
  <2>2. CASE t = now'
    <3>1. Admitted(x, now)' \subseteq Admitted(x, now)
      BY TickShrinks
    <3>2. Cardinality(Admitted(x, now)') <= Cardinality(Admitted(x, now))
      BY <3>1, FS_Subset, AdmittedFinite
    <3>3. Cardinality(Admitted(x, now)) <= MaxRequests
      BY <1>1 DEF RefusesExactlyWhenFull, WindowsAreLimited
    <3>4. Cardinality(Admitted(x, now)') \in Nat
      BY <3>1, FS_Subset, FS_CardinalityType, AdmittedFinite
    <3>5. Admitted(x, t)' = Admitted(x, now)'
      BY <1>1, <2>2 DEF Admitted
    <3>6. QED
      BY <3>2, <3>3, <3>4, <3>5, AdmittedFinite, RateLimiterConstants
  <2>3. QED
    BY <1>1, <2>1, <2>2
<1>4. RefusalsAreEarned'
  BY <1>1 DEF RefusesExactlyWhenFull, RefusalsAreEarned, Admitted
<1>5. QED
  BY <1>3, <1>4 DEF RefusesExactlyWhenFull

\* The limiter refuses a call exactly when the window before it is full, for
\* every limit and window, however calls, ticks and cleanups follow each other
\* (RateLimiter.allow).
THEOREM LimitHolds == LimiterSpec => []RefusesExactlyWhenFull
<1>1. ASSUME LimiterInv, RefusesExactlyWhenFull, [LimiterNext]_limiterVars
      PROVE  RefusesExactlyWhenFull'
  <2>1. CASE \E k \in Keys : Admit(k) \/ Refuse(k)
    BY <1>1, <2>1, AdmitLimit, RefuseLimit
  <2>2. CASE Tick
    BY <1>1, <2>2, TickLimit
  <2>3. CASE UNCHANGED limiterVars
    BY <1>1, <2>3 DEF limiterVars, RefusesExactlyWhenFull, WindowsAreLimited,
       RefusalsAreEarned, Admitted
  <2>4. QED
    BY <1>1, <2>1, <2>2, <2>3 DEF LimiterNext
<1>2. QED
  BY <1>1, LimitInit, LimiterInvariant, PTL DEF LimiterSpec

-----------------------------------------------------------------------------
(* The legacy quotes, for every area that a photo may show and every       *)
(* number of photos.                                                       *)
(*                                                                         *)
(* The merge folds the areas over the photos that show one.  That the fold *)
(* is their sum is an induction over sets of photos: a smallest set on     *)
(* which the two differ (WFMin) would be made of one on which they do not. *)
(* Photos that agree then have their area as the average, exactly, and the *)
(* average selects the tier of that area; the merged grades are those of   *)
(* the worst photo, and factors, percentages, limits and tax grow.         *)

\* The members of T below i.
Smaller(T, i) == {j \in T : j < i}

\* A set of numbers has a least one.
LEMMA LeastIndex ==
  ASSUME NEW T, T \subseteq Nat, T # {}
  PROVE  \E i \in T : \A j \in T : i <= j
<1> DEFINE F == {Smaller(T, i) : i \in T}
<1>1. \A i \in T : Smaller(T, i) \in SUBSET Nat /\ IsFiniteSet(Smaller(T, i))
  <2> TAKE i \in T
  <2>0. i \in Nat
    OBVIOUS
  <2>1. IsFiniteSet(0 .. i)
    BY <2>0, FS_Interval
  <2>2. Smaller(T, i) \subseteq 0 .. i
    <3> SUFFICES ASSUME NEW j \in Smaller(T, i) PROVE j \in 0 .. i
      OBVIOUS
    <3>1. j \in T /\ j < i
      BY DEF Smaller
    <3>2. j \in Nat
      BY <3>1
    <3>3. QED
      BY <2>0, <3>1, <3>2
  <2>3. QED
    BY <2>1, <2>2, FS_Subset DEF Smaller
<1>2. F \subseteq FiniteSubsetsOf(Nat) /\ F # {}
  BY <1>1 DEF FiniteSubsetsOf
<1>3. IsWellFoundedOn(StrictSubsetOrdering(Nat), FiniteSubsetsOf(Nat))
  BY FS_StrictSubsetOrderingWellFounded
<1>4. PICK m \in F : \A y \in F : ~(<<y, m>> \in StrictSubsetOrdering(Nat))
  <2> HIDE DEF F
  <2>1. QED
    BY <1>2, <1>3, WFMin
<1>5. PICK i \in T : m = Smaller(T, i)
  BY <1>4
<1>6. \A j \in T : ~(j < i)
  <2> SUFFICES ASSUME NEW j \in T, j < i PROVE FALSE
    OBVIOUS
  <2>0. i \in Nat /\ j \in Nat
    OBVIOUS
  <2>1. Smaller(T, j) \subseteq m
    <3> SUFFICES ASSUME NEW k \in Smaller(T, j) PROVE k \in m
      OBVIOUS
    <3>1. k \in T /\ k < j
      BY DEF Smaller
    <3>2. k \in Nat
      BY <3>1
    <3>3. k < i
      BY <2>0, <3>1, <3>2
    <3>4. QED
      BY <1>5, <3>1, <3>3 DEF Smaller
  <2>5. j \in m /\ j \notin Smaller(T, j)
    BY <1>5, <2>0 DEF Smaller
  <2>2. Smaller(T, j) \in F
    OBVIOUS
  <2>3. <<Smaller(T, j), m>> \in StrictSubsetOrdering(Nat)
    BY <2>1, <2>5, <1>1, <1>5 DEF StrictSubsetOrdering
  <2>4. QED
    BY <2>2, <2>3, <1>4
<1>7. QED
  BY <1>6

\* The tables.
LEMMA Tables ==
  /\ Known("complexity") = {"low", "medium", "high"}
  /\ Known("access") = {"easy", "moderate", "hard"}
  /\ Known("damage") = {"minor", "moderate", "major"}
  BY DEF Known, Scores

\* The ranks, table by table.
LEMMA Ranks ==
  ASSUME NEW w
  PROVE  /\ Score("complexity", w) = CASE w = "low" -> 1 [] w = "high" -> 3 [] OTHER -> 2
         /\ Score("access", w) = CASE w = "easy" -> 1 [] w = "hard" -> 3 [] OTHER -> 2
         /\ Score("damage", w) = CASE w = "moderate" -> 2 [] w = "major" -> 3 [] OTHER -> 1
<1>1. Score("complexity", w) = CASE w = "low" -> 1 [] w = "high" -> 3 [] OTHER -> 2
  BY Tables DEF Score, Scores
<1>2. Score("access", w) = CASE w = "easy" -> 1 [] w = "hard" -> 3 [] OTHER -> 2
  BY Tables DEF Score, Scores
<1>3. Score("damage", w) = CASE w = "moderate" -> 2 [] w = "major" -> 3 [] OTHER -> 1
  BY Tables DEF Score, Scores
<1>4. QED
  BY <1>1, <1>2, <1>3

\* There are three grades.
LEMMA ScoreType ==
  ASSUME NEW field \in {"complexity", "access", "damage"}, NEW w
  PROVE  Score(field, w) \in 1 .. 3
  BY Ranks

\* Python's max returns one of the values, and no other scores higher.
LEMMA WorstIsShown ==
  ASSUME NEW field \in {"complexity", "access", "damage"},
         NEW analyses, DOMAIN analyses \subseteq Nat,
         Showing(field, analyses) # {}
  PROVE  \E i \in Showing(field, analyses) :
            /\ Worst(field, analyses) = analyses[i][field]
            /\ \A j \in Showing(field, analyses) :
                  Score(field, analyses[j][field]) <= Score(field, analyses[i][field])
<1> DEFINE shown == Showing(field, analyses)
           score(i) == Score(field, analyses[i][field])
           First(i) == \A j \in shown :
                          \/ score(i) > score(j)
                          \/ score(i) = score(j) /\ i <= j
<1>0. \A i : score(i) \in 1 .. 3
  BY ScoreType
<1>a. shown \subseteq Nat
  BY DEF Showing
<1>1. \E i \in shown : \A j \in shown : score(j) <= score(i)
  <2> HIDE DEF score, shown
  <2>1. CASE \E i \in shown : score(i) = 3
    BY <2>1, <1>0
  <2>2. CASE (\A i \in shown : score(i) # 3) /\ (\E i \in shown : score(i) = 2)
    BY <2>2, <1>0
  <2>3. CASE \A i \in shown : score(i) # 3 /\ score(i) # 2
    <3>1. \A i \in shown : score(i) = 1
      BY <2>3, <1>0
    <3>2. QED
      BY <3>1 DEF shown
  <2>4. QED
    BY <2>1, <2>2, <2>3
<1>2. PICK t \in shown : \A j \in shown : score(j) <= score(t)
  BY <1>1
<1>3. \E i \in {j \in shown : score(j) = score(t)} :
         \A j \in {k \in shown : score(k) = score(t)} : i <= j
  <2> HIDE DEF score, shown
  <2>1. {j \in shown : score(j) = score(t)} # {}
    BY <1>2
  <2>2. QED
    BY <2>1, <1>a, LeastIndex
<1>4. \E i \in shown : First(i)
  <2>1. PICK i \in shown : /\ score(i) = score(t)
                           /\ \A j \in shown : score(j) = score(t) => i <= j
    BY <1>3
  <2> HIDE DEF score, shown
  <2>2. First(i)
    BY <2>1, <1>0, <1>2
  <2>3. QED
    BY <2>2
<1> DEFINE i == CHOOSE i \in shown : First(i)
<1>5. i \in shown /\ First(i)
  BY <1>4
<1>6. Worst(field, analyses) = analyses[i][field]
  BY DEF Worst
<1>7. \A j \in shown : score(j) <= score(i)
  <2> HIDE DEF score, shown, i
  <2>1. QED
    BY <1>5, <1>0
<1>8. QED
  BY <1>5, <1>6, <1>7

\* A row of a[i] cells for every i in s.
Cells(a, s) == UNION {{i} \X (1 .. a[i]) : i \in s}

\* One place more.
LEMMA CellsGrow ==
  ASSUME NEW a, NEW s, IsFiniteSet(s), NEW x \in s, \A i \in s : a[i] \in Nat
  PROVE  /\ IsFiniteSet(Cells(a, s)) /\ IsFiniteSet(Cells(a, s \ {x}))
         /\ Cardinality(Cells(a, s)) = a[x] + Cardinality(Cells(a, s \ {x}))
<1> DEFINE row == {x} \X (1 .. a[x])
<1>1. ASSUME NEW t \in SUBSET s PROVE IsFiniteSet(Cells(a, t))
  <2> DEFINE rows == {{i} \X (1 .. a[i]) : i \in t}
  <2>1. IsFiniteSet(t)
    BY FS_Subset
  <2>2. IsFiniteSet(rows)
    <3> DEFINE f == [i \in t |-> {i} \X (1 .. a[i])]
    <3>1. f \in Surjection(t, rows)
      BY DEF Surjection
    <3>2. QED
      BY <2>1, <3>1, FS_Surjection
  <2>3. \A r \in rows : IsFiniteSet(r)
    <3> SUFFICES ASSUME NEW i \in t PROVE IsFiniteSet({i} \X (1 .. a[i]))
      OBVIOUS
    <3>1. IsFiniteSet({i}) /\ a[i] \in Nat
      BY FS_Singleton
    <3>2. IsFiniteSet(1 .. a[i])
      BY <3>1, FS_Interval
    <3>3. QED
      BY <3>1, <3>2, FS_Product
  <2>4. QED
    BY <2>2, <2>3, FS_UNION DEF Cells
<1>2. IsFiniteSet(row) /\ Cardinality(row) = a[x]
  <2>1. IsFiniteSet({x}) /\ Cardinality({x}) = 1
    BY FS_Singleton
  <2>2. IsFiniteSet(1 .. a[x]) /\ Cardinality(1 .. a[x]) = a[x]
    <3>1. a[x] \in Nat
      OBVIOUS
    <3> DEFINE n == a[x]
    <3> HIDE DEF n
    <3>2. n \in Nat
      BY <3>1 DEF n
    <3>3. IsFiniteSet(1 .. n) /\ Cardinality(1 .. n) = IF 1 > n THEN 0 ELSE n - 1 + 1
      BY <3>2, FS_Interval
    <3>4. (IF 1 > n THEN 0 ELSE n - 1 + 1) = n
      BY <3>2
    <3>5. QED
      BY <3>3, <3>4 DEF n
  <2>3. Cardinality(row) = 1 * a[x] /\ IsFiniteSet(row)
    BY <2>1, <2>2, FS_Product
  <2>4. QED
    BY <2>3
<1>3. Cells(a, s) = row \cup Cells(a, s \ {x})
  BY DEF Cells
<1>4. row \cap Cells(a, s \ {x}) = {}
  BY DEF Cells
<1>5. IsFiniteSet(Cells(a, s)) /\ IsFiniteSet(Cells(a, s \ {x}))
  BY <1>1
<1>6. Cardinality(Cells(a, s)) =
        Cardinality(row) + Cardinality(Cells(a, s \ {x})) - Cardinality({})
  <2> DEFINE rest == Cells(a, s \ {x})
  <2> HIDE DEF row, rest
  <2>1. IsFiniteSet(row) /\ IsFiniteSet(rest)
    BY <1>2, <1>5 DEF rest
  <2>2. Cardinality(row \cup rest) =
          Cardinality(row) + Cardinality(rest) - Cardinality(row \cap rest)
    BY <2>1, FS_Union
  <2>3. row \cup rest = Cells(a, s) /\ row \cap rest = {}
    BY <1>3, <1>4 DEF rest
  <2>4. QED
    BY <2>2, <2>3 DEF rest
<1>7. Cardinality({}) = 0 /\ Cardinality(Cells(a, s \ {x})) \in Nat /\ a[x] \in Nat
  BY <1>5, FS_EmptySet, FS_CardinalityType
<1>8. QED
  BY <1>2, <1>5, <1>6, <1>7

\* The fold over the places counts the cells.
LEMMA SumCountsCells ==
  ASSUME NEW a, NEW S, IsFiniteSet(S), \A i \in S : a[i] \in Nat
  PROVE  SumFunctionOnSet(a, S) = Cardinality(Cells(a, S))
<1> DEFINE Step(g) == [s \in SUBSET S |->
                         IF s = {} THEN 0
                         ELSE a[CHOOSE x \in s : TRUE]
                                + g[s \ {CHOOSE x \in s : TRUE}]]
           count == [s \in SUBSET S |-> Cardinality(Cells(a, s))]
           sum == CHOOSE g : g = Step(g)
<1>1. SumFunctionOnSet(a, S) = sum[S]
  BY DEF SumFunctionOnSet, FoldFunctionOnSet, MapThenFoldSet
<1>2. \A s \in SUBSET S : s # {} =>
        /\ (CHOOSE x \in s : TRUE) \in s
        /\ s \ {CHOOSE x \in s : TRUE} \in SUBSET S
  OBVIOUS
<1>3. ASSUME NEW s \in SUBSET S, NEW x \in s
      PROVE  count[s] = a[x] + count[s \ {x}]
  <2>1. IsFiniteSet(s) /\ \A i \in s : a[i] \in Nat
    BY FS_Subset
  <2>2. QED
    BY <2>1, CellsGrow
<1>4. count[{}] = 0
  BY FS_EmptySet DEF Cells
<1>5. count = Step(count)
  <2>1. \A s \in SUBSET S : s # {} =>
          count[s] = a[CHOOSE x \in s : TRUE] + count[s \ {CHOOSE x \in s : TRUE}]
    BY <1>2, <1>3
  <2>2. count[{}] = 0 /\ count = [s \in SUBSET S |-> count[s]]
    BY <1>4
  <2> HIDE DEF count
  <2>3. QED
    BY <2>1, <2>2
<1>6. sum = Step(sum)
  <2> HIDE DEF Step, count
  <2>1. QED
    BY <1>5
<1> HIDE DEF sum, count
<1>7. sum[{}] = 0 /\ \A s \in SUBSET S : s # {} =>
        sum[s] = a[CHOOSE x \in s : TRUE] + sum[s \ {CHOOSE x \in s : TRUE}]
  BY <1>6
<1> DEFINE Differ == {s \in SUBSET S : sum[s] # count[s]}
<1>8. Differ = {}
  <2> SUFFICES ASSUME Differ # {} PROVE FALSE
    OBVIOUS
  <2>1. IsWellFoundedOn(StrictSubsetOrdering(S), SUBSET S)
    BY FS_StrictSubsetOrderingWellFounded, FS_FiniteSubsetsOfFinite
  <2>2. PICK s \in Differ : \A t \in Differ : ~(<<t, s>> \in StrictSubsetOrdering(S))
    <3> HIDE DEF Differ
    <3>1. Differ \subseteq SUBSET S
      BY DEF Differ
    <3>2. QED
      BY <2>1, <3>1, WFMin
  <2>3. s # {}
    BY <2>2, <1>4, <1>7
  <2> DEFINE x == CHOOSE x \in s : TRUE
  <2>4. x \in s /\ s \in SUBSET S
    BY <2>2, <2>3
  <2>5. <<s \ {x}, s>> \in StrictSubsetOrdering(S)
    <3> HIDE DEF x
    <3>1. QED
      BY <2>4 DEF StrictSubsetOrdering
  <2>6. sum[s \ {x}] = count[s \ {x}]
    <3> HIDE DEF x
    <3>1. QED
      BY <2>2, <2>4, <2>5
  <2>7. sum[s] = a[x] + sum[s \ {x}]
    BY <1>7, <2>3, <2>4
  <2>8. count[s] = a[x] + count[s \ {x}]
    <3> HIDE DEF x
    <3>1. QED
      BY <1>3, <2>4
  <2>9. QED
    BY <2>2, <2>6, <2>7, <2>8
<1>9. QED
  BY <1>1, <1>8 DEF count

\* All rows equally long.
LEMMA EqualSum ==
  ASSUME NEW a, NEW S, IsFiniteSet(S), NEW n \in Nat, \A i \in S : a[i] = n
  PROVE  SumFunctionOnSet(a, S) = Cardinality(S) * n
<1>1. SumFunctionOnSet(a, S) = Cardinality(Cells(a, S))
  BY SumCountsCells
<1>2. Cells(a, S) = S \X (1 .. n)
  BY DEF Cells
<1>3. IsFiniteSet(1 .. n) /\ Cardinality(1 .. n) = n
  <2>1. IsFiniteSet(1 .. n) /\ Cardinality(1 .. n) = IF 1 > n THEN 0 ELSE n - 1 + 1
    BY FS_Interval
  <2>2. (IF 1 > n THEN 0 ELSE n - 1 + 1) = n
    OBVIOUS
  <2>3. QED
    BY <2>1, <2>2
<1>4. Cardinality(S \X (1 .. n)) = Cardinality(S) * Cardinality(1 .. n)
  BY <1>3, FS_Product
<1>5. QED
  BY <1>1, <1>2, <1>3, <1>4

-----------------------------------------------------------------------------

\* What an analysis of a photo can be.
Analyses == Replies \cup {DefaultAnalysis}

\* What it can say.
LEMMA AnalysisType ==
  ASSUME NEW r \in Analyses
  PROVE  /\ r.area \in Areas \cup {Unseen}
         /\ r.complexity \in Answers("complexity") /\ r.complexity # Unseen
         /\ r.damage \in Answers("damage") \cup {Unseen}
         /\ r.access \in Answers("access") /\ r.access # Unseen
<1>1. DefaultAnalysis \in Replies
  BY Tables DEF DefaultAnalysis, Reading, Replies, Answers
<1>2. r \in Replies
  BY <1>1 DEF Analyses
<1>3. Unseen \notin Answers("complexity") /\ Unseen \notin Answers("access")
  BY LegacyConstants DEF Answers
<1>4. QED
  BY <1>2, <1>3 DEF Replies

\* A tier of a configuration.
TierType == [max : Nat, rate : Nat, material : Nat, labor : Nat]

\* Tier makes one.
LEMMA TierTyped ==
  ASSUME NEW m \in Nat, NEW r \in Nat, NEW p \in Nat, NEW h \in Nat, NEW w \in Nat
  PROVE  Tier(m, r, p, h, w) \in TierType
BY DEF Tier, TierType

\* Every configuration has four.
LEMMA FourTiers ==
  ASSUME NEW a \in TierType, NEW b \in TierType, NEW c \in TierType, NEW d \in TierType
  PROVE  <<a, b, c, d>> \in Seq(TierType) /\ Len(<<a, b, c, d>>) = 4
OBVIOUS

\* The configuration of every trade is well formed.
LEMMA ConfigTyped ==
  ASSUME trade \in Trades
  PROVE  /\ Config.tiers \in Seq(TierType) /\ Len(Config.tiers) = 4
         /\ Config.least \in Nat /\ Config.most \in Nat
<1>1. trade \in {"landscaping", "roofing", "plumbing", "autobody", "electrical"}
  BY LegacyConstants
<1>2. Infinity \in Nat
  BY DEF Infinity
<1>3. CASE trade = "landscaping"
  <2>1. Config = Landscaping
    BY <1>3 DEF Config
  <2>2. /\ Tier(1000, 150, 40, 4, 6500) \in TierType
        /\ Tier(5000, 120, 35, 8, 6500) \in TierType
        /\ Tier(20000, 90, 30, 16, 6500) \in TierType
        /\ Tier(Infinity, 60, 25, 40, 7500) \in TierType
    <3>1. Tier(1000, 150, 40, 4, 6500) \in TierType
      BY <1>2, TierTyped
    <3>2. Tier(5000, 120, 35, 8, 6500) \in TierType
      BY <1>2, TierTyped
    <3>3. Tier(20000, 90, 30, 16, 6500) \in TierType
      BY <1>2, TierTyped
    <3>4. Tier(Infinity, 60, 25, 40, 7500) \in TierType
      BY <1>2, TierTyped
    <3>5. QED
      BY <3>1, <3>2, <3>3, <3>4
  <2>3. Landscaping.tiers \in Seq(TierType) /\ Len(Landscaping.tiers) = 4
    BY <2>2, FourTiers DEF Landscaping
  <2>4. Landscaping.least \in Nat /\ Landscaping.most \in Nat
    BY DEF Landscaping
  <2>5. QED
    BY <2>1, <2>3, <2>4
<1>4. CASE trade = "roofing"
  <2>1. Config = Roofing
    BY <1>4 DEF Config
  <2>2. /\ Tier(500, 800, 50, 6, 8500) \in TierType
        /\ Tier(1500, 650, 45, 16, 8500) \in TierType
        /\ Tier(4000, 500, 40, 40, 8500) \in TierType
        /\ Tier(Infinity, 400, 35, 80, 9500) \in TierType
    <3>1. Tier(500, 800, 50, 6, 8500) \in TierType
      BY <1>2, TierTyped
    <3>2. Tier(1500, 650, 45, 16, 8500) \in TierType
      BY <1>2, TierTyped
    <3>3. Tier(4000, 500, 40, 40, 8500) \in TierType
      BY <1>2, TierTyped
    <3>4. Tier(Infinity, 400, 35, 80, 9500) \in TierType
      BY <1>2, TierTyped
    <3>5. QED
      BY <3>1, <3>2, <3>3, <3>4
  <2>3. Roofing.tiers \in Seq(TierType) /\ Len(Roofing.tiers) = 4
    BY <2>2, FourTiers DEF Roofing
  <2>4. Roofing.least \in Nat /\ Roofing.most \in Nat
    BY DEF Roofing
  <2>5. QED
    BY <2>1, <2>3, <2>4
<1>5. CASE trade = "plumbing"
  <2>1. Config = Plumbing
    BY <1>5 DEF Config
  <2>2. /\ Tier(2, 15000, 30, 2, 9500) \in TierType
        /\ Tier(5, 12500, 30, 4, 9500) \in TierType
        /\ Tier(10, 10000, 25, 8, 9500) \in TierType
        /\ Tier(Infinity, 8500, 25, 12, 11000) \in TierType
    <3>1. Tier(2, 15000, 30, 2, 9500) \in TierType
      BY <1>2, TierTyped
    <3>2. Tier(5, 12500, 30, 4, 9500) \in TierType
      BY <1>2, TierTyped
    <3>3. Tier(10, 10000, 25, 8, 9500) \in TierType
      BY <1>2, TierTyped
    <3>4. Tier(Infinity, 8500, 25, 12, 11000) \in TierType
      BY <1>2, TierTyped
    <3>5. QED
      BY <3>1, <3>2, <3>3, <3>4
  <2>3. Plumbing.tiers \in Seq(TierType) /\ Len(Plumbing.tiers) = 4
    BY <2>2, FourTiers DEF Plumbing
  <2>4. Plumbing.least \in Nat /\ Plumbing.most \in Nat
    BY DEF Plumbing
  <2>5. QED
    BY <2>1, <2>3, <2>4
<1>6. CASE trade = "autobody"
  <2>1. Config = Autobody
    BY <1>6 DEF Config
  <2>2. /\ Tier(1, 45000, 40, 4, 8500) \in TierType
        /\ Tier(3, 40000, 40, 6, 8500) \in TierType
        /\ Tier(6, 35000, 35, 10, 8500) \in TierType
        /\ Tier(Infinity, 30000, 35, 16, 9500) \in TierType
    <3>1. Tier(1, 45000, 40, 4, 8500) \in TierType
      BY <1>2, TierTyped
    <3>2. Tier(3, 40000, 40, 6, 8500) \in TierType
      BY <1>2, TierTyped
    <3>3. Tier(6, 35000, 35, 10, 8500) \in TierType
      BY <1>2, TierTyped
    <3>4. Tier(Infinity, 30000, 35, 16, 9500) \in TierType
      BY <1>2, TierTyped
    <3>5. QED
      BY <3>1, <3>2, <3>3, <3>4
  <2>3. Autobody.tiers \in Seq(TierType) /\ Len(Autobody.tiers) = 4
    BY <2>2, FourTiers DEF Autobody
  <2>4. Autobody.least \in Nat /\ Autobody.most \in Nat
    BY DEF Autobody
  <2>5. QED
    BY <2>1, <2>3, <2>4
<1>7. CASE trade = "electrical"
  <2>1. Config = Electrical
    BY <1>7 DEF Config
  <2>2. /\ Tier(3, 18000, 35, 2, 11000) \in TierType
        /\ Tier(10, 15000, 35, 3, 11000) \in TierType
        /\ Tier(20, 12000, 30, 8, 11000) \in TierType
        /\ Tier(Infinity, 10000, 30, 12, 12500) \in TierType
    <3>1. Tier(3, 18000, 35, 2, 11000) \in TierType
      BY <1>2, TierTyped
    <3>2. Tier(10, 15000, 35, 3, 11000) \in TierType
      BY <1>2, TierTyped
    <3>3. Tier(20, 12000, 30, 8, 11000) \in TierType
      BY <1>2, TierTyped
    <3>4. Tier(Infinity, 10000, 30, 12, 12500) \in TierType
      BY <1>2, TierTyped
    <3>5. QED
      BY <3>1, <3>2, <3>3, <3>4
  <2>3. Electrical.tiers \in Seq(TierType) /\ Len(Electrical.tiers) = 4
    BY <2>2, FourTiers DEF Electrical
  <2>4. Electrical.least \in Nat /\ Electrical.most \in Nat
    BY DEF Electrical
  <2>5. QED
    BY <2>1, <2>3, <2>4
<1>8. QED
  BY <1>1, <1>3, <1>4, <1>5, <1>6, <1>7

\* Some tier is always selected.
LEMMA TierSelected ==
  ASSUME trade \in Trades, NEW area
  PROVE  SelectTier(area) \in TierType
<1> DEFINE tiers == Config.tiers
           Fits(i) ==
             IF area = Unseen THEN i = 1
             ELSE /\ area.sum <= tiers[i].max * area.count
                  /\ i > 1 => (tiers[i - 1].max + 1) * area.count <= area.sum
           fitting == {i \in DOMAIN tiers : Fits(i)}
<1>1. SelectTier(area) =
        IF fitting = {} THEN Last(tiers) ELSE tiers[CHOOSE i \in fitting : TRUE]
  BY DEF SelectTier
<1>2. tiers \in Seq(TierType) /\ Len(tiers) = 4
  BY ConfigTyped
<1>3. Last(tiers) \in TierType
  BY <1>2 DEF Last
<1>4. fitting # {} => (CHOOSE i \in fitting : TRUE) \in DOMAIN tiers
  <2> HIDE DEF Fits
  <2>1. QED
    OBVIOUS
<1> DEFINE j == CHOOSE i \in fitting : TRUE
<1> HIDE DEF tiers, fitting, j
<1>5. j \in DOMAIN tiers => tiers[j] \in TierType
  <2>1. \A k \in 1 .. Len(tiers) : tiers[k] \in TierType
    BY <1>2
  <2>2. DOMAIN tiers = 1 .. Len(tiers)
    BY <1>2
  <2>3. QED
    BY <2>1, <2>2
<1>6. QED
  BY <1>1, <1>3, <1>4, <1>5 DEF j

\* A percentage of an amount is an amount.
LEMMA PercentType ==
  ASSUME NEW x \in Nat, NEW f \in Nat
  PROVE  Percent(x, f) \in Nat
<1> DEFINE y == x * f
<1>1. y \in Nat
  OBVIOUS
<1>2. Percent(x, f) = y \div 100
  BY DEF Percent
<1> HIDE DEF y
<1>3. QED
  BY <1>1, <1>2

\* A larger percentage of more is not less.
LEMMA PercentGrows ==
  ASSUME NEW x \in Nat, NEW f \in Nat, NEW y \in Nat, NEW g \in Nat, x <= y, f <= g
  PROVE  Percent(x, f) <= Percent(y, g)
<1> DEFINE a == x * f
           b == y * g
           c == x * g
<1>1. a \in Nat /\ b \in Nat /\ c \in Nat
  OBVIOUS
<1>2. a <= c
  <2>1. PICK k \in Nat : g = f + k
    BY g - f \in Nat, g = f + (g - f)
  <2>2. x * g = x * f + x * k
    BY <2>1
  <2>3. x * k >= 0
    OBVIOUS
  <2>4. QED
    BY <2>2, <2>3
<1>3. c <= b
  <2>1. PICK k \in Nat : y = x + k
    BY y - x \in Nat, y = x + (y - x)
  <2>2. y * g = x * g + k * g
    BY <2>1
  <2>3. k * g >= 0
    OBVIOUS
  <2>4. QED
    BY <2>2, <2>3
<1>4. Percent(x, f) = a \div 100 /\ Percent(y, g) = b \div 100
  BY DEF Percent
<1> HIDE DEF a, b, c
<1>5. a <= b
  BY <1>1, <1>2, <1>3
<1>6. QED
  BY <1>1, <1>4, <1>5

\* The same percentage of more, a larger percentage of the same.
LEMMA SharesGrow ==
  /\ \A x, y, f \in Nat :
        /\ Percent(x, f) \in Nat
        /\ x <= y => Percent(x, f) <= Percent(y, f)
  /\ \A x, f, g \in Nat : f <= g => Percent(x, f) <= Percent(x, g)
<1>1. ASSUME NEW x \in Nat, NEW y \in Nat, NEW f \in Nat
      PROVE  Percent(x, f) \in Nat /\ (x <= y => Percent(x, f) <= Percent(y, f))
  <2>1. f <= f
    OBVIOUS
  <2>2. Percent(x, f) \in Nat
    BY PercentType
  <2>3. x <= y => Percent(x, f) <= Percent(y, f)
    BY <2>1, PercentGrows
  <2>4. QED
    BY <2>2, <2>3
<1>2. ASSUME NEW x \in Nat, NEW f \in Nat, NEW g \in Nat, f <= g
      PROVE  Percent(x, f) <= Percent(x, g)
  <2>1. x <= x
    OBVIOUS
  <2>2. QED
    BY <1>2, <2>1, PercentGrows
<1>3. QED
  BY <1>1, <1>2

\* A quotient by a divisor of the dividend.
LEMMA Cancels ==
  ASSUME NEW v \in Nat, NEW k \in Nat \ {0}
  PROVE  (k * v) \div k = v
<1> DEFINE n == k * v
           q == n \div k
<1>1. n \in Nat
  OBVIOUS
<1>2. q \in Int /\ k * q <= n /\ n < k * (q + 1)
  <2> HIDE DEF n
  <2>1. QED
    BY <1>1
<1> HIDE DEF q
<1>3. ~(q < v)
  <2> SUFFICES ASSUME q < v PROVE FALSE
    OBVIOUS
  <2>1. PICK d \in Nat : v = q + 1 + d
    BY <1>2, v - (q + 1) \in Nat, v = (q + 1) + (v - (q + 1))
  <2>2. k * v = k * (q + 1) + k * d
    BY <1>2, <2>1
  <2>3. k * d >= 0
    OBVIOUS
  <2>4. QED
    BY <1>2, <2>2, <2>3
<1>4. ~(v < q)
  <2> SUFFICES ASSUME v < q PROVE FALSE
    OBVIOUS
  <2>1. PICK d \in Nat : q = v + 1 + d
    BY <1>2, q - (v + 1) \in Nat, q = (v + 1) + (q - (v + 1))
  <2>2. k * q = k * v + k + k * d
    BY <1>2, <2>1
  <2>3. k * d >= 0
    OBVIOUS
  <2>4. QED
    BY <1>2, <2>2, <2>3
<1>5. q = v
  BY <1>2, <1>3, <1>4
<1>6. QED
  BY <1>5 DEF q

\* Quotients are numbers.
LEMMA QuotientType ==
  ASSUME NEW n \in Nat, NEW k \in Nat \ {0}
  PROVE  n \div k \in Nat
OBVIOUS

\* Comparisons survive a common factor.
LEMMA Scaled ==
  ASSUME NEW x \in Int, NEW y \in Int, NEW k \in Nat \ {0}
  PROVE  x * k <= y * k <=> x <= y
<1>1. ASSUME x <= y PROVE x * k <= y * k
  <2>1. PICK d \in Nat : y = x + d
    BY <1>1, y - x \in Nat, y = x + (y - x)
  <2>2. y * k = x * k + d * k /\ d * k >= 0
    BY <2>1
  <2>3. QED
    BY <2>2
<1>2. ASSUME y < x PROVE y * k < x * k
  <2>1. PICK d \in Nat : x = y + 1 + d
    BY <1>2, x - (y + 1) \in Nat, x = (y + 1) + (x - (y + 1))
  <2>2. x * k = y * k + k + d * k
    BY <2>1
  <2>3. d * k >= 0
    OBVIOUS
  <2>4. QED
    BY <2>2, <2>3
<1>3. QED
  BY <1>1, <1>2

-----------------------------------------------------------------------------

\* An average: a sum and a count.
Average == [sum : Nat, count : Nat \ {0}]

\* Where the formula has its area, it comes to an amount.
LEMMA FormulaType ==
  ASSUME trade \in Trades, NEW a, NEW t \in TierType,
         trade \in {"landscaping", "roofing"} => a.area \in Average
  PROVE  Formula(a, t) \in Nat
<1>1. trade \in {"landscaping", "roofing", "plumbing", "autobody", "electrical"}
  BY LegacyConstants
<1>2. t.rate \in Nat /\ t.material \in Nat /\ t.labor \in Nat
  BY DEF TierType
<1>3. ASSUME trade \in {"landscaping", "roofing"} PROVE ByArea(a, t) \in Nat
  <2>1. a.area.sum \in Nat /\ a.area.count \in Nat \ {0}
    BY <1>3 DEF Average
  <2>2. a.area.sum * t.rate \in Nat
    BY <2>1, <1>2
  <2>3. QED
    BY <2>1, <2>2, QuotientType DEF ByArea
<1>4. CASE trade = "landscaping"
  <2> DEFINE c == CASE a.complexity = "low" -> 85 [] a.complexity = "high" -> 135
                    [] OTHER -> 100
             x == CASE a.access = "moderate" -> 115 [] a.access = "hard" -> 140
                    [] OTHER -> 100
             base == Percent(Percent(ByArea(a, t), c), x)
  <2>1. c \in Nat /\ x \in Nat /\ ByArea(a, t) \in Nat
    BY <1>3, <1>4
  <2>2. Formula(a, t) = base + Percent(base, t.material) + Percent(t.labor, c)
    BY <1>4 DEF Formula, LandscapingFormula, Work
  <2> HIDE DEF c, x
  <2>3. base \in Nat
    BY <2>1, PercentType
  <2> HIDE DEF base
  <2>4. Percent(base, t.material) \in Nat /\ Percent(t.labor, c) \in Nat
    BY <1>2, <2>1, <2>3, PercentType
  <2>5. QED
    BY <2>2, <2>3, <2>4
<1>5. CASE trade = "roofing"
  <2> DEFINE d == CASE a.damage = "moderate" -> 120 [] a.damage = "major" -> 150
                    [] OTHER -> 100
             base == Percent(ByArea(a, t), d)
  <2>1. d \in Nat /\ ByArea(a, t) \in Nat
    BY <1>3, <1>5
  <2>2. Formula(a, t) = base + Percent(base, t.material) + t.labor
    BY <1>5 DEF Formula, RoofingFormula, Work
  <2> HIDE DEF d
  <2>3. base \in Nat
    BY <2>1, PercentType
  <2> HIDE DEF base
  <2>4. Percent(base, t.material) \in Nat
    BY <1>2, <2>3, PercentType
  <2>5. QED
    BY <1>2, <2>2, <2>3, <2>4
<1>6. CASE trade = "plumbing"
  <2>1. Percent(t.rate, 130) \in Nat
    BY <1>2, PercentType
  <2>2. QED
    BY <1>2, <1>6, <2>1 DEF Formula, PlumbingFormula, Work
<1>7. CASE trade = "autobody"
  <2> DEFINE base == Percent(t.rate, 80)
  <2>1. base \in Nat
    BY <1>2, PercentType
  <2>2. Formula(a, t) = base + Percent(Percent(base, t.material), 115) + t.labor
    BY <1>7 DEF Formula, AutobodyFormula, Work
  <2> HIDE DEF base
  <2>3. Percent(Percent(base, t.material), 115) \in Nat
    BY <1>2, <2>1, PercentType
  <2>4. QED
    BY <1>2, <2>1, <2>2, <2>3
<1>8. CASE trade = "electrical"
  <2>1. Percent(t.rate, t.material) \in Nat
    BY <1>2, PercentType
  <2>2. QED
    BY <1>2, <1>8, <2>1 DEF Formula, ElectricalFormula, Work
<1>9. QED
  BY <1>1, <1>4, <1>5, <1>6, <1>7, <1>8

\* The sum of the line items.
Items(a) == Formula(a, SelectTier(a.area))

\* The limits and the tax keep the order of the prices.
LEMMA PriceGrows ==
  ASSUME trade \in Trades, NEW a, NEW b, Items(a) \in Nat, Items(b) \in Nat
  PROVE  /\ Price(a) \in Nat
         /\ Items(a) <= Items(b) => Price(a) <= Price(b)
<1> DEFINE Most(x) == IF x > Config.most THEN Config.most ELSE x
           Sub(x) == IF Most(x) < Config.least THEN Config.least ELSE Most(x)
<1>1. Config.least \in Nat /\ Config.most \in Nat
  BY ConfigTyped
<1>2. /\ Price(a) = Sub(Items(a)) + Percent(Sub(Items(a)), 8)
      /\ Price(b) = Sub(Items(b)) + Percent(Sub(Items(b)), 8)
  BY DEF Price, Items
<1>3. Sub(Items(a)) \in Nat /\ Sub(Items(b)) \in Nat
  BY <1>1
<1>4. Items(a) <= Items(b) => Sub(Items(a)) <= Sub(Items(b))
  BY <1>1
<1> HIDE DEF Sub, Most
<1>5. /\ Percent(Sub(Items(a)), 8) \in Nat /\ Percent(Sub(Items(b)), 8) \in Nat
  BY <1>3, PercentType
<1>6. Items(a) <= Items(b) => Percent(Sub(Items(a)), 8) <= Percent(Sub(Items(b)), 8)
  BY <1>3, <1>4, PercentGrows
<1>7. QED
  BY <1>2, <1>3, <1>4, <1>5, <1>6

\* The photos that show a detail are some of the photos.
LEMMA ShowingFinite ==
  ASSUME NEW S, NEW s \in Seq(S), NEW field
  PROVE  Showing(field, s) \subseteq DOMAIN s /\ IsFiniteSet(Showing(field, s))
<1>1. Showing(field, s) \subseteq 1 .. Len(s)
  BY DEF Showing
<1>2. IsFiniteSet(1 .. Len(s))
  BY FS_Interval
<1>3. QED
  BY <1>1, <1>2, FS_Subset

\* The merged area is an average, unless no photo shows one.
LEMMA MergedArea ==
  ASSUME trade \in Trades, NEW s \in Seq(Analyses)
  PROVE  /\ Merged(s).area \in Average \cup {Unseen}
         /\ Merged(s).area = Unseen <=> Showing("area", s) = {}
<1> DEFINE m == Showing("area", s)
           c == Column("area", s)
<1>1. \A i \in m : c[i] \in Nat
  <2> SUFFICES ASSUME NEW i \in m PROVE c[i] \in Nat
    OBVIOUS
  <2>1. i \in DOMAIN s /\ s[i].area # Unseen
    BY DEF Showing
  <2>2. s[i] \in Analyses /\ c[i] = s[i].area
    BY <2>1 DEF Column
  <2>3. s[i].area \in Areas
    BY <2>1, <2>2, AnalysisType
  <2>4. QED
    BY <2>2, <2>3, LegacyConstants
<1>2. IsFiniteSet(m)
  BY ShowingFinite
<1>3. SumFunctionOnSet(c, m) \in Nat
  <2> HIDE DEF c, m
  <2>1. SumFunctionOnSet(c, m) = Cardinality(Cells(c, m))
    BY <1>1, <1>2, SumCountsCells
  <2>2. CASE m = {}
    <3>1. Cells(c, m) = {}
      BY <2>2 DEF Cells
    <3>2. QED
      BY <2>1, <3>1, FS_EmptySet
  <2>3. CASE m # {}
    <3>1. PICK x \in m : TRUE
      BY <2>3
    <3>2. IsFiniteSet(Cells(c, m))
      BY <1>1, <1>2, <3>1, CellsGrow
    <3>3. QED
      BY <2>1, <3>2, FS_CardinalityType
  <2>4. QED
    BY <2>2, <2>3
<1>4. m # {} => Cardinality(m) \in Nat \ {0}
  BY <1>2, FS_CardinalityType, FS_EmptySet
<1>5. Merged(s).area = IF m = {} THEN Unseen
                       ELSE [sum |-> SumFunctionOnSet(c, m), count |-> Cardinality(m)]
  BY DEF Merged
<1> HIDE DEF m, c
<1>7. m # {} => Merged(s).area \in Average
  BY <1>3, <1>4, <1>5 DEF Average
<1>8. Unseen \notin Average
  BY LegacyConstants DEF Average
<1>9. (Merged(s).area = Unseen <=> m = {}) /\ Merged(s).area \in Average \cup {Unseen}
  <2>1. CASE m = {}
    BY <1>5, <2>1
  <2>2. CASE m # {}
    <3>1. Merged(s).area \in Average
      BY <1>7, <2>2
    <3>2. QED
      BY <1>8, <2>2, <3>1
  <2>3. QED
    BY <2>1, <2>2
<1>10. QED
  BY <1>9 DEF m

\* A merge that can be priced has line items.
LEMMA MergedPrice ==
  ASSUME trade \in Trades, NEW s \in Seq(Analyses), Priceable(Merged(s))
  PROVE  Items(Merged(s)) \in Nat
<1>1. trade \in {"landscaping", "roofing"} => Merged(s).area \in Average
  BY MergedArea DEF Priceable
<1>2. SelectTier(Merged(s).area) \in TierType
  BY TierSelected
<1>3. QED
  BY <1>1, <1>2, FormulaType DEF Items

\* Where the photos agree on the area, their average is that area.
LEMMA AgreedArea ==
  ASSUME trade \in Trades, NEW s \in Seq(Analyses), NEW i \in DOMAIN s,
         s[i].area # Unseen,
         \A j \in DOMAIN s : s[j].area \in {Unseen, s[i].area}
  PROVE  \E k \in Nat \ {0} : Merged(s).area = [sum |-> k * s[i].area, count |-> k]
<1> DEFINE m == Showing("area", s)
           c == Column("area", s)
<1>1. IsFiniteSet(m) /\ m # {}
  <2>1. i \in m
    BY DEF Showing
  <2>2. IsFiniteSet(m)
    BY ShowingFinite
  <2>3. QED
    BY <2>1, <2>2
<1>2. s[i].area \in Nat
  <2>1. s[i] \in Analyses
    OBVIOUS
  <2>2. s[i].area \in Areas \cup {Unseen}
    BY <2>1, AnalysisType
  <2>3. QED
    BY <2>2, LegacyConstants
<1>3. \A j \in m : c[j] = s[i].area
  BY DEF Column, Showing
<1>4. Cardinality(m) \in Nat \ {0}
  BY <1>1, FS_CardinalityType, FS_EmptySet
<1>5. Merged(s).area = IF m = {} THEN Unseen
                       ELSE [sum |-> SumFunctionOnSet(c, m), count |-> Cardinality(m)]
  BY DEF Merged
<1> HIDE DEF m, c
<1>6. SumFunctionOnSet(c, m) = Cardinality(m) * s[i].area
  BY <1>1, <1>2, <1>3, EqualSum
<1>7. QED
  BY <1>1, <1>4, <1>5, <1>6

\* An average selects the tier of its area.
LEMMA AverageTier ==
  ASSUME trade \in Trades, NEW v \in Nat, NEW k \in Nat \ {0}
  PROVE  SelectTier([sum |-> k * v, count |-> k]) = SelectTier([sum |-> v, count |-> 1])
<1> DEFINE tiers == Config.tiers
           Fits(area, i) ==
             IF area = Unseen THEN i = 1
             ELSE /\ area.sum <= tiers[i].max * area.count
                  /\ i > 1 => (tiers[i - 1].max + 1) * area.count <= area.sum
           fitting(area) == {i \in DOMAIN tiers : Fits(area, i)}
           a == [sum |-> k * v, count |-> k]
           b == [sum |-> v, count |-> 1]
<1>1. \A area : SelectTier(area) =
        IF fitting(area) = {} THEN Last(tiers)
        ELSE tiers[CHOOSE i \in fitting(area) : TRUE]
  BY DEF SelectTier
<1>2. tiers \in Seq(TierType) /\ Len(tiers) = 4
  BY ConfigTyped
<1>3. a # Unseen /\ b # Unseen
  BY LegacyConstants
<1>4. ASSUME NEW i \in DOMAIN tiers PROVE Fits(a, i) <=> Fits(b, i)
  <2> HIDE DEF tiers
  <2>1. i \in 1 .. 4
    BY <1>2
  <2>2. tiers[i].max \in Nat /\ (i > 1 => tiers[i - 1].max \in Nat)
    <3>1. /\ tiers[i] \in TierType
          /\ i > 1 => i - 1 \in 1 .. 4 /\ tiers[i - 1] \in TierType
      BY <1>2, <2>1
    <3>2. QED
      BY <3>1 DEF TierType
  <2>3. k * v <= tiers[i].max * k <=> v <= tiers[i].max * 1
    <3> DEFINE x == tiers[i].max
    <3>1. x \in Int
      BY <2>2
    <3> HIDE DEF x
    <3>2. v * k <= x * k <=> v <= x
      BY <3>1, Scaled
    <3>3. k * v = v * k /\ x * 1 = x
      BY <3>1
    <3>4. QED
      BY <3>2, <3>3 DEF x
  <2>4. i > 1 => ((tiers[i - 1].max + 1) * k <= k * v <=> (tiers[i - 1].max + 1) * 1 <= v)
    <3> SUFFICES ASSUME i > 1
                 PROVE  (tiers[i - 1].max + 1) * k <= k * v
                          <=> (tiers[i - 1].max + 1) * 1 <= v
      OBVIOUS
    <3> DEFINE x == tiers[i - 1].max + 1
    <3>1. x \in Int
      BY <2>2
    <3> HIDE DEF x
    <3>2. x * k <= v * k <=> x <= v
      BY <3>1, Scaled
    <3>3. k * v = v * k /\ x * 1 = x
      BY <3>1
    <3>4. QED
      BY <3>2, <3>3 DEF x
  <2>5. Fits(a, i) <=> /\ k * v <= tiers[i].max * k
                       /\ i > 1 => (tiers[i - 1].max + 1) * k <= k * v
    BY <1>3
  <2>6. Fits(b, i) <=> /\ v <= tiers[i].max * 1
                       /\ i > 1 => (tiers[i - 1].max + 1) * 1 <= v
    BY <1>3
  <2>7. QED
    BY <2>3, <2>4, <2>5, <2>6
<1>5. fitting(a) = fitting(b)
  BY <1>4
<1>6. /\ SelectTier(a) = IF fitting(a) = {} THEN Last(tiers)
                         ELSE tiers[CHOOSE i \in fitting(a) : TRUE]
      /\ SelectTier(b) = IF fitting(b) = {} THEN Last(tiers)
                         ELSE tiers[CHOOSE i \in fitting(b) : TRUE]
  BY <1>1
<1>7. SelectTier(a) = SelectTier(b)
  <2> HIDE DEF fitting, tiers, a, b
  <2>1. QED
    BY <1>5, <1>6
<1>8. QED
  BY <1>7

\* The merge takes the grade of one of the photos, the worst of them.
LEMMA MergedGrades ==
  ASSUME trade \in Trades, NEW s \in Seq(Analyses), NEW i \in DOMAIN s
  PROVE  /\ \E k \in DOMAIN s : /\ Merged(s).complexity = s[k].complexity
                               /\ Score("complexity", s[i].complexity) <= Score("complexity", s[k].complexity)
         /\ \E k \in DOMAIN s : /\ Merged(s).access = s[k].access
                               /\ Score("access", s[i].access) <= Score("access", s[k].access)
         /\ s[i].damage # Unseen =>
              \E k \in DOMAIN s : /\ Merged(s).damage = s[k].damage
                                /\ s[k].damage # Unseen
                                /\ Score("damage", s[i].damage) <= Score("damage", s[k].damage)
         /\ s[i].damage = Unseen /\ Len(s) = 1 => Merged(s).damage = Unseen
<1>1. DOMAIN s \subseteq Nat
  OBVIOUS
<1>2. s[i] \in Analyses
  OBVIOUS
<1>3. i \in Showing("complexity", s)
  <2>1. s[i].complexity # Unseen
    BY <1>2, AnalysisType
  <2>2. QED
    BY <2>1 DEF Showing
<1>4. i \in Showing("access", s)
  <2>1. s[i].access # Unseen
    BY <1>2, AnalysisType
  <2>2. QED
    BY <2>1 DEF Showing
<1>5. /\ Merged(s).complexity = Worst("complexity", s)
      /\ Merged(s).access = Worst("access", s)
      /\ Merged(s).damage = IF Showing("damage", s) = {} THEN Unseen
                            ELSE Worst("damage", s)
  BY DEF Merged
<1>6. \E k \in DOMAIN s : /\ Merged(s).complexity = s[k].complexity
                         /\ Score("complexity", s[i].complexity) <= Score("complexity", s[k].complexity)
  <2>1. PICK k \in Showing("complexity", s) :
           /\ Worst("complexity", s) = s[k]["complexity"]
           /\ \A j \in Showing("complexity", s) :
                Score("complexity", s[j]["complexity"]) <= Score("complexity", s[k]["complexity"])
    BY <1>1, <1>3, WorstIsShown
  <2>2. k \in DOMAIN s
    BY DEF Showing
  <2>3. QED
    BY <1>3, <1>5, <2>1, <2>2
<1>7. \E k \in DOMAIN s : /\ Merged(s).access = s[k].access
                         /\ Score("access", s[i].access) <= Score("access", s[k].access)
  <2>1. PICK k \in Showing("access", s) :
           /\ Worst("access", s) = s[k]["access"]
           /\ \A j \in Showing("access", s) :
                Score("access", s[j]["access"]) <= Score("access", s[k]["access"])
    BY <1>1, <1>4, WorstIsShown
  <2>2. k \in DOMAIN s
    BY DEF Showing
  <2>3. QED
    BY <1>4, <1>5, <2>1, <2>2
<1>8. ASSUME s[i].damage # Unseen
      PROVE  \E k \in DOMAIN s : /\ Merged(s).damage = s[k].damage
                               /\ s[k].damage # Unseen
                               /\ Score("damage", s[i].damage) <= Score("damage", s[k].damage)
  <2>1. i \in Showing("damage", s)
    BY <1>8 DEF Showing
  <2>2. PICK k \in Showing("damage", s) :
           /\ Worst("damage", s) = s[k]["damage"]
           /\ \A j \in Showing("damage", s) :
                Score("damage", s[j]["damage"]) <= Score("damage", s[k]["damage"])
    BY <1>1, <2>1, WorstIsShown
  <2>3. k \in DOMAIN s /\ s[k].damage # Unseen
    BY DEF Showing
  <2>4. QED
    BY <1>5, <2>1, <2>2, <2>3
<1>9. s[i].damage = Unseen /\ Len(s) = 1 => Showing("damage", s) = {}
  BY DEF Showing
<1>10. QED
  BY <1>5, <1>6, <1>7, <1>8, <1>9

\* The factors grow with the grades.
Complexity(w) == CASE w = "low" -> 85 [] w = "high" -> 135 [] OTHER -> 100
Access(w) == CASE w = "moderate" -> 115 [] w = "hard" -> 140 [] OTHER -> 100
Damage(w) == CASE w = "moderate" -> 120 [] w = "major" -> 150 [] OTHER -> 100

LEMMA FactorsGrow ==
  /\ \A v, w : Score("complexity", v) <= Score("complexity", w) =>
                  Complexity(v) <= Complexity(w)
  /\ \A v, w : Score("access", v) <= Score("access", w) =>
                  \/ Access(v) <= Access(w)
                  \/ v = "moderate" /\ w \notin Known("access")
  /\ \A v, w : Score("damage", v) <= Score("damage", w) => Damage(v) <= Damage(w)
  /\ \A w : Complexity(w) \in Nat /\ Access(w) \in Nat /\ Damage(w) \in Nat
<1>1. ASSUME NEW v, NEW w, Score("complexity", v) <= Score("complexity", w)
      PROVE  Complexity(v) <= Complexity(w)
  BY <1>1, Ranks DEF Complexity
<1>2. ASSUME NEW v, NEW w, Score("access", v) <= Score("access", w)
      PROVE  \/ Access(v) <= Access(w)
             \/ v = "moderate" /\ w \notin Known("access")
  BY <1>2, Ranks, Tables DEF Access
<1>3. ASSUME NEW v, NEW w, Score("damage", v) <= Score("damage", w)
      PROVE  Damage(v) <= Damage(w)
  BY <1>3, Ranks DEF Damage
<1>4. \A w : Complexity(w) \in Nat /\ Access(w) \in Nat /\ Damage(w) \in Nat
  BY DEF Complexity, Access, Damage
<1>5. QED
  BY <1>1, <1>2, <1>3, <1>4

\* The same area in the same tier costs no less with larger factors.
LEMMA ItemsGrow ==
  ASSUME trade \in Trades, NEW a, NEW b, NEW t \in TierType,
         trade \in {"landscaping", "roofing"} =>
            ByArea(a, t) = ByArea(b, t) /\ ByArea(a, t) \in Nat,
         trade = "landscaping" => /\ Complexity(a.complexity) <= Complexity(b.complexity)
                                  /\ Access(a.access) <= Access(b.access),
         trade = "roofing" => Damage(a.damage) <= Damage(b.damage)
  PROVE  Formula(a, t) <= Formula(b, t)
<1>1. trade \in {"landscaping", "roofing", "plumbing", "autobody", "electrical"}
  BY LegacyConstants
<1>2. t.rate \in Nat /\ t.material \in Nat /\ t.labor \in Nat
  BY DEF TierType
<1>3. CASE trade = "landscaping"
  <2> DEFINE Base(x) == Percent(Percent(ByArea(x, t), Complexity(x.complexity)),
                                Access(x.access))
  <2>1. /\ Formula(a, t) = Base(a) + Percent(Base(a), t.material)
                            + Percent(t.labor, Complexity(a.complexity))
        /\ Formula(b, t) = Base(b) + Percent(Base(b), t.material)
                            + Percent(t.labor, Complexity(b.complexity))
    BY <1>3 DEF Formula, LandscapingFormula, Work, Complexity, Access
  <2>2. /\ Complexity(a.complexity) \in Nat /\ Complexity(b.complexity) \in Nat
        /\ Access(a.access) \in Nat /\ Access(b.access) \in Nat
        /\ ByArea(a, t) \in Nat /\ ByArea(b, t) = ByArea(a, t)
        /\ Complexity(a.complexity) <= Complexity(b.complexity)
        /\ Access(a.access) <= Access(b.access)
    BY <1>3, FactorsGrow
  <2>3. /\ Percent(ByArea(a, t), Complexity(a.complexity)) \in Nat
        /\ Percent(ByArea(b, t), Complexity(b.complexity)) \in Nat
        /\ Percent(ByArea(a, t), Complexity(a.complexity))
             <= Percent(ByArea(b, t), Complexity(b.complexity))
    BY <2>2, PercentType, PercentGrows
  <2>4. Base(a) \in Nat /\ Base(b) \in Nat /\ Base(a) <= Base(b)
    BY <2>2, <2>3, PercentType, PercentGrows
  <2> HIDE DEF Base
  <2>5. /\ Percent(Base(a), t.material) \in Nat /\ Percent(Base(b), t.material) \in Nat
        /\ Percent(Base(a), t.material) <= Percent(Base(b), t.material)
    BY <1>2, <2>4, SharesGrow
  <2>6. /\ Percent(t.labor, Complexity(a.complexity)) \in Nat
        /\ Percent(t.labor, Complexity(b.complexity)) \in Nat
        /\ Percent(t.labor, Complexity(a.complexity))
             <= Percent(t.labor, Complexity(b.complexity))
    BY <1>2, <2>2, SharesGrow
  <2>7. QED
    BY <2>1, <2>4, <2>5, <2>6
<1>4. CASE trade = "roofing"
  <2> DEFINE Base(x) == Percent(ByArea(x, t), Damage(x.damage))
  <2>1. /\ Formula(a, t) = Base(a) + Percent(Base(a), t.material) + t.labor
        /\ Formula(b, t) = Base(b) + Percent(Base(b), t.material) + t.labor
    BY <1>4 DEF Formula, RoofingFormula, Work, Damage
  <2>2. /\ Damage(a.damage) \in Nat /\ Damage(b.damage) \in Nat
        /\ ByArea(a, t) \in Nat /\ ByArea(b, t) = ByArea(a, t)
        /\ Damage(a.damage) <= Damage(b.damage)
    BY <1>4, FactorsGrow
  <2>3. Base(a) \in Nat /\ Base(b) \in Nat /\ Base(a) <= Base(b)
    BY <2>2, PercentType, PercentGrows
  <2> HIDE DEF Base
  <2>4. /\ Percent(Base(a), t.material) \in Nat /\ Percent(Base(b), t.material) \in Nat
        /\ Percent(Base(a), t.material) <= Percent(Base(b), t.material)
    BY <1>2, <2>3, SharesGrow
  <2>5. QED
    BY <1>2, <2>1, <2>3, <2>4
<1>5. CASE trade \in {"plumbing", "autobody", "electrical"}
  <2>1. Formula(a, t) = Formula(b, t)
    BY <1>5 DEF Formula
  <2>2. Formula(a, t) \in Nat
    BY <1>5, FormulaType
  <2>3. QED
    BY <2>1, <2>2
<1>6. QED
  BY <1>1, <1>3, <1>4, <1>5

\* The merge of one photo.
LEMMA OnePhoto ==
  ASSUME trade \in Trades, NEW r \in Analyses
  PROVE  /\ Merged(<<r>>).complexity = r.complexity
         /\ Merged(<<r>>).access = r.access
         /\ Merged(<<r>>).damage = r.damage
         /\ Merged(<<r>>).area = Unseen <=> r.area = Unseen
         /\ r.area # Unseen => Merged(<<r>>).area = [sum |-> r.area, count |-> 1]
<1> DEFINE s == <<r>>
<1>1. s \in Seq(Analyses) /\ DOMAIN s = {1} /\ s[1] = r /\ Len(s) = 1
  OBVIOUS
<1> HIDE DEF s
<1>2. Merged(s).complexity = r.complexity /\ Merged(s).access = r.access
  <2>1. 1 \in DOMAIN s
    BY <1>1
  <2>2. /\ \E k \in DOMAIN s : Merged(s).complexity = s[k].complexity
        /\ \E k \in DOMAIN s : Merged(s).access = s[k].access
    BY <1>1, <2>1, MergedGrades
  <2>3. QED
    BY <1>1, <2>2
<1>3. Merged(s).damage = r.damage
  <2>1. 1 \in DOMAIN s
    BY <1>1
  <2>2. /\ s[1].damage # Unseen => \E k \in DOMAIN s : Merged(s).damage = s[k].damage
        /\ s[1].damage = Unseen => Merged(s).damage = Unseen
    BY <1>1, <2>1, MergedGrades
  <2>3. QED
    BY <1>1, <2>2
<1>4. Showing("area", s) = IF r.area = Unseen THEN {} ELSE {1}
  BY <1>1 DEF Showing
<1>5. Merged(s).area = Unseen <=> r.area = Unseen
  BY <1>1, <1>4, MergedArea
<1>6. ASSUME r.area # Unseen PROVE Merged(s).area = [sum |-> r.area, count |-> 1]
  <2>1. Showing("area", s) = {1}
    BY <1>4, <1>6
  <2>2. Column("area", s)[1] = r.area
    BY <1>1 DEF Column
  <2>3. r.area \in Nat
    BY <1>6, AnalysisType, LegacyConstants
  <2>4. IsFiniteSet({1}) /\ Cardinality({1}) = 1
    BY FS_Singleton
  <2>5. SumFunctionOnSet(Column("area", s), {1}) = Cardinality({1}) * r.area
    <3> DEFINE c == Column("area", s)
    <3>1. \A j \in {1} : c[j] = r.area
      BY <2>2
    <3> HIDE DEF c
    <3>2. SumFunctionOnSet(c, {1}) = Cardinality({1}) * r.area
      BY <2>3, <2>4, <3>1, EqualSum
    <3>3. QED
      BY <3>2 DEF c
  <2>6. Merged(s).area = [sum   |-> SumFunctionOnSet(Column("area", s), {1}),
                          count |-> Cardinality({1})]
    BY <2>1 DEF Merged
  <2>7. 1 * r.area = r.area
    BY <2>3
  <2>8. QED
    BY <2>4, <2>5, <2>6, <2>7
<1>7. QED
  BY <1>2, <1>3, <1>5, <1>6 DEF s

\* One photo alone is not dearer than all of them, but for a moderate access
\* that a strange one takes the place of.
LEMMA ViewsNeverLower ==
  ASSUME trade \in Trades, NEW s \in Seq(Analyses), NEW i \in DOMAIN s,
         Priceable(Merged(<<s[i]>>)), Priceable(Merged(s)),
         \A j \in DOMAIN s : s[j].area \in {Unseen, s[i].area},
         ~ (/\ trade = "landscaping"
            /\ s[i].access = "moderate" /\ Merged(s).access \notin Known("access"))
  PROVE  Price(Merged(<<s[i]>>)) <= Price(Merged(s))
<1> DEFINE r == s[i]
           a == Merged(<<r>>)
           b == Merged(s)
<1>1. r \in Analyses
  OBVIOUS
<1>2. <<r>> \in Seq(Analyses)
  BY <1>1
<1>3. Items(a) \in Nat /\ Items(b) \in Nat
  BY <1>2, MergedPrice
<1>4. /\ a.complexity = r.complexity /\ a.access = r.access /\ a.damage = r.damage
      /\ a.area = Unseen <=> r.area = Unseen
      /\ r.area # Unseen => a.area = [sum |-> r.area, count |-> 1]
  BY <1>1, OnePhoto
<1> HIDE DEF a
<1>5. ASSUME r.area # Unseen
      PROVE  \E k \in Nat \ {0} : /\ b.area = [sum |-> k * r.area, count |-> k]
                                /\ SelectTier(b.area) = SelectTier(a.area)
  <2>1. PICK k \in Nat \ {0} : b.area = [sum |-> k * r.area, count |-> k]
    BY <1>5, AgreedArea
  <2>2. r.area \in Nat
    BY <1>1, <1>5, AnalysisType, LegacyConstants
  <2>3. SelectTier([sum |-> k * r.area, count |-> k])
          = SelectTier([sum |-> r.area, count |-> 1])
    BY <2>2, AverageTier
  <2>4. QED
    BY <1>4, <1>5, <2>1, <2>3
<1>6. r.area = Unseen => a.area = b.area
  <2> SUFFICES ASSUME r.area = Unseen PROVE b.area = Unseen
    BY <1>4
  <2>1. Showing("area", s) = {}
    BY DEF Showing
  <2>2. QED
    BY <2>1, MergedArea
<1>7. SelectTier(a.area) = SelectTier(b.area)
  BY <1>5, <1>6
<1> DEFINE t == SelectTier(a.area)
<1>8. t \in TierType
  BY TierSelected
<1>9. ASSUME trade \in {"landscaping", "roofing"}
      PROVE  ByArea(a, t) = ByArea(b, t) /\ ByArea(a, t) \in Nat
  <2>1. r.area # Unseen
    BY <1>4, <1>9 DEF Priceable, a
  <2>2. PICK k \in Nat \ {0} : b.area = [sum |-> k * r.area, count |-> k]
    BY <1>5, <2>1
  <2> HIDE DEF t, b
  <2>3. r.area \in Nat /\ t.rate \in Nat
    BY <1>1, <1>8, <2>1, AnalysisType, LegacyConstants DEF TierType
  <2> DEFINE v == r.area * t.rate
  <2>4. v \in Nat /\ (k * r.area) * t.rate = k * v /\ v = 1 * v
    BY <2>3
  <2>5. ByArea(a, t) = v \div 1 /\ ByArea(b, t) = (k * v) \div k
    BY <1>4, <2>1, <2>2, <2>4 DEF ByArea
  <2> HIDE DEF v
  <2>6. (1 * v) \div 1 = v /\ (k * v) \div k = v
    BY <2>4, Cancels
  <2>7. QED
    BY <2>4, <2>5, <2>6
<1>10. trade = "landscaping" => /\ Complexity(a.complexity) <= Complexity(b.complexity)
                                /\ Access(a.access) <= Access(b.access)
  <2> SUFFICES ASSUME trade = "landscaping"
               PROVE  /\ Complexity(r.complexity) <= Complexity(b.complexity)
                      /\ Access(r.access) <= Access(b.access)
    BY <1>4
  <2>1. PICK k \in DOMAIN s : /\ b.complexity = s[k].complexity
                              /\ Score("complexity", r.complexity) <= Score("complexity", s[k].complexity)
    BY MergedGrades
  <2>2. PICK l \in DOMAIN s : /\ b.access = s[l].access
                              /\ Score("access", r.access) <= Score("access", s[l].access)
    BY MergedGrades
  <2>3. ~ (r.access = "moderate" /\ b.access \notin Known("access"))
    OBVIOUS
  <2> HIDE DEF r, b
  <2>4. QED
    BY <2>1, <2>2, <2>3, FactorsGrow
<1>11. trade = "roofing" => Damage(a.damage) <= Damage(b.damage)
  <2> SUFFICES ASSUME trade = "roofing" PROVE Damage(r.damage) <= Damage(b.damage)
    BY <1>4
  <2>1. CASE r.damage = Unseen
    <3>1. Damage(Unseen) = 100
      <4>1. Unseen # "moderate" /\ Unseen # "major"
        BY LegacyConstants, Tables
      <4>2. QED
        BY <4>1 DEF Damage
    <3>2. Damage(b.damage) >= 100
      BY DEF Damage
    <3> HIDE DEF r, b
    <3>3. QED
      BY <2>1, <3>1, <3>2
  <2>2. CASE r.damage # Unseen
    <3>1. PICK k \in DOMAIN s : /\ b.damage = s[k].damage /\ s[k].damage # Unseen
                                /\ Score("damage", r.damage) <= Score("damage", s[k].damage)
      BY <2>2, MergedGrades
    <3> HIDE DEF r, b
    <3>2. QED
      BY <3>1, FactorsGrow
  <2>3. QED
    BY <2>1, <2>2
<1> HIDE DEF r, b, t
<1>12. Formula(a, t) <= Formula(b, t)
  BY <1>8, <1>9, <1>10, <1>11, ItemsGrow
<1>13. Items(a) <= Items(b)
  BY <1>7, <1>12 DEF Items, t
<1>14. Price(a) <= Price(b)
  BY <1>3, <1>13, PriceGrows
<1>15. QED
  BY <1>14 DEF a, b, r

-----------------------------------------------------------------------------

\* The photos carry analyses, and the estimate is the price of all of them: none
\* comes after it.
LegacyInv ==
    /\ trade \in Trades
    /\ photos \in Seq(Analyses) /\ Len(photos) <= MaxPhotos
    /\ estimate # Unseen => /\ Priceable(Analysis(photos))
                            /\ estimate = Price(Analysis(photos))

\* The invariant holds at first.
LEMMA LegacyStart == LegacyInit => LegacyInv
BY LegacyConstants DEF LegacyInit, LegacyInv

\* What depends on the trade only.
LEMMA SameTrade ==
  ASSUME trade' = trade
  PROVE  /\ \A a : Priceable(a)' <=> Priceable(a)
         /\ \A a : Price(a)' = Price(a)
<1>2. \A a : Priceable(a)' <=> Priceable(a)
  BY DEF Priceable
<1>3. Config' = Config
  BY DEF Config
<1>4. \A area : SelectTier(area)' = SelectTier(area)
  BY <1>3 DEF SelectTier
<1>5. \A a, t : Formula(a, t)' = Formula(a, t)
  BY DEF Formula
<1>6. ASSUME NEW a PROVE Price(a)' = Price(a)
  BY <1>3, <1>4, <1>5 DEF Price
<1>7. QED
  BY <1>2, <1>6

\* Every step keeps it.
LEMMA LegacyStep == LegacyInv /\ [LegacyNext]_legacyVars => LegacyInv'
<1> SUFFICES ASSUME LegacyInv, [LegacyNext]_legacyVars PROVE LegacyInv'
  OBVIOUS
<1>0. trade' = trade
  BY DEF LegacyNext, AnalyzeImage, FallBack, Calculate, legacyVars
<1>1. /\ \A a : Priceable(a)' <=> Priceable(a)
      /\ \A a : Price(a)' = Price(a)
  BY <1>0, SameTrade
<1>2. ASSUME NEW r \in Analyses, estimate = Unseen, Len(photos) < MaxPhotos,
             photos' = Append(photos, r), estimate' = estimate
      PROVE  LegacyInv'
  <2>1. photos' \in Seq(Analyses) /\ Len(photos') <= MaxPhotos
    BY <1>2, LegacyConstants DEF LegacyInv
  <2>2. QED
    BY <1>0, <1>1, <1>2, <2>1 DEF LegacyInv
<1>3. CASE AnalyzeImage
  BY <1>2, <1>3 DEF AnalyzeImage, Analyses
<1>4. CASE FallBack
  BY <1>2, <1>4 DEF FallBack, Analyses
<1>5. CASE Calculate
  <2>1. Analysis(photos)' = Analysis(photos)
    BY <1>5 DEF Calculate
  <2>2. QED
    BY <1>0, <1>1, <1>5, <2>1 DEF Calculate, LegacyInv
<1>6. CASE UNCHANGED legacyVars
  <2>1. photos' = photos /\ estimate' = estimate
    BY <1>6 DEF legacyVars
  <2>2. QED
    BY <1>0, <1>1, <2>1 DEF LegacyInv
<1>7. QED
  BY <1>3, <1>4, <1>5, <1>6 DEF LegacyNext

\* The analysis is a merge, of the photos or of the default.
LEMMA PhotosAnalyzed ==
  ASSUME LegacyInv
  PROVE  \E s \in Seq(Analyses) : Analysis(photos) = Merged(s)
<1>1. <<DefaultAnalysis>> \in Seq(Analyses) /\ photos \in Seq(Analyses)
  BY DEF LegacyInv, Analyses
<1>2. QED
  BY <1>1 DEF Analysis

\* It implies the types: an estimate is an amount.
LEMMA LegacyTyped == LegacyInv => LegacyTypeOK
<1> SUFFICES ASSUME LegacyInv PROVE LegacyTypeOK
  OBVIOUS
<1>1. \A i \in DOMAIN photos : photos[i] \in Analyses
  BY DEF LegacyInv
<1>2. estimate # Unseen => estimate \in Nat
  <2> SUFFICES ASSUME estimate # Unseen PROVE Price(Analysis(photos)) \in Nat
    BY DEF LegacyInv
  <2>1. PICK s \in Seq(Analyses) : Analysis(photos) = Merged(s)
    BY PhotosAnalyzed
  <2>2. Priceable(Merged(s)) /\ trade \in Trades
    BY <2>1 DEF LegacyInv
  <2>3. Items(Merged(s)) \in Nat
    BY <2>2, MergedPrice
  <2>4. QED
    BY <2>1, <2>2, <2>3, PriceGrows
<1>3. QED
  BY <1>1, <1>2, AnalysisType DEF LegacyInv, LegacyTypeOK

\* It implies that a further photo lowers the price by a strange access only.
LEMMA LegacyFair == LegacyInv => OnlyStrangeAccessLowersThePrice
<1> SUFFICES ASSUME LegacyInv, estimate # Unseen, NEW i \in DOMAIN photos,
                    Priceable(Analysis(<<photos[i]>>)),
                    \A j \in DOMAIN photos : photos[j].area \in {Unseen, photos[i].area}
             PROVE  \/ Price(Analysis(<<photos[i]>>)) <= estimate
                    \/ /\ trade = "landscaping"
                       /\ photos[i].access = "moderate"
                       /\ Analysis(photos).access \notin Known("access")
  BY DEF OnlyStrangeAccessLowersThePrice
<1>1. photos \in Seq(Analyses) /\ trade \in Trades /\ photos # <<>>
  BY DEF LegacyInv
<1>2. Analysis(photos) = Merged(photos) /\ Analysis(<<photos[i]>>) = Merged(<<photos[i]>>)
  BY <1>1 DEF Analysis
<1>3. Priceable(Merged(photos)) /\ estimate = Price(Merged(photos))
  BY <1>2 DEF LegacyInv
<1>4. Priceable(Merged(<<photos[i]>>))
  BY <1>2
<1>5. \/ Price(Merged(<<photos[i]>>)) <= Price(Merged(photos))
      \/ /\ trade = "landscaping"
         /\ photos[i].access = "moderate"
         /\ Merged(photos).access \notin Known("access")
  BY <1>1, <1>3, <1>4, ViewsNeverLower
<1>6. QED
  BY <1>2, <1>3, <1>5

-----------------------------------------------------------------------------
(* The assistant.                                                          *)

Steps == {"found", "quoted", "scheduled", "sent"}

\* What a command in flight has in hand, and what stays of one that ended.
CommandInv ==
    \A r \in Requests :
        /\ txn[r].pc \in {"open", "closed"} =>
              /\ txn[r].key.wish \in Wishes
              /\ txn[r].key.name \in Names
              /\ txn[r].op = "command"
        /\ txn[r].pc = "open" => /\ txn[r].saw.customer \in Requests
                                 /\ txn[r].saw.step \in Steps
                                 /\ DOMAIN txn[r].saw = {"customer", "step"}

\* Rows are there only of commands that committed, and a command that failed
\* before it had is not among those that lost something.
Begun(r) == txn[r].pc = "closed" \/ (txn[r].pc = "open" /\ txn[r].saw.step # "found")

CleanInv ==
    /\ \A r \in Requests :
          ~Begun(r) /\ r \notin lost =>
              customer[r] = None /\ quote[r] = NoQuote /\ r \notin job
    /\ \A r \in lost : txn[r].pc = "error"

\* A command that found no row of its name: whoever has added one since was
\* open together with it.
LookedInv ==
    \A r, d \in Requests :
        (/\ txn[r].pc = "open" /\ txn[r].saw.step = "found"
         /\ txn[r].saw.customer = r
         /\ d # r /\ customer[d] # None
         /\ Lowered[customer[d]] = Lowered[txn[r].key.name])
        => d \in overlap[r]

\* A wish is asked for by one command at a time, and a quote is of the wish of
\* its command.
WishInv ==
    /\ \A r, s \in Requests :
          r # s /\ {txn[r].pc, txn[s].pc} \subseteq {"open", "closed"}
          => txn[r].key.wish # txn[s].key.wish
    /\ \A r \in Requests :
          quote[r].wish # None =>
              \/ r \in lost
              \/ txn[r].pc \in {"open", "closed"} /\ txn[r].key.wish = quote[r].wish

TablesTyped ==
    /\ customer \in [Requests -> Names \cup {None}]
    /\ quote \in [Requests -> [wish : Wishes \cup {None},
                               customer : Requests \cup {None},
                               status : {"none", "draft", "sent"}]]
    /\ job \subseteq Requests
    /\ lost \subseteq Requests

AssistantInv ==
    /\ SessionInv
    /\ TablesTyped
    /\ CommandInv
    /\ CleanInv
    /\ LookedInv
    /\ WishInv
    /\ NamesakesNeedOverlap

LEMMA AssistantStart ==
  ASSUME AssistantInit PROVE AssistantInv
<1>1. /\ \A r \in Requests : /\ txn[r] = NewSession /\ customer[r] = None
                             /\ quote[r] = NoQuote
      /\ job = {} /\ lost = {} /\ SessionInv
  BY SessionInit DEF AssistantInit, HandlersInit
<1>2. \A r \in Requests : txn[r].pc = "new"
  BY <1>1 DEF NewSession
<1>3. TablesTyped
  BY DEF AssistantInit, TablesTyped, NoQuote
<1>4. CommandInv
  BY <1>2 DEF CommandInv
<1>5. CleanInv
  BY <1>1 DEF CleanInv
<1>6. LookedInv /\ NamesakesNeedOverlap
  BY <1>1 DEF LookedInv, NamesakesNeedOverlap
<1>7. WishInv
  <2>1. NoQuote.wish = None
    BY DEF NoQuote
  <2>2. QED
    BY <1>1, <1>2, <2>1 DEF WishInv
<1>8. QED
  BY <1>1, <1>3, <1>4, <1>5, <1>6, <1>7 DEF AssistantInv

\* A command goes on to its next step.
LEMMA GoOnDoes ==
  ASSUME SessionInv, CommandInv, NEW r \in Requests, NEW step, txn[r].pc = "open",
         GoOn(r, step)
  PROVE  /\ SessionInv' /\ overlap' = overlap /\ Open' = Open
         /\ txn'[r].pc = "open" /\ txn'[r].op = txn[r].op /\ txn'[r].key = txn[r].key
         /\ txn'[r].saw.step = step /\ txn'[r].saw.customer = txn[r].saw.customer
         /\ DOMAIN txn'[r].saw = DOMAIN txn[r].saw
         /\ \A s \in Requests : s # r => txn'[s] = txn[s]
<1> DEFINE saw == [txn[r].saw EXCEPT !.step = step]
           row == [txn[r] EXCEPT !.saw = saw]
<1>1. txn' = [txn EXCEPT ![r] = row] /\ overlap' = overlap
  BY DEF GoOn
<1>2. DOMAIN txn[r].saw = {"customer", "step"}
  BY DEF CommandInv
<1>3. /\ saw.step = step /\ saw.customer = txn[r].saw.customer
      /\ DOMAIN saw = DOMAIN txn[r].saw
  BY <1>2
<1> HIDE DEF saw
<1>4. DOMAIN txn[r] = {"pc", "op", "key", "saw"} /\ DOMAIN txn = Requests
  BY DEF SessionInv, HandlersTypeOK, NewSession
<1>5. /\ DOMAIN row = DOMAIN txn[r] /\ row.pc = "open" /\ row.op = txn[r].op
      /\ row.key = txn[r].key /\ row.saw = saw
  BY <1>4
<1> HIDE DEF row
<1>6. /\ DOMAIN txn' = Requests /\ txn'[r] = row
      /\ \A s \in Requests : s # r => txn'[s] = txn[s]
  BY <1>1, <1>4
<1>7. Open' = Open
  BY <1>5, <1>6 DEF Open
<1>8. HandlersTypeOK'
  BY <1>1, <1>4, <1>5, <1>6 DEF SessionInv, HandlersTypeOK, Phases
<1>9. OverlapInv'
  BY <1>1, <1>5, <1>6, <1>7 DEF SessionInv, OverlapInv
<1>10. QED
  BY <1>1, <1>3, <1>5, <1>6, <1>7, <1>8, <1>9 DEF SessionInv

\* The look at the customers: a name that is not there is the command's to add.
LEMMA BeginKeeps ==
  ASSUME AssistantInv, NEW r \in Requests, NEW w \in Wishes, NEW name \in Names,
         NEW plan \in Plans, BeginCommand(r, w, name, plan)
  PROVE  AssistantInv'
<1> USE DEF AssistantInv
<1>1. PICK c \in IF Namesakes(name) = {} THEN {r} ELSE Namesakes(name) :
        Load(r, "command", [wish |-> w, name |-> name, plan |-> plan],
             [customer |-> c, step |-> "found"])
  BY DEF BeginCommand
<1>2. /\ customer' = customer /\ quote' = quote /\ job' = job /\ lost' = lost
      /\ Waiting(w) /\ c \in Requests
  BY <1>1 DEF BeginCommand, deskTables, Namesakes
<1>3. /\ SessionInv' /\ txn[r].pc = "new"
      /\ txn'[r].pc = "open" /\ txn'[r].op = "command"
      /\ txn'[r].key = [wish |-> w, name |-> name, plan |-> plan]
      /\ txn'[r].saw = [customer |-> c, step |-> "found"]
      /\ \A s \in Requests : s # r => txn'[s] = txn[s]
      /\ \A s \in Requests : overlap[s] \subseteq overlap'[s]
  BY <1>1, LoadDoes
<1>4. /\ txn'[r].key.wish = w /\ txn'[r].key.name = name
      /\ txn'[r].saw.customer = c /\ txn'[r].saw.step = "found"
      /\ DOMAIN txn'[r].saw = {"customer", "step"}
  BY <1>3
<1>5. TablesTyped' /\ CommandInv'
  BY <1>2, <1>3, <1>4 DEF TablesTyped, CommandInv, Steps
<1>6. ~Begun(r) /\ ~Begun(r)' /\ r \notin lost
  BY <1>3, <1>4 DEF Begun, CleanInv
<1>7. CleanInv'
  <2>1. \A s \in Requests : Begun(s)' <=> Begun(s)
    BY <1>3, <1>6 DEF Begun
  <2>2. \A s \in lost : s # r
    BY <1>6
  <2>3. QED
    BY <2>1, <2>2, <1>2, <1>3 DEF CleanInv, TablesTyped
<1>8. LookedInv'
  <2>1. SUFFICES ASSUME NEW s \in Requests, NEW d \in Requests,
                        txn'[s].pc = "open", txn'[s].saw.step = "found",
                        txn'[s].saw.customer = s,
                        d # s, customer[d] # None,
                        Lowered[customer[d]] = Lowered[txn'[s].key.name]
                 PROVE  d \in overlap'[s]
    BY <1>2 DEF LookedInv
  <2>2. CASE s = r
    <3>1. customer[r] = None
      BY <1>6 DEF CleanInv
    <3>2. r \notin Namesakes(name)
      BY <3>1 DEF Namesakes
    <3>3. d \in Namesakes(name)
      BY <2>1, <2>2, <1>4 DEF Namesakes
    <3>4. QED
      BY <3>2, <3>3, <2>1, <2>2, <1>4
  <2>3. CASE s # r
    BY <2>1, <2>3, <1>3 DEF LookedInv
  <2>4. QED
    BY <2>2, <2>3
<1>9. WishInv'
  <2>1. \A s \in Requests : s # r /\ txn[s].pc \in {"open", "closed"} => txn[s].key.wish # w
    BY <1>2 DEF Waiting
  <2>2. \A s, t \in Requests :
          s # t /\ {txn'[s].pc, txn'[t].pc} \subseteq {"open", "closed"}
          => txn'[s].key.wish # txn'[t].key.wish
    BY <2>1, <1>3, <1>4 DEF WishInv
  <2>3. quote[r].wish = None
    BY <1>6 DEF CleanInv, NoQuote
  <2>4. QED
    BY <2>2, <2>3, <1>2, <1>3 DEF WishInv
<1>10. NamesakesNeedOverlap'
  BY <1>2, <1>3 DEF NamesakesNeedOverlap
<1>11. QED
  BY <1>3, <1>5, <1>7, <1>8, <1>9, <1>10

\* The first commit of a command: of the customer it adds, if it adds one, ...
LEMMA CustomerCommitted ==
  ASSUME AssistantInv, NEW r \in Requests, At(r, "found"), overlap' = overlap,
         customer' = WithCustomer(r),
         txn'[r].pc = "open" => txn'[r].saw.step # "found",
         \A s \in Requests : s # r => txn'[s] = txn[s]
  PROVE  /\ LookedInv' /\ NamesakesNeedOverlap'
         /\ customer' \in [Requests -> Names \cup {None}]
         /\ \A s \in Requests : s # r => customer'[s] = customer[s]
<1> USE DEF AssistantInv
<1>1. txn[r].pc = "open" /\ txn[r].saw.step = "found"
      /\ txn[r].key.name \in Names /\ customer \in [Requests -> Names \cup {None}]
  BY DEF At, InFlight, CommandInv, TablesTyped
<1>2. CASE txn[r].saw.customer # r
  <2>1. customer' = customer
    BY <1>2 DEF WithCustomer
  <2>2. QED
    BY <2>1, <1>1 DEF LookedInv, NamesakesNeedOverlap
<1>3. CASE txn[r].saw.customer = r
  <2>1. customer' = [customer EXCEPT ![r] = txn[r].key.name]
    BY <1>3 DEF WithCustomer
  <2>2. /\ customer' \in [Requests -> Names \cup {None}]
        /\ customer'[r] = txn[r].key.name
        /\ \A s \in Requests : s # r => customer'[s] = customer[s]
    BY <2>1, <1>1
  <2>3. \A d \in Requests : d # r /\ customer[d] # None
            /\ Lowered[customer[d]] = Lowered[txn[r].key.name]
          => d \in overlap[r] /\ r \in overlap[d]
    BY <1>1, <1>3 DEF LookedInv, SessionInv, OverlapInv
  <2>4. NamesakesNeedOverlap'
    BY <2>2, <2>3 DEF NamesakesNeedOverlap
  <2>5. LookedInv'
    <3>1. \A s \in Requests : s # r /\ txn[s].pc = "open" => r \in overlap[s]
      BY <1>1 DEF SessionInv, OverlapInv, Open
    <3>2. QED
      BY <3>1, <2>2 DEF LookedInv
  <2>6. QED
    BY <2>2, <2>4, <2>5
<1>4. QED
  BY <1>2, <1>3

\* ... with its quote, or without one.
LEMMA FirstCommitKeeps ==
  ASSUME AssistantInv, NEW r \in Requests, FailToPrice(r) \/ CommitQuote(r)
  PROVE  AssistantInv'
<1> USE DEF AssistantInv
<1>1. /\ At(r, "found") /\ customer' = WithCustomer(r) /\ job' = job /\ lost' = lost
      /\ Close(r) \/ GoOn(r, "quoted")
  BY DEF FailToPrice, CommitQuote
<1>2. txn[r].pc = "open" /\ txn[r].saw.step = "found"
  BY <1>1 DEF At, InFlight
<1>3. /\ SessionInv' /\ overlap' = overlap
      /\ txn'[r].pc \in {"open", "closed"} /\ txn'[r].op = txn[r].op
      /\ txn'[r].key = txn[r].key
      /\ txn'[r].pc = "open" =>
           /\ txn'[r].saw.step = "quoted"
           /\ txn'[r].saw.customer = txn[r].saw.customer
           /\ DOMAIN txn'[r].saw = DOMAIN txn[r].saw
      /\ \A s \in Requests : s # r => txn'[s] = txn[s]
  BY <1>1, <1>2, CloseDoes, GoOnDoes
<1>4. /\ LookedInv' /\ NamesakesNeedOverlap'
      /\ customer' \in [Requests -> Names \cup {None}]
      /\ \A s \in Requests : s # r => customer'[s] = customer[s]
  BY <1>1, <1>3, CustomerCommitted
<1>5. CommandInv'
  BY <1>2, <1>3 DEF CommandInv, Steps
<1>6. Begun(r)' /\ r \notin lost /\ \A s \in Requests : s # r => (Begun(s)' <=> Begun(s))
  BY <1>2, <1>3 DEF Begun, CleanInv
<1>7. /\ \A s \in Requests : s # r => quote'[s] = quote[s]
      /\ quote' \in [Requests -> [wish : Wishes \cup {None},
                                  customer : Requests \cup {None},
                                  status : {"none", "draft", "sent"}]]
      /\ quote'[r].wish \in {quote[r].wish, txn[r].key.wish}
  <2>1. CASE FailToPrice(r)
    BY <2>1 DEF FailToPrice, TablesTyped
  <2>2. CASE CommitQuote(r)
    <3> DEFINE q == [wish     |-> txn[r].key.wish,
                     customer |-> txn[r].saw.customer,
                     status   |-> "draft"]
    <3>1. quote' = [quote EXCEPT ![r] = q]
      BY <2>2 DEF CommitQuote
    <3>2. q \in [wish : Wishes \cup {None}, customer : Requests \cup {None},
                 status : {"none", "draft", "sent"}]
          /\ q.wish = txn[r].key.wish
      BY <1>2 DEF CommandInv
    <3> HIDE DEF q
    <3>3. QED
      BY <3>1, <3>2 DEF TablesTyped
  <2>3. QED
    BY <2>1, <2>2
<1>8. TablesTyped'
  BY <1>1, <1>4, <1>7 DEF TablesTyped
<1>9. CleanInv'
  BY <1>1, <1>3, <1>4, <1>6, <1>7 DEF CleanInv, TablesTyped
<1>10. WishInv'
  <2>1. quote[r].wish = None
    <3>1. ~Begun(r)
      BY <1>2 DEF Begun
    <3>2. QED
      BY <3>1, <1>6 DEF CleanInv, NoQuote
  <2>2. \A s, t \in Requests :
          s # t /\ {txn'[s].pc, txn'[t].pc} \subseteq {"open", "closed"}
          => txn'[s].key.wish # txn'[t].key.wish
    BY <1>2, <1>3 DEF WishInv
  <2>3. \A s \in Requests :
          quote'[s].wish # None =>
              \/ s \in lost
              \/ txn'[s].pc \in {"open", "closed"} /\ txn'[s].key.wish = quote'[s].wish
    BY <2>1, <1>3, <1>7 DEF WishInv
  <2>4. QED
    BY <2>2, <2>3, <1>1 DEF WishInv
<1>11. QED
  BY <1>3, <1>4, <1>5, <1>8, <1>9, <1>10

\* The later commits, and the end of a command that succeeds.
LEMMA LaterKeeps ==
  ASSUME AssistantInv, NEW r \in Requests,
         CommitJob(r) \/ CommitSend(r) \/ FinishCommand(r)
  PROVE  AssistantInv'
<1> USE DEF AssistantInv
<1>1. /\ txn[r].pc = "open" /\ txn[r].saw.step # "found"
      /\ customer' = customer /\ lost' = lost
      /\ Close(r) \/ \E step \in {"scheduled", "sent"} : GoOn(r, step)
  BY DEF CommitJob, CommitSend, FinishCommand, Scheduled, At, InFlight, deskTables
<1>2. /\ SessionInv' /\ overlap' = overlap
      /\ txn'[r].pc \in {"open", "closed"} /\ txn'[r].op = txn[r].op
      /\ txn'[r].key = txn[r].key
      /\ txn'[r].pc = "open" =>
           /\ txn'[r].saw.step \in {"scheduled", "sent"}
           /\ txn'[r].saw.customer = txn[r].saw.customer
           /\ DOMAIN txn'[r].saw = DOMAIN txn[r].saw
      /\ \A s \in Requests : s # r => txn'[s] = txn[s]
  BY <1>1, CloseDoes, GoOnDoes
<1>3. /\ \A s \in Requests : s # r => quote'[s] = quote[s]
      /\ quote' \in [Requests -> [wish : Wishes \cup {None},
                                  customer : Requests \cup {None},
                                  status : {"none", "draft", "sent"}]]
      /\ quote'[r].wish = quote[r].wish
      /\ job' \in {job, job \cup {r}}
  <2>1. CASE CommitSend(r)
    BY <2>1 DEF CommitSend, TablesTyped
  <2>2. CASE CommitJob(r) \/ FinishCommand(r)
    BY <2>2 DEF CommitJob, FinishCommand, deskTables, TablesTyped
  <2>3. QED
    BY <2>1, <2>2
<1>4. CommandInv'
  BY <1>1, <1>2 DEF CommandInv, Steps
<1>5. Begun(r)' /\ r \notin lost /\ \A s \in Requests : s # r => (Begun(s)' <=> Begun(s))
  BY <1>1, <1>2 DEF Begun, CleanInv
<1>6. TablesTyped'
  BY <1>1, <1>3 DEF TablesTyped
<1>7. CleanInv'
  BY <1>1, <1>2, <1>3, <1>5 DEF CleanInv, TablesTyped
<1>8. LookedInv'
  BY <1>1, <1>2 DEF LookedInv
<1>9. WishInv'
  <2>1. \A s, t \in Requests :
          s # t /\ {txn'[s].pc, txn'[t].pc} \subseteq {"open", "closed"}
          => txn'[s].key.wish # txn'[t].key.wish
    BY <1>1, <1>2 DEF WishInv
  <2>2. \A s \in Requests :
          quote'[s].wish # None =>
              \/ s \in lost
              \/ txn'[s].pc \in {"open", "closed"} /\ txn'[s].key.wish = quote'[s].wish
    BY <1>1, <1>2, <1>3 DEF WishInv
  <2>3. QED
    BY <2>1, <2>2, <1>1 DEF WishInv
<1>10. NamesakesNeedOverlap'
  BY <1>1, <1>2 DEF NamesakesNeedOverlap
<1>11. QED
  BY <1>2, <1>4, <1>6, <1>7, <1>8, <1>9, <1>10

\* A command that ends in an error, before its first commit or after it.
LEMMA FailKeeps ==
  ASSUME AssistantInv, NEW r \in Requests, RefuseQuote(r) \/ Fail(r)
  PROVE  AssistantInv'
<1> USE DEF AssistantInv
<1>1. /\ txn[r].pc = "open" /\ Rollback(r)
      /\ customer' = customer /\ quote' = quote /\ job' = job
      /\ lost' = IF At(r, "found") THEN lost ELSE lost \cup {r}
  BY DEF RefuseQuote, Fail, At, InFlight, deskTables
<1>2. /\ SessionInv' /\ overlap' = overlap /\ txn'[r].pc = "error"
      /\ \A s \in Requests : s # r => txn'[s] = txn[s]
  BY <1>1, RollbackDoes
<1>3. At(r, "found") <=> txn[r].saw.step = "found"
  BY <1>1 DEF At, InFlight, CommandInv
<1>4. ~Begun(r)' /\ (r \notin lost' => ~Begun(r) /\ r \notin lost)
      /\ \A s \in Requests : s # r => (Begun(s)' <=> Begun(s))
  BY <1>1, <1>2, <1>3 DEF Begun
<1>5. TablesTyped' /\ CommandInv' /\ LookedInv' /\ NamesakesNeedOverlap'
  BY <1>1, <1>2 DEF TablesTyped, CommandInv, LookedInv, NamesakesNeedOverlap
<1>6. CleanInv'
  BY <1>1, <1>2, <1>4 DEF CleanInv, TablesTyped
<1>7. r \notin lost' => quote[r].wish = None
  BY <1>4 DEF CleanInv, NoQuote
<1>8. WishInv'
  <2>1. \A s, t \in Requests :
          s # t /\ {txn'[s].pc, txn'[t].pc} \subseteq {"open", "closed"}
          => txn'[s].key.wish # txn'[t].key.wish
    BY <1>2 DEF WishInv
  <2>2. \A s \in Requests :
          quote'[s].wish # None =>
              \/ s \in lost'
              \/ txn'[s].pc \in {"open", "closed"} /\ txn'[s].key.wish = quote'[s].wish
    BY <1>1, <1>2, <1>7 DEF WishInv
  <2>3. QED
    BY <2>1, <2>2 DEF WishInv
<1>9. QED
  BY <1>2, <1>5, <1>6, <1>8

LEMMA DeleteKeeps ==
  ASSUME AssistantInv, NEW c \in Requests, DeleteCustomer(c)
  PROVE  AssistantInv'
<1> USE DEF AssistantInv
<1>1. /\ txn' = txn /\ overlap' = overlap /\ quote' = quote /\ job' = job /\ lost' = lost
      /\ customer' = [customer EXCEPT ![c] = None]
  BY DEF DeleteCustomer, handlerVars
<1>2. /\ customer' \in [Requests -> Names \cup {None}]
      /\ \A d \in Requests : customer'[d] # None => customer'[d] = customer[d]
      /\ \A d \in Requests : customer[d] = None => customer'[d] = None
  BY <1>1 DEF TablesTyped
<1>3. SessionInv' /\ CommandInv' /\ WishInv' /\ TablesTyped'
  BY <1>1, <1>2
  DEF SessionInv, HandlersTypeOK, OverlapInv, Open, CommandInv, WishInv, TablesTyped
<1>4. CleanInv'
  BY <1>1, <1>2 DEF CleanInv, Begun
<1>5. LookedInv' /\ NamesakesNeedOverlap'
  BY <1>1, <1>2 DEF LookedInv, NamesakesNeedOverlap
<1>6. QED
  BY <1>3, <1>4, <1>5

LEMMA AssistantStep ==
  ASSUME AssistantInv, [AssistantNext]_assistantVars
  PROVE  AssistantInv'
<1>1. CASE AssistantNext
  BY <1>1, BeginKeeps, FirstCommitKeeps, LaterKeeps, FailKeeps, DeleteKeeps
  DEF AssistantNext
<1>2. CASE UNCHANGED assistantVars
  BY <1>2 DEF assistantVars, handlerVars, deskTables, AssistantInv, SessionInv,
    HandlersTypeOK, OverlapInv, Open, TablesTyped, CommandInv, CleanInv, Begun,
    LookedInv, WishInv, NamesakesNeedOverlap
<1>3. QED
  BY <1>1, <1>2

LEMMA CommandsRepeatWhatWasLost ==
  ASSUME AssistantInv PROVE RepeatsNeedInterruption
<1>1. ASSUME NEW r \in Requests, NEW s \in Requests, r # s,
             quote[r].wish # None, quote[r].wish = quote[s].wish,
             r \notin lost, s \notin lost
      PROVE  FALSE
  BY <1>1 DEF AssistantInv, WishInv
<1>2. ASSUME NEW r \in Requests, txn[r].pc = "error", r \notin lost
      PROVE  customer[r] = None /\ quote[r] = NoQuote /\ r \notin job
  BY <1>2 DEF AssistantInv, CleanInv, Begun
<1>3. QED
  BY <1>1, <1>2 DEF RepeatsNeedInterruption

-----------------------------------------------------------------------------
(* The desk.  A behaviour of it is one of each of its parts, most of them  *)
(* at rest, so that what holds of the parts holds of it.                   *)

\* It starts as each of its parts does.
LEMMA DeskStarts == Init => LimiterInit /\ PricingInit /\ LegacyInit /\ AssistantInit
BY DEF Init

\* A step of it is a step of each of its parts, or leaves that part alone.
LEMMA DeskSteps ==
  [Next]_vars => /\ [LimiterNext]_limiterVars /\ [PricingNext]_pricingVars
                 /\ [LegacyNext]_legacyVars /\ [AssistantNext]_assistantVars
<1> SUFFICES ASSUME [Next]_vars
             PROVE  /\ [LimiterNext]_limiterVars /\ [PricingNext]_pricingVars
                    /\ [LegacyNext]_legacyVars /\ [AssistantNext]_assistantVars
  OBVIOUS
<1>1. CASE Next
  BY <1>1 DEF Next
<1>2. CASE UNCHANGED vars
  BY <1>2 DEF vars
<1>3. QED
  BY <1>1, <1>2

DeskInv == LimiterInv /\ PricingInv /\ LegacyInv /\ AssistantInv

\* The invariants of the parts, together.
LEMMA DeskInvariant == Spec => []DeskInv
<1>1. Init => DeskInv
  BY DeskStarts, LimiterInvInit, PricingInvInit, LegacyStart, AssistantStart DEF DeskInv
<1>2. DeskInv /\ [Next]_vars => DeskInv'
  BY DeskSteps, LimiterInvStep, PricingInvStep, LegacyStep, AssistantStep DEF DeskInv
<1>3. QED
  BY <1>1, <1>2, PTL DEF Spec

\* The desk implements the specifications of the limiter and of the engine.
THEOREM DeskIsItsParts == Spec => LimiterSpec /\ PricingSpec
<1>1. Init => LimiterInit /\ PricingInit
  BY DeskStarts
<1>2. [Next]_vars => [LimiterNext]_limiterVars /\ [PricingNext]_pricingVars
  BY DeskSteps
<1>3. QED
  BY <1>1, <1>2, PTL DEF Spec, LimiterSpec, PricingSpec

\* The types of all the parts: an estimate, where there is one, is an amount of
\* cents, whatever the photos showed (calculate).
THEOREM DeskTypeOK == Spec => []TypeOK
<1>1. DeskInv => TypeOK
  <2> SUFFICES ASSUME DeskInv PROVE TypeOK
    OBVIOUS
  <2>1. LimiterTypeOK /\ PricingTypeOK
    BY DEF DeskInv, LimiterInv, PricingInv
  <2>2. LegacyTypeOK
    BY LegacyTyped DEF DeskInv
  <2>3. AssistantTypeOK
    BY DEF DeskInv, AssistantInv, SessionInv, TablesTyped, AssistantTypeOK
  <2>4. QED
    BY <2>1, <2>2, <2>3 DEF TypeOK
<1>2. QED
  BY <1>1, DeskInvariant, PTL

\* At the desk, the limiter refuses a call exactly when the window before it is
\* full (RateLimiter.allow).
THEOREM DeskLimits == Spec => []RefusesExactlyWhenFull
BY DeskIsItsParts, LimitHolds, PTL

\* The published figures of every quote add up (compute).
THEOREM DeskFigures == Spec => []PublishedFiguresAddUp
BY DeskIsItsParts, FiguresHold, PTL

\* Saved settings price, and stored quotes explain (update_pricing,
\* create_quote, explain_quote).
THEOREM DeskPrices == Spec => []PricingNeverFails
BY DeskIsItsParts, PricingWorks, PTL

\* Whatever the vision model answers, however many photos there are and whatever
\* area they show, a further photo of the same work makes it cheaper only where a
\* strange access takes the place of a moderate one (analyze_batch, calculate).
THEOREM DeskPhotos == Spec => []OnlyStrangeAccessLowersThePrice
<1>1. DeskInv => OnlyStrangeAccessLowersThePrice
  BY LegacyFair DEF DeskInv
<1>2. QED
  BY <1>1, DeskInvariant, PTL

\* Two rows for one customer only where the commands that made them overlapped
\* (run_command, find or create).
THEOREM DeskNamesakes == Spec => []NamesakesNeedOverlap
<1>1. DeskInv => NamesakesNeedOverlap
  BY DEF DeskInv, AssistantInv
<1>2. QED
  BY <1>1, DeskInvariant, PTL

\* A wish has a second quote only where a command failed after it had committed
\* the first; one that failed before has left nothing (run_command).
THEOREM DeskRepeats == Spec => []RepeatsNeedInterruption
<1>1. DeskInv => RepeatsNeedInterruption
  BY CommandsRepeatWhatWasLost DEF DeskInv
<1>2. QED
  BY <1>1, DeskInvariant, PTL

=============================================================================
