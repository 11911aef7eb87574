------------------------- MODULE PortfolioRiskProofs -------------------------
(***************************************************************************)
(* The safety of PortfolioRisk, for any finite set of markets, any books,  *)
(* views and ledgers in the ranges of the code's models, and any limits:   *)
(* what the kill switch, the gates and the sizing promise of the orders,   *)
(* while the books and the switch move during the agents' minutes.         *)
(***************************************************************************)
EXTENDS PortfolioRisk, FiniteSetTheorems, WellFoundedInduction, TLAPS

(* The portfolio has been read.                                            *)
Working == stage \in {"trading", "risk", "orders"}

RowsOf(c) == {r \in paperTrades : r.cycle = c}

(* The rows of the two cycles before c, an hour's worth when c counts them. *)
RowsBefore(c) == {r \in paperTrades : r.cycle \in c - 2 .. c - 1}

(* The notional of the fills that _load_cash_balance counted in cycle c.   *)
PartialBefore(c) == {r \in paperTrades : r.status = "partial" /\ r.cycle < c}
SpentOn(S) == MapThenSumSet(Spends, S)
CostOn(S) == MapThenSumSet(Cost, S)
OpenBefore(c) == SpentOn(PartialBefore(c))

(* What TypeOK leaves unsaid of the running cycle.                         *)
CycleTypes ==
    /\ IsFiniteSet(paperTrades) /\ earlier \in Nat
    /\ stage # "off" => cycle \in Cycles
    /\ stage \in {"collect", "trading", "risk"} => RowsOf(cycle) = {}
    /\ stage \notin {"risk", "orders"} => DOMAIN proposals = {}
    /\ stage # "orders" => DOMAIN orders = {}
    /\ \A o \in realOrders : o[1] <= cycle
    /\ \A m \in DOMAIN books : books[m] \in Books
    /\ \A m \in DOMAIN proposals : proposals[m] \in Views
    /\ \A m \in DOMAIN orders :
         orders[m].side \in Sides /\ orders[m].notional \in Nat \ {0}

(* What the cycle read of the account when it collected still holds: only  *)
(* its own fills have been added since.                                    *)
AccountRead ==
    Working =>
       /\ portfolio.positions \in Ledgers /\ portfolio.equity \in Int
       /\ portfolio.cycle_notional_opened = 0 /\ portfolio.available \in Nat
       /\ portfolio.orders_in_last_hour = Cardinality(RowsBefore(cycle))
       /\ mode = "paper" =>
            portfolio.available =
                IF earlier + OpenBefore(cycle) >= PAPER_STARTING_CASH_USD THEN 0
                ELSE PAPER_STARTING_CASH_USD - (earlier + OpenBefore(cycle))

(* A switch that was set before the cycle began is in its portfolio.       *)
SwitchRead ==
    /\ SwitchIsSet => switchedIn <= cycle
    /\ Working /\ SwitchIsSet /\ switchedIn < cycle => portfolio.kill_switch_active

(* The orders left have passed the gates.                                  *)
OrdersGated ==
    stage = "orders" =>
       \A m \in DOMAIN orders :
          /\ ~portfolio.kill_switch_active
          /\ portfolio.orders_in_last_hour < ORDER_RATE_LIMIT_PER_HOUR
          /\ orders[m].notional + FeeOf(orders[m].notional) <= portfolio.available

(* A cycle that placed an order counted less than the limit before, and it *)
(* places one order at most for each market it chose.                      *)
RowsCounted ==
    /\ \A c \in Cycles :
         /\ RowsOf(c) # {} => Cardinality(RowsBefore(c)) < ORDER_RATE_LIMIT_PER_HOUR
         /\ Cardinality(RowsOf(c)) <= TOP_K_MARKETS

OrdersCounted ==
    /\ stage = "risk" => Cardinality(DOMAIN proposals) <= TOP_K_MARKETS
    /\ stage = "orders" =>
         Cardinality(RowsOf(cycle)) + Cardinality(DOMAIN orders) <= TOP_K_MARKETS

Inv ==
    /\ TypeOK /\ CycleTypes /\ AccountRead /\ SwitchRead /\ OrdersGated
    /\ RowsCounted /\ OrdersCounted
    /\ KillSwitchHaltsNextCycle /\ AffordableAtCollection
    /\ StaleBooksOnlyReject

-----------------------------------------------------------------------------
(* Sums over a finite set, which MapThenSumSet takes an element at a time. *)
Some(s) == CHOOSE x \in s : TRUE

(* F is the running total of g over the subsets of S, an element at a time. *)
Totals(F, g, S) ==
    F = [s \in SUBSET S |-> IF s = {} THEN 0 ELSE g[Some(s)] + F[s \ {Some(s)}]]

LEMMA SomeIn == ASSUME NEW s, s # {} PROVE Some(s) \in s
  BY DEF Some

(* Finite-set induction without a predicate: a non-empty set of subsets of *)
(* a finite set has one with no smaller one in the set.                     *)
LEMMA Smallest ==
  ASSUME NEW S, IsFiniteSet(S), NEW T \in SUBSET SUBSET S, T # {}
  PROVE  \E t \in T : \A u \in T : ~ (u \subseteq t /\ u # t)
<1>1. IsWellFoundedOn(StrictSubsetOrdering(S), FiniteSubsetsOf(S))
  BY FS_StrictSubsetOrderingWellFounded
<1>2. FiniteSubsetsOf(S) = SUBSET S
  BY FS_FiniteSubsetsOfFinite
<1>3. \E t \in T : \A u \in T : ~ (<<u, t>> \in StrictSubsetOrdering(S))
  BY <1>1, <1>2, WFMin
<1> QED
  BY <1>3 DEF StrictSubsetOrdering

LEMMA TotalsStep ==
  ASSUME NEW S, NEW F, NEW g, Totals(F, g, S), NEW s \in SUBSET S
  PROVE  /\ s = {} => F[s] = 0
         /\ s # {} => /\ F[s] = g[Some(s)] + F[s \ {Some(s)}]
                      /\ Some(s) \in s /\ s \ {Some(s)} \in SUBSET S
                      /\ s \ {Some(s)} \subseteq s /\ s \ {Some(s)} # s
<1>1. F[s] = IF s = {} THEN 0 ELSE g[Some(s)] + F[s \ {Some(s)}]
  BY DEF Totals
<1> QED
  BY <1>1, SomeIn

LEMMA TotalsAgree ==
  ASSUME NEW S, IsFiniteSet(S), NEW g, NEW A \in SUBSET S, NEW B \in SUBSET S,
         NEW F, NEW G, Totals(F, g, A), Totals(G, g, B)
  PROVE  \A s \in SUBSET (A \intersect B) : F[s] = G[s]
<1> DEFINE T == {s \in SUBSET (A \intersect B) : F[s] # G[s]}
<1>1. SUFFICES ASSUME T # {} PROVE FALSE
  OBVIOUS
<1>2. PICK t \in T : \A u \in T : ~ (u \subseteq t /\ u # t)
  <2>1. T \in SUBSET SUBSET S
    OBVIOUS
  <2> HIDE DEF T
  <2> QED
    BY <1>1, <2>1, Smallest
<1>3. t \in SUBSET A /\ t \in SUBSET B
  OBVIOUS
<1>4. t \ {Some(t)} \notin T /\ t \ {Some(t)} \in SUBSET (A \intersect B)
  BY <1>2, <1>3, TotalsStep
<1>5. F[t \ {Some(t)}] = G[t \ {Some(t)}]
  BY <1>4
<1> QED
  BY <1>3, <1>5, TotalsStep

LEMMA TotalsTyped ==
  ASSUME NEW S, IsFiniteSet(S), NEW g \in [S -> Int], NEW F, Totals(F, g, S)
  PROVE  \A s \in SUBSET S : F[s] \in Int
<1> DEFINE T == {s \in SUBSET S : F[s] \notin Int}
<1>1. SUFFICES ASSUME T # {} PROVE FALSE
  OBVIOUS
<1>2. PICK t \in T : \A u \in T : ~ (u \subseteq t /\ u # t)
  <2>1. T \in SUBSET SUBSET S
    OBVIOUS
  <2> HIDE DEF T
  <2> QED
    BY <1>1, <2>1, Smallest
<1>3. t # {}
  <2>1. F[{}] = 0
    BY TotalsStep
  <2> QED
    BY <2>1
<1>4. F[t \ {Some(t)}] \in Int
  <2>1. t \ {Some(t)} \in SUBSET S /\ t \ {Some(t)} \subseteq t /\ t \ {Some(t)} # t
    BY <1>3, TotalsStep
  <2> QED
    BY <1>2, <2>1
<1> QED
  BY <1>3, <1>4, TotalsStep

LEMMA TotalsExist ==
  ASSUME NEW S, IsFiniteSet(S), NEW g
  PROVE  \E F : Totals(F, g, S)
<1> DEFINE T == {s \in SUBSET S : ~ \E F : Totals(F, g, s)}
<1>1. SUFFICES ASSUME T # {} PROVE FALSE
  BY <1>1
<1>2. PICK U \in T : \A u \in T : ~ (u \subseteq U /\ u # U)
  <2>1. T \in SUBSET SUBSET S
    OBVIOUS
  <2> HIDE DEF T
  <2> QED
    BY <1>1, <2>1, Smallest
<1> DEFINE Fun(t) == CHOOSE F : Totals(F, g, t)
           Val(t) == Fun(t)[t]
<1>3. ASSUME NEW t \in SUBSET U, t # U PROVE Totals(Fun(t), g, t)
  <2>1. \E F : Totals(F, g, t)
    BY <1>2, <1>3
  <2> QED
    BY <2>1
<1> HIDE DEF Fun
<1>4. ASSUME NEW t \in SUBSET U, t # U
      PROVE  Val(t) = IF t = {} THEN 0 ELSE g[Some(t)] + Val(t \ {Some(t)})
  <2>1. CASE t = {}
    BY <1>3, <1>4, <2>1, TotalsStep
  <2>2. CASE t # {}
    <3>1. /\ Fun(t)[t] = g[Some(t)] + Fun(t)[t \ {Some(t)}]
          /\ t \ {Some(t)} \in SUBSET U /\ t \ {Some(t)} # U
      <4>1. Totals(Fun(t), g, t) /\ t \in SUBSET t
        BY <1>3, <1>4
      <4> QED
        BY <2>2, <4>1, TotalsStep
    <3>2. Totals(Fun(t \ {Some(t)}), g, t \ {Some(t)}) /\ Totals(Fun(t), g, t)
      BY <1>3, <1>4, <3>1
    <3>3. Fun(t)[t \ {Some(t)}] = Fun(t \ {Some(t)})[t \ {Some(t)}]
      <4>1. t \in SUBSET S /\ t \ {Some(t)} \in SUBSET S
            /\ t \ {Some(t)} \in SUBSET (t \intersect (t \ {Some(t)}))
        OBVIOUS
      <4> QED
        BY <3>2, <4>1, TotalsAgree
    <3> QED
      BY <2>2, <3>1, <3>3
  <2> QED
    BY <2>1, <2>2
<1> DEFINE v == IF U = {} THEN 0 ELSE g[Some(U)] + Val(U \ {Some(U)})
           H == [t \in SUBSET U |-> IF t = U THEN v ELSE Val(t)]
<1>5. ASSUME NEW t \in SUBSET U
      PROVE  H[t] = IF t = {} THEN 0 ELSE g[Some(t)] + H[t \ {Some(t)}]
  <2>1. t # {} => t \ {Some(t)} \in SUBSET U /\ t \ {Some(t)} # U
    BY SomeIn
  <2>2. t # {} => H[t \ {Some(t)}] = Val(t \ {Some(t)})
    BY <2>1
  <2>3. CASE t = U
    BY <2>2, <2>3
  <2>4. CASE t # U
    BY <1>4, <2>2, <2>4
  <2> QED
    BY <2>3, <2>4
<1> HIDE DEF v, Val
<1>6. Totals(H, g, U)
  <2> HIDE DEF H
  <2>1. H = [t \in SUBSET U |-> H[t]]
    BY DEF H
  <2> QED
    BY <1>5, <2>1 DEF Totals
<1> QED
  BY <1>6

LEMMA CostSum ==
  ASSUME NEW S, IsFiniteSet(S), \A p \in S : Cost(p) \in Int
  PROVE  CostOn(S) \in Int
<1> DEFINE g == [p \in S |-> Cost(p)]
           Body(f) == [s \in SUBSET S |->
                         IF s = {} THEN 0 ELSE Cost(Some(s)) + f[s \ {Some(s)}]]
           iter == CHOOSE f : f = Body(f)
<1>1. CostOn(S) = iter[S]
  BY DEF MapThenSumSet, MapThenFoldSet, Some, CostOn
<1>2. ASSUME NEW f PROVE Totals(f, g, S) <=> f = Body(f)
  <2>1. \A s \in SUBSET S : s # {} => g[Some(s)] = Cost(Some(s))
    BY SomeIn
  <2> QED
    BY <2>1 DEF Totals
<1> HIDE DEF Body
<1>3. iter = Body(iter)
  BY <1>2, TotalsExist
<1>4. g \in [S -> Int]
  OBVIOUS
<1> HIDE DEF iter, g
<1>5. iter[S] \in Int
  BY <1>2, <1>3, <1>4, TotalsTyped
<1> QED
  BY <1>1, <1>5

LEMMA SpendSum ==
  ASSUME NEW S, IsFiniteSet(S), \A p \in S : Spends(p) \in Int
  PROVE  SpentOn(S) \in Int
<1> DEFINE g == [p \in S |-> Spends(p)]
           Body(f) == [s \in SUBSET S |->
                         IF s = {} THEN 0 ELSE Spends(Some(s)) + f[s \ {Some(s)}]]
           iter == CHOOSE f : f = Body(f)
<1>1. SpentOn(S) = iter[S]
  BY DEF MapThenSumSet, MapThenFoldSet, Some, SpentOn
<1>2. ASSUME NEW f PROVE Totals(f, g, S) <=> f = Body(f)
  <2>1. \A s \in SUBSET S : s # {} => g[Some(s)] = Spends(Some(s))
    BY SomeIn
  <2> QED
    BY <2>1 DEF Totals
<1> HIDE DEF Body
<1>3. iter = Body(iter)
  BY <1>2, TotalsExist
<1>4. g \in [S -> Int]
  OBVIOUS
<1> HIDE DEF iter, g
<1>5. iter[S] \in Int
  BY <1>2, <1>3, <1>4, TotalsTyped
<1> QED
  BY <1>1, <1>5

(* The value of one position at the quotes of its book, as Unrealized sums *)
(* it.                                                                     *)
Gain(bs, p) ==
    (p.size * (IF p.side = "yes" THEN bs[p.market].bid - p.avg_price
               ELSE 1000 - bs[p.market].ask - p.avg_price)) \div 1000

GainOn(bs, S) == MapThenSumSet(LAMBDA p : Gain(bs, p), S)

LEMMA GainSum ==
  ASSUME NEW S, IsFiniteSet(S), NEW bs, \A p \in S : Gain(bs, p) \in Int
  PROVE  GainOn(bs, S) \in Int
<1> DEFINE g == [p \in S |-> Gain(bs, p)]
           Body(f) == [s \in SUBSET S |->
                         IF s = {} THEN 0 ELSE Gain(bs, Some(s)) + f[s \ {Some(s)}]]
           iter == CHOOSE f : f = Body(f)
<1>1. GainOn(bs, S) = iter[S]
  BY DEF MapThenSumSet, MapThenFoldSet, Some, GainOn
<1>2. ASSUME NEW f PROVE Totals(f, g, S) <=> f = Body(f)
  <2>1. \A s \in SUBSET S : s # {} => g[Some(s)] = Gain(bs, Some(s))
    BY SomeIn
  <2> QED
    BY <2>1 DEF Totals
<1> HIDE DEF Body
<1>3. iter = Body(iter)
  BY <1>2, TotalsExist
<1>4. g \in [S -> Int]
  OBVIOUS
<1> HIDE DEF iter, g
<1>5. iter[S] \in Int
  BY <1>2, <1>3, <1>4, TotalsTyped
<1> QED
  BY <1>1, <1>5

LEMMA Equity ==
  ASSUME CycleTypes, TypeOK, NEW bs, \A m \in DOMAIN bs : bs[m] \in Books
  PROVE  Unrealized(bs) \in Int
<1> DEFINE S == {p \in positions : p.market \in DOMAIN bs}
<1>1. positions \in Ledgers
  BY DEF TypeOK
<1>2. IsFiniteSet(S)
  BY <1>1, RiskAssumption, FS_Subset
<1>3. ASSUME NEW p \in S PROVE Gain(bs, p) \in Int
  <2>1. p.size \in Int /\ p.avg_price \in Int
    BY <1>1, RiskAssumption
  <2>2. bs[p.market].bid \in Int /\ bs[p.market].ask \in Int
    BY RiskAssumption
  <2> DEFINE d == IF p.side = "yes" THEN bs[p.market].bid - p.avg_price
                  ELSE 1000 - bs[p.market].ask - p.avg_price
  <2>3. d \in Int
    BY <2>1, <2>2
  <2> HIDE DEF d
  <2>4. (p.size * d) \div 1000 \in Int
    BY <2>1, <2>3
  <2> QED
    BY <2>4 DEF Gain, d
<1> HIDE DEF S
<1>4. GainOn(bs, S) \in Int
  BY <1>2, <1>3, GainSum
<1> QED
  BY <1>4 DEF Unrealized, GainOn, Gain, S

-----------------------------------------------------------------------------
(* The arithmetic of sizes, fees and clips. *)

LEMMA Quotient ==
  ASSUME NEW a \in Nat, NEW b \in Nat \ {0}
  PROVE  a \div b \in Nat /\ (a \div b) * b <= a
  OBVIOUS

LEMMA Thousandths ==
  ASSUME NEW a \in Int, NEW b \in Int, NEW n \in Nat, a * b <= n * 1000, 0 <= a * b
  PROVE  (a * b) \div 1000 \in Nat /\ (a * b) \div 1000 <= n
<1>1. a * b \in Int
  OBVIOUS
<1> QED
  BY <1>1

LEMMA Products ==
  ASSUME NEW a \in Nat, NEW b \in Nat, NEW c \in Nat, NEW d \in Nat, a <= c, b <= d
  PROVE  a * b <= c * d /\ a * b \in Nat
  OBVIOUS

LEMMA FeeGrows ==
  ASSUME NEW a \in Nat, NEW b \in Nat, a <= b
  PROVE FeeOf(a) \in Nat /\ FeeOf(b) \in Nat /\ FeeOf(a) <= FeeOf(b)
  BY DEF FeeOf, FEE_RATE_BPS

LEMMA SizedKnown ==
  ASSUME NEW edge \in Int, NEW equity \in Int
  PROVE  ProposeNotional(edge, equity) \in Int
<1> DEFINE x == (Percent(BASE_TRADE_FRACTION, equity) * Abs(edge)) \div EDGE_THRESHOLD
           y == Percent(MAX_TRADE_FRACTION, equity)
<1>1. Percent(BASE_TRADE_FRACTION, equity) \in Int /\ y \in Int /\ Abs(edge) \in Int
  BY DEF Percent, Abs, BASE_TRADE_FRACTION, MAX_TRADE_FRACTION
<1>2. x \in Int
  BY <1>1 DEF EDGE_THRESHOLD
<1> HIDE DEF x, y
<1>3. Smaller(x, y) \in Int
  BY <1>1, <1>2 DEF Smaller
<1> QED
  BY <1>3 DEF ProposeNotional, Sized, x, y

LEMMA ClippedBounds ==
  ASSUME NEW state, NEW order, order.notional \in Int, state.equity \in Int,
         state.cycle_notional_opened = 0, ExistingNotional(state, order) \in Int
  PROVE  /\ Clipped(state, order) \in Int
         /\ Clipped(state, order) <= order.notional
  BY DEF Clipped, Smaller, ConcentrationHeadroom, CycleHeadroom, Percent, CONCENTRATION_CAP, CYCLE_CAP

-----------------------------------------------------------------------------
(* What the steps have in common. *)

LEMMA RowsStand ==
  ASSUME RowsCounted, UNCHANGED paperTrades
  PROVE  RowsCounted'
<1>1. \A c \in Cycles : RowsOf(c)' = RowsOf(c) /\ RowsBefore(c)' = RowsBefore(c)
  BY DEF RowsOf, RowsBefore
<1> QED
  BY <1>1 DEF RowsCounted

LEMMA FillsStand ==
  ASSUME AffordableAtCollection, UNCHANGED <<paperTrades, earlier>>
  PROVE  AffordableAtCollection'
  BY DEF AffordableAtCollection

LEMMA FiniteOrders ==
  ASSUME TypeOK
  PROVE  /\ IsFiniteSet(DOMAIN orders) /\ Cardinality(DOMAIN orders) \in Nat
         /\ IsFiniteSet(DOMAIN proposals) /\ Cardinality(DOMAIN proposals) \in Nat
         /\ Cardinality(DOMAIN orders) <= Cardinality(DOMAIN proposals)
<1>1. DOMAIN proposals \in SUBSET Markets /\ DOMAIN orders \in SUBSET DOMAIN proposals
  BY DEF TypeOK
<1>2. IsFiniteSet(DOMAIN proposals)
  BY <1>1, RiskAssumption, FS_Subset
<1> QED
  BY <1>1, <1>2, FS_Subset, FS_CardinalityType

LEMMA FiniteRows ==
  ASSUME IsFiniteSet(paperTrades), NEW S \in SUBSET paperTrades
  PROVE  IsFiniteSet(S) /\ Cardinality(S) \in Nat
  BY FS_Subset, FS_CardinalityType

(* What is held of an order's market and side is a number.                 *)
LEMMA HeldNotional ==
  ASSUME AccountRead, Working, NEW o
  PROVE  ExistingNotional(portfolio, o) \in Int
<1> DEFINE On == {p \in portfolio.positions : p.market = o.market /\ p.side = o.side}
<1>1. ExistingNotional(portfolio, o) = CostOn(On)
  BY DEF ExistingNotional, CostOn
<1>2. portfolio.positions \in Ledgers
  BY DEF AccountRead
<1>3. IsFiniteSet(On)
  BY <1>2, RiskAssumption, FS_Subset
<1>4. ASSUME NEW p \in On PROVE Cost(p) \in Int
  <2>1. p.size \in Nat /\ p.avg_price \in Nat
    BY <1>2, RiskAssumption
  <2>2. p.size * p.avg_price \in Nat
    BY <2>1
  <2> QED
    BY <2>2 DEF Cost
<1> HIDE DEF On
<1>5. CostOn(On) \in Int
  BY <1>3, <1>4, CostSum
<1> QED
  BY <1>1, <1>5

(* The notional of the fills of any set of rows is a number.               *)
LEMMA SpentKnown ==
  ASSUME TypeOK, IsFiniteSet(paperTrades), NEW S \in SUBSET paperTrades
  PROVE  SpentOn(S) \in Int
<1>1. \A p \in S : Spends(p) \in Int
  BY DEF TypeOK, Spends
<1> QED
  BY <1>1, FiniteRows, SpendSum

LEMMA Traded ==
  ASSUME NEW state, NEW order, Action(state, order) = "trade"
  PROVE  Passes(state, order) /\ ~ Clipped(state, order) <= 0
  BY DEF Action

LEMMA ProposalKnown ==
  ASSUME Inv, Working, NEW m \in DOMAIN proposals
  PROVE  /\ Proposal(m).side \in Sides
         /\ Proposal(m).fee = FeeOf(Proposal(m).notional)
         /\ Proposal(m).notional \in Int
<1>1. proposals[m].edge \in Int /\ portfolio.equity \in Int
  BY RiskAssumption DEF Inv, CycleTypes, AccountRead
<1>2. Proposal(m).notional = ProposeNotional(proposals[m].edge, portfolio.equity)
  BY DEF Proposal
<1>3. /\ Proposal(m).side = SideOf(proposals[m])
      /\ Proposal(m).fee = FeeOf(Proposal(m).notional)
  BY DEF Proposal
<1>4. SideOf(proposals[m]) \in Sides
  BY DEF SideOf, Sides
<1> QED
  BY <1>1, <1>2, <1>3, <1>4, SizedKnown

(* What a decision to trade has passed.                                    *)
LEMMA Decided ==
  ASSUME Inv, Working, NEW m \in DOMAIN proposals,
         Action(portfolio, Proposal(m)) = "trade",
         NEW n, n = Clipped(portfolio, Proposal(m))
  PROVE  /\ n \in Nat \ {0}
         /\ ~portfolio.kill_switch_active
         /\ portfolio.orders_in_last_hour < ORDER_RATE_LIMIT_PER_HOUR
         /\ n + FeeOf(n) <= portfolio.available
<1> DEFINE p == Proposal(m)
<1>1. Passes(portfolio, p) /\ ~ n <= 0
  BY Traded
<1>2. p.notional \in Int /\ p.fee = FeeOf(p.notional)
  BY ProposalKnown
<1> HIDE DEF p
<1>3. ExistingNotional(portfolio, p) \in Int
  BY HeldNotional DEF Inv
<1>4. /\ portfolio.equity \in Int /\ portfolio.cycle_notional_opened = 0
      /\ portfolio.available \in Nat
  BY DEF Inv, AccountRead
<1>5. n \in Int /\ n <= p.notional
  BY <1>2, <1>3, <1>4, ClippedBounds DEF p
<1>6. n \in Nat \ {0} /\ p.notional \in Nat
  BY <1>1, <1>2, <1>5
<1>7. n + FeeOf(n) <= portfolio.available
  <2>1. FeeOf(n) \in Nat /\ FeeOf(p.notional) \in Nat /\ FeeOf(n) <= FeeOf(p.notional)
    BY <1>5, <1>6, FeeGrows
  <2>2. portfolio.available >= p.notional + FeeOf(p.notional)
    BY <1>1, <1>2 DEF Passes, SolvencyPasses
  <2> QED
    BY <1>4, <1>5, <1>6, <2>1, <2>2
<1>8. /\ ~portfolio.kill_switch_active
      /\ portfolio.orders_in_last_hour < ORDER_RATE_LIMIT_PER_HOUR
  BY <1>1 DEF Passes, KillSwitchPasses, SanityPasses
<1> QED
  BY <1>6, <1>7, <1>8

-----------------------------------------------------------------------------
LEMMA InitInv == Init => Inv
<1> SUFFICES ASSUME Init PROVE Inv
  OBVIOUS
<1> USE RiskAssumption, GatesAssumption DEF Init
<1>1. DOMAIN Nothing = {} /\ Cardinality({}) = 0 /\ IsFiniteSet({})
  BY FS_EmptySet DEF Nothing
<1>2. TypeOK
  BY <1>1 DEF TypeOK
<1>3. CycleTypes
  BY <1>1 DEF CycleTypes
<1>4. AccountRead /\ SwitchRead /\ OrdersGated /\ KillSwitchHaltsNextCycle
  BY DEF AccountRead, Working, SwitchRead, OrdersGated, KillSwitchHaltsNextCycle
<1>5. RowsCounted /\ OrdersCounted
  BY <1>1 DEF RowsCounted, OrdersCounted, RowsOf
<1>6. AffordableAtCollection /\ StaleBooksOnlyReject
  BY DEF AffordableAtCollection, StaleBooksOnlyReject
<1> QED
  BY <1>2, <1>3, <1>4, <1>5, <1>6 DEF Inv

LEMMA SwitchStep ==
  ASSUME Inv, OperatorSwitches
  PROVE  Inv'
<1>1. TypeOK'
  BY RiskAssumption DEF Inv, TypeOK, OperatorSwitches, runVars
<1>2. CycleTypes'
  BY DEF Inv, CycleTypes, RowsOf, OperatorSwitches, runVars
<1>3. AccountRead'
  BY DEF Inv, AccountRead, Working, RowsBefore, OpenBefore, PartialBefore,
     OperatorSwitches, runVars
<1>4. SwitchRead'
  BY DEF Inv, SwitchRead, Working, TypeOK, OperatorSwitches, runVars
<1>5. OrdersGated'
  BY DEF Inv, OrdersGated, OperatorSwitches, runVars
<1>6. RowsCounted'
  BY RowsStand DEF Inv, OperatorSwitches
<1>7. OrdersCounted'
  BY DEF Inv, OrdersCounted, RowsOf, OperatorSwitches, runVars
<1>8. KillSwitchHaltsNextCycle'
  <2>1. CASE SwitchIsSet
    BY <2>1 DEF Inv, KillSwitchHaltsNextCycle, OperatorSwitches
  <2>2. CASE ~SwitchIsSet
    BY DEF Inv, KillSwitchHaltsNextCycle, OperatorSwitches, TypeOK, CycleTypes
  <2> QED
    BY <2>1, <2>2
<1>9. AffordableAtCollection'
  BY FillsStand DEF Inv, OperatorSwitches
<1>10. StaleBooksOnlyReject'
  BY DEF Inv, StaleBooksOnlyReject, OperatorSwitches
<1> QED
  BY <1>1, <1>2, <1>3, <1>4, <1>5, <1>6, <1>7, <1>8, <1>9, <1>10 DEF Inv

LEMMA StartStep ==
  ASSUME Inv, Start
  PROVE  Inv'
<1>1. TypeOK'
  BY RiskAssumption DEF Inv, TypeOK, Start, dbVars
<1>2. CycleTypes'
  BY RiskAssumption DEF Inv, CycleTypes, TypeOK, RowsOf, Cycles, Start, dbVars
<1>3. AccountRead'
  BY DEF AccountRead, Working, Start
<1>4. SwitchRead'
  BY DEF Inv, SwitchRead, Working, SwitchIsSet, TypeOK, Start, dbVars
<1>5. OrdersGated'
  BY DEF OrdersGated, Start
<1>6. RowsCounted'
  BY RowsStand DEF Inv, Start, dbVars
<1>7. OrdersCounted'
  BY DEF OrdersCounted, Start
<1>8. KillSwitchHaltsNextCycle'
  BY DEF Inv, KillSwitchHaltsNextCycle, SwitchIsSet, Start, dbVars
<1>9. AffordableAtCollection'
  BY FillsStand DEF Inv, Start, dbVars
<1>10. StaleBooksOnlyReject'
  BY DEF Inv, StaleBooksOnlyReject, Start, dbVars
<1> QED
  BY <1>1, <1>2, <1>3, <1>4, <1>5, <1>6, <1>7, <1>8, <1>9, <1>10 DEF Inv

LEMMA CollectStep ==
  ASSUME Inv, Collect
  PROVE  Inv'
<1>1. TypeOK'
  <2>1. DOMAIN books' \subseteq Markets
    BY DEF Collect, Fetched
  <2> QED
    BY <2>1 DEF Inv, TypeOK, Collect, dbVars
<1>2. CycleTypes'
  BY DEF Inv, CycleTypes, RowsOf, Collect, dbVars
<1>3. AccountRead'
  <2>1. /\ portfolio' = Portfolio(books') /\ stage' = "trading"
        /\ UNCHANGED <<paperTrades, cycle, mode, earlier>>
    BY DEF Collect, dbVars
  <2>2. \A m \in DOMAIN books' : books'[m] \in Books
    BY DEF Collect
  <2>3. /\ portfolio'.available = AvailableCash /\ portfolio'.positions = positions
        /\ portfolio'.equity = PAPER_STARTING_CASH_USD + Unrealized(books')
        /\ portfolio'.cycle_notional_opened = 0
        /\ portfolio'.orders_in_last_hour = OrdersInLastHour
    BY <2>1 DEF Portfolio
  <2>4. portfolio'.equity \in Int
    <3>1. Unrealized(books') \in Int
      BY <2>2, Equity DEF Inv
    <3> QED
      BY <2>3, <3>1, RiskAssumption
  <2>5. \A r \in paperTrades : r.cycle \in Nat /\ r.cycle < cycle
    BY DEF Inv, TypeOK, CycleTypes, RowsOf, Collect
  <2>6. cycle \in Nat
    BY DEF Inv, TypeOK
  <2>7. {r \in paperTrades : r.cycle + 2 >= cycle} = RowsBefore(cycle)
    BY <2>5, <2>6 DEF RowsBefore
  <2>8. mode = "paper" => Spent = earlier + OpenBefore(cycle)
    <3>1. {r \in paperTrades : r.status \in {"open", "pending", "partial"}}
             = PartialBefore(cycle)
      BY <2>5 DEF PartialBefore, Inv, TypeOK
    <3>2. mode = "paper" => Spent = earlier + SpentOn(
              {r \in paperTrades : r.status \in {"open", "pending", "partial"}})
      BY DEF Spent, SpentOn
    <3> QED
      BY <3>1, <3>2 DEF OpenBefore
  <2>9. Spent \in Int
    <3>1. PartialBefore(cycle) \in SUBSET paperTrades
      BY DEF PartialBefore
    <3>2. OpenBefore(cycle) \in Int /\ earlier \in Nat
      BY <3>1, SpentKnown DEF OpenBefore, Inv, CycleTypes
    <3>3. CASE mode = "paper"
      BY <2>8, <3>2, <3>3
    <3>4. CASE mode # "paper"
      BY <3>4 DEF Spent
    <3> QED
      BY <3>3, <3>4
  <2>10. AvailableCash \in Nat
    BY <2>9, RiskAssumption DEF AvailableCash
  <2>11. RowsBefore(cycle)' = RowsBefore(cycle) /\ OpenBefore(cycle)' = OpenBefore(cycle)
    BY <2>1 DEF RowsBefore, OpenBefore, PartialBefore
  <2>12. portfolio'.orders_in_last_hour = Cardinality(RowsBefore(cycle))
    BY <2>3, <2>7 DEF OrdersInLastHour
  <2>13. mode = "paper" =>
           portfolio'.available =
             IF earlier + OpenBefore(cycle) >= PAPER_STARTING_CASH_USD THEN 0
             ELSE PAPER_STARTING_CASH_USD - (earlier + OpenBefore(cycle))
    BY <2>3, <2>8 DEF AvailableCash
  <2>14. positions \in Ledgers
    BY DEF Inv, TypeOK
  <2> QED
    BY <2>1, <2>3, <2>4, <2>10, <2>11, <2>12, <2>13, <2>14 DEF AccountRead
<1>4. SwitchRead'
  <2>1. portfolio'.kill_switch_active = SwitchReads(killSwitch)
    BY DEF Collect, Portfolio
  <2>2. SwitchIsSet => SwitchReads(killSwitch)
    BY DEF SwitchIsSet, SwitchReads
  <2>3. UNCHANGED <<killSwitch, switchedIn, cycle>>
    BY DEF Collect, dbVars
  <2>4. (SwitchIsSet => switchedIn <= cycle)'
    BY <2>3 DEF Inv, SwitchRead, SwitchIsSet
  <2>5. SwitchIsSet' => portfolio'.kill_switch_active
    BY <2>1, <2>2, <2>3 DEF SwitchIsSet
  <2> QED
    BY <2>4, <2>5 DEF SwitchRead
<1>5. OrdersGated'
  BY DEF OrdersGated, Collect
<1>6. RowsCounted'
  BY RowsStand DEF Inv, Collect, dbVars
<1>7. OrdersCounted'
  BY DEF OrdersCounted, Collect
<1>8. KillSwitchHaltsNextCycle'
  BY DEF Inv, KillSwitchHaltsNextCycle, SwitchIsSet, Collect, dbVars
<1>9. AffordableAtCollection'
  BY FillsStand DEF Inv, Collect, dbVars
<1>10. StaleBooksOnlyReject'
  BY DEF Inv, StaleBooksOnlyReject, Collect, dbVars
<1> QED
  BY <1>1, <1>2, <1>3, <1>4, <1>5, <1>6, <1>7, <1>8, <1>9, <1>10 DEF Inv

LEMMA TradingStep ==
  ASSUME Inv, TradingAgent
  PROVE  Inv'
<1>1. TypeOK'
  <2>1. DOMAIN orders = {}
    BY DEF Inv, CycleTypes, TradingAgent
  <2> QED
    BY <2>1 DEF Inv, TypeOK, TradingAgent, dbVars
<1>2. CycleTypes'
  BY DEF Inv, CycleTypes, RowsOf, TradingAgent, dbVars
<1>3. AccountRead'
  BY DEF Inv, AccountRead, Working, RowsBefore, OpenBefore, PartialBefore,
     TradingAgent, dbVars
<1>4. SwitchRead'
  BY DEF Inv, SwitchRead, Working, SwitchIsSet, TradingAgent, dbVars
<1>5. OrdersGated'
  BY DEF OrdersGated, TradingAgent
<1>6. RowsCounted'
  BY RowsStand DEF Inv, TradingAgent, dbVars
<1>7. OrdersCounted'
  <2>1. PICK u \in SUBSET Markets : /\ Universe(u)
                                   /\ DOMAIN proposals' \in SUBSET u
    BY DEF TradingAgent
  <2>2. IsFiniteSet(u) /\ Cardinality(u) <= TOP_K_MARKETS
    BY <2>1, RiskAssumption, FS_Subset DEF Universe
  <2>3. Cardinality(DOMAIN proposals') <= Cardinality(u) /\ Cardinality(u) \in Nat
        /\ Cardinality(DOMAIN proposals') \in Nat
    BY <2>1, <2>2, FS_Subset, FS_CardinalityType
  <2> QED
    BY <2>2, <2>3, RiskAssumption DEF OrdersCounted, TradingAgent
<1>8. KillSwitchHaltsNextCycle'
  BY DEF Inv, KillSwitchHaltsNextCycle, SwitchIsSet, TradingAgent, dbVars
<1>9. AffordableAtCollection'
  BY FillsStand DEF Inv, TradingAgent, dbVars
<1>10. StaleBooksOnlyReject'
  BY DEF Inv, StaleBooksOnlyReject, TradingAgent, dbVars
<1> QED
  BY <1>1, <1>2, <1>3, <1>4, <1>5, <1>6, <1>7, <1>8, <1>9, <1>10 DEF Inv

(* What the risk agent leaves to be ordered.                               *)
LEMMA OrdersMade ==
  ASSUME Inv, RiskAgent
  PROVE  /\ DOMAIN orders' \subseteq DOMAIN proposals
         /\ \A m \in DOMAIN orders' :
              /\ m \in DOMAIN proposals /\ Action(portfolio, Proposal(m)) = "trade"
              /\ orders'[m].side = Proposal(m).side
              /\ orders'[m].notional = Clipped(portfolio, Proposal(m))
  BY DEF RiskAgent

LEMMA RiskStep ==
  ASSUME Inv, RiskAgent
  PROVE  Inv'
<1>1. TypeOK'
  BY DEF Inv, TypeOK, RiskAgent, dbVars
<1>2. CycleTypes'
  <2>1. Working
    BY DEF RiskAgent, Working
  <2>2. \A m \in DOMAIN orders' :
          orders'[m].side \in Sides /\ orders'[m].notional \in Nat \ {0}
    BY <2>1, OrdersMade, Decided, ProposalKnown
  <2> QED
    BY <2>2 DEF Inv, CycleTypes, RiskAgent, dbVars
<1>3. AccountRead'
  BY DEF Inv, AccountRead, Working, RowsBefore, OpenBefore, PartialBefore,
     RiskAgent, dbVars
<1>4. SwitchRead'
  BY DEF Inv, SwitchRead, Working, SwitchIsSet, RiskAgent, dbVars
<1>5. OrdersGated'
  <2>1. Working
    BY DEF RiskAgent, Working
  <2> QED
    BY <2>1, Decided DEF OrdersGated, RiskAgent
<1>6. RowsCounted'
  BY RowsStand DEF Inv, RiskAgent, dbVars
<1>7. OrdersCounted'
  <2>1. DOMAIN orders' \in SUBSET DOMAIN proposals /\ DOMAIN proposals \in SUBSET Markets
    BY OrdersMade DEF Inv, TypeOK
  <2>2. IsFiniteSet(DOMAIN proposals) /\ Cardinality(DOMAIN proposals) <= TOP_K_MARKETS
    BY FiniteOrders DEF Inv, OrdersCounted, RiskAgent
  <2>3. /\ Cardinality(DOMAIN orders') <= Cardinality(DOMAIN proposals)
        /\ Cardinality(DOMAIN proposals) \in Nat /\ Cardinality(DOMAIN orders') \in Nat
    BY <2>1, <2>2, FS_Subset, FS_CardinalityType
  <2>4. RowsOf(cycle)' = {} /\ stage' = "orders"
    BY DEF Inv, CycleTypes, RiskAgent, RowsOf, dbVars
  <2>5. Cardinality({}) = 0
    BY FS_EmptySet
  <2> QED
    BY <2>2, <2>3, <2>4, <2>5, RiskAssumption DEF OrdersCounted
<1>8. KillSwitchHaltsNextCycle'
  BY DEF Inv, KillSwitchHaltsNextCycle, SwitchIsSet, RiskAgent, dbVars
<1>9. AffordableAtCollection'
  BY FillsStand DEF Inv, RiskAgent, dbVars
<1>10. StaleBooksOnlyReject'
  BY DEF Inv, StaleBooksOnlyReject, RiskAgent, dbVars
<1> QED
  BY <1>1, <1>2, <1>3, <1>4, <1>5, <1>6, <1>7, <1>8, <1>9, <1>10 DEF Inv

(* An order less is left.                                                  *)
LEMMA DoneStep ==
  ASSUME Inv, NEW m \in DOMAIN orders, Done(m)
  PROVE  /\ DOMAIN orders' = DOMAIN orders \ {m}
         /\ \A k \in DOMAIN orders' : orders'[k] = orders[k]
         /\ Cardinality(DOMAIN orders') \in Nat
         /\ Cardinality(DOMAIN orders) = Cardinality(DOMAIN orders') + 1
<1>1. /\ DOMAIN orders' = DOMAIN orders \ {m}
      /\ \A k \in DOMAIN orders' : orders'[k] = orders[k]
  BY DEF Done
<1>2. IsFiniteSet(DOMAIN orders) /\ Cardinality(DOMAIN orders) \in Nat
  BY FiniteOrders DEF Inv
<1>3. IsFiniteSet(DOMAIN orders \ {m})
      /\ Cardinality(DOMAIN orders \ {m}) = Cardinality(DOMAIN orders) - 1
  BY <1>2, FS_RemoveElement
<1>4. Cardinality(DOMAIN orders \ {m}) \in Nat
  BY <1>3, FS_CardinalityType
<1> QED
  BY <1>1, <1>2, <1>3, <1>4

LEMMA RealStep ==
  ASSUME Inv, NEW m \in Markets, RealOrder(m)
  PROVE  Inv'
<1>1. TypeOK'
  <2>1. <<cycle, m>> \in Cycles \X Markets
    BY DEF Inv, CycleTypes, RealOrder
  <2>2. realOrders' \subseteq Cycles \X Markets
    BY <2>1 DEF Inv, TypeOK, RealOrder
  <2>3. DOMAIN orders' \subseteq DOMAIN orders
    BY DEF RealOrder, Done
  <2> QED
    BY <2>2, <2>3 DEF Inv, TypeOK, RealOrder
<1>2. CycleTypes'
  BY DEF Inv, CycleTypes, Cycles, RealOrder, Done
<1>3. AccountRead'
  BY DEF Inv, AccountRead, Working, RowsBefore, RealOrder
<1>4. SwitchRead'
  BY DEF Inv, SwitchRead, Working, SwitchIsSet, RealOrder
<1>5. OrdersGated'
  BY DEF Inv, OrdersGated, RealOrder, Done
<1>6. RowsCounted'
  BY RowsStand DEF Inv, RealOrder
<1>7. OrdersCounted'
  <2>1. /\ stage = "orders" /\ m \in DOMAIN orders /\ Done(m)
        /\ UNCHANGED <<stage, cycle, paperTrades>>
    BY DEF RealOrder
  <2>2. /\ Cardinality(DOMAIN orders') \in Nat
        /\ Cardinality(DOMAIN orders) = Cardinality(DOMAIN orders') + 1
    BY <2>1, DoneStep
  <2>3. RowsOf(cycle)' = RowsOf(cycle) /\ Cardinality(RowsOf(cycle)) \in Nat
    BY <2>1, FiniteRows DEF RowsOf, Inv, CycleTypes
  <2> QED
    BY <2>1, <2>2, <2>3, RiskAssumption DEF Inv, OrdersCounted
<1>8. KillSwitchHaltsNextCycle'
  <2>1. stage = "orders" /\ m \in DOMAIN orders
    BY DEF RealOrder
  <2>2. ~portfolio.kill_switch_active
    BY <2>1 DEF Inv, OrdersGated
  <2>3. SwitchIsSet => ~ switchedIn < cycle
    BY <2>1, <2>2 DEF Inv, SwitchRead, Working
  <2>4. SwitchIsSet => cycle <= switchedIn
    BY <2>3 DEF Inv, TypeOK
  <2> QED
    BY <2>4 DEF Inv, KillSwitchHaltsNextCycle, SwitchIsSet, RealOrder
<1>9. AffordableAtCollection'
  BY FillsStand DEF Inv, RealOrder
<1>10. StaleBooksOnlyReject'
  BY DEF Inv, StaleBooksOnlyReject, RealOrder
<1> QED
  BY <1>1, <1>2, <1>3, <1>4, <1>5, <1>6, <1>7, <1>8, <1>9, <1>10 DEF Inv

LEMMA NoOrderStep ==
  ASSUME Inv, NEW m \in Markets, NoOrder(m)
  PROVE  Inv'
<1>1. TypeOK'
  BY DEF Inv, TypeOK, NoOrder, Done, dbVars
<1>2. CycleTypes'
  BY DEF Inv, CycleTypes, NoOrder, Done, dbVars
<1>3. AccountRead'
  BY DEF Inv, AccountRead, Working, RowsBefore, OpenBefore, PartialBefore,
     NoOrder, dbVars
<1>4. SwitchRead'
  BY DEF Inv, SwitchRead, Working, SwitchIsSet, NoOrder, dbVars
<1>5. OrdersGated'
  BY DEF Inv, OrdersGated, NoOrder, Done
<1>6. RowsCounted'
  BY RowsStand DEF Inv, NoOrder, dbVars
<1>7. OrdersCounted'
  <2>1. /\ stage = "orders" /\ m \in DOMAIN orders /\ Done(m)
        /\ UNCHANGED <<stage, cycle, paperTrades>>
    BY DEF NoOrder, dbVars
  <2>2. /\ Cardinality(DOMAIN orders') \in Nat
        /\ Cardinality(DOMAIN orders) = Cardinality(DOMAIN orders') + 1
    BY <2>1, DoneStep
  <2>3. RowsOf(cycle)' = RowsOf(cycle) /\ Cardinality(RowsOf(cycle)) \in Nat
    BY <2>1, FiniteRows DEF RowsOf, Inv, CycleTypes
  <2> QED
    BY <2>1, <2>2, <2>3, RiskAssumption DEF Inv, OrdersCounted
<1>8. KillSwitchHaltsNextCycle'
  BY DEF Inv, KillSwitchHaltsNextCycle, SwitchIsSet, NoOrder, dbVars
<1>9. AffordableAtCollection'
  BY FillsStand DEF Inv, NoOrder, dbVars
<1>10. StaleBooksOnlyReject'
  BY DEF Inv, StaleBooksOnlyReject, NoOrder, dbVars
<1> QED
  BY <1>1, <1>2, <1>3, <1>4, <1>5, <1>6, <1>7, <1>8, <1>9, <1>10 DEF Inv

LEMMA EndStep ==
  ASSUME Inv, Ends
  PROVE  Inv'
<1>1. TypeOK'
  BY DEF Inv, TypeOK, Ends, dbVars, Nothing
<1>2. CycleTypes'
  BY DEF Inv, CycleTypes, Ends, dbVars, Nothing
<1>3. AccountRead'
  BY DEF AccountRead, Working, Ends
<1>4. SwitchRead'
  BY DEF Inv, SwitchRead, Working, SwitchIsSet, Ends, dbVars
<1>5. OrdersGated'
  BY DEF OrdersGated, Ends
<1>6. RowsCounted'
  BY RowsStand DEF Inv, Ends, dbVars
<1>7. OrdersCounted'
  BY DEF OrdersCounted, Ends
<1>8. KillSwitchHaltsNextCycle'
  BY DEF Inv, KillSwitchHaltsNextCycle, SwitchIsSet, Ends, dbVars
<1>9. AffordableAtCollection'
  BY FillsStand DEF Inv, Ends, dbVars
<1>10. StaleBooksOnlyReject'
  BY DEF Inv, StaleBooksOnlyReject, Ends, dbVars
<1> QED
  BY <1>1, <1>2, <1>3, <1>4, <1>5, <1>6, <1>7, <1>8, <1>9, <1>10 DEF Inv

(* The row of a fill, from the limit, the book of the moment and the size. *)
LEMMA FillKnown ==
  ASSUME Inv, NEW m \in Markets, NEW book \in Books, PaperOrder(m, book)
  PROVE  \E row :
           /\ paperTrades' = paperTrades \union {row}
           /\ row.cycle = cycle /\ row.market = m /\ row.side = orders[m].side
           /\ row.decided = orders[m].notional /\ row.notional \in Nat
           /\ row.status \in {"filled", "partial"}
           /\ {row.price, row.limit} \subseteq 1 .. 999
           /\ row.side = "yes" => row.price <= row.limit /\ row.notional <= row.decided
           /\ row.side # "yes" => row.price >= row.limit
<1> DEFINE filled == Smaller(SizeOf(m), book.depth)
           row == [cycle    |-> cycle, market |-> m, side |-> orders[m].side,
                   notional |-> (filled * Quote(m, book)) \div 1000,
                   price    |-> Quote(m, book),
                   status   |-> FillStatus(filled, m),
                   decided  |-> orders[m].notional, limit |-> Limit(m)]
<1>1. paperTrades' = paperTrades \union {row}
  BY DEF PaperOrder
<1>2. orders[m].notional \in Nat \ {0} /\ Limit(m) \in 1 .. 999
  BY DEF Inv, CycleTypes, PaperOrder, HasOrder
<1>3. /\ book.bid \in Nat /\ book.ask \in Nat /\ book.depth \in Nat
      /\ book.bid < book.ask /\ book.ask <= 1000
  BY RiskAssumption
<1>4. IF orders[m].side = "yes" THEN Limit(m) >= Quote(m, book) ELSE Limit(m) <= Quote(m, book)
  BY DEF PaperOrder, Marketable, Quote
<1>5. Quote(m, book) \in 1 .. 999
  <2>1. Quote(m, book) = IF orders[m].side = "yes" THEN book.ask ELSE book.bid
    BY DEF Quote
  <2>2. Limit(m) \in Nat /\ 1 <= Limit(m) /\ Limit(m) <= 999
    BY <1>2
  <2>3. CASE orders[m].side = "yes"
    BY <1>3, <1>4, <2>1, <2>2, <2>3
  <2>4. CASE orders[m].side # "yes"
    BY <1>3, <1>4, <2>1, <2>2, <2>4
  <2> QED
    BY <2>3, <2>4
<1>6. SizeOf(m) \in Nat /\ SizeOf(m) * Limit(m) <= orders[m].notional * 1000
  <2>1. orders[m].notional * 1000 \in Nat
    BY <1>2
  <2>2. \A a \in Nat : a \div Limit(m) \in Nat /\ (a \div Limit(m)) * Limit(m) <= a
    <3>1. Limit(m) \in Nat \ {0}
      BY <1>2
    <3> QED
      BY <3>1, Quotient
  <2> QED
    BY <2>1, <2>2 DEF SizeOf
<1>7. filled \in Nat /\ filled <= SizeOf(m)
  BY <1>3, <1>6 DEF Smaller
<1>8. FillStatus(filled, m) \in {"filled", "partial"}
  BY DEF FillStatus
<1> HIDE DEF filled
<1>9. filled * Quote(m, book) \in Nat
  BY <1>5, <1>7
<1>10. (filled * Quote(m, book)) \div 1000 \in Nat
  BY <1>9
<1>11. ASSUME orders[m].side = "yes"
       PROVE  (filled * Quote(m, book)) \div 1000 <= orders[m].notional
  <2>1. Quote(m, book) <= Limit(m)
    BY <1>4, <1>11
  <2>2. filled * Quote(m, book) <= SizeOf(m) * Limit(m) /\ SizeOf(m) * Limit(m) \in Nat
    <3> HIDE DEF filled
    <3>1. Quote(m, book) \in Nat /\ Limit(m) \in Nat
      BY <1>2, <1>5
    <3> QED
      BY <1>6, <1>7, <2>1, <3>1
  <2>3. filled * Quote(m, book) <= orders[m].notional * 1000
    BY <1>2, <1>6, <1>9, <2>2
  <2> QED
    BY <1>2, <1>9, <2>3
<1>12. /\ row.cycle = cycle /\ row.market = m /\ row.side = orders[m].side
       /\ row.decided = orders[m].notional /\ row.limit = Limit(m)
       /\ row.notional = (filled * Quote(m, book)) \div 1000
       /\ row.price = Quote(m, book) /\ row.status = FillStatus(filled, m)
  OBVIOUS
<1> HIDE DEF row
<1> QED
  BY <1>1, <1>2, <1>4, <1>5, <1>8, <1>10, <1>11, <1>12

LEMMA PaperStep ==
  ASSUME Inv, NEW m \in Markets, NEW book \in Books, PaperOrder(m, book)
  PROVE  Inv'
<1>1. PICK row :
        /\ paperTrades' = paperTrades \union {row}
        /\ row.cycle = cycle /\ row.market = m /\ row.side = orders[m].side
        /\ row.decided = orders[m].notional /\ row.notional \in Nat
        /\ row.status \in {"filled", "partial"}
        /\ {row.price, row.limit} \subseteq 1 .. 999
        /\ row.side = "yes" => row.price <= row.limit /\ row.notional <= row.decided
        /\ row.side # "yes" => row.price >= row.limit
  BY FillKnown
<1>2. /\ stage = "orders" /\ mode = "paper" /\ m \in DOMAIN orders /\ Done(m)
      /\ UNCHANGED <<killSwitch, switchedIn, positions, earlier, realOrders, stage,
                     cycle, mode, books, portfolio, proposals>>
  BY DEF PaperOrder
<1>3. /\ cycle \in Cycles /\ cycle \in Nat
      /\ \A r \in paperTrades : r.cycle \in Nat /\ 1 <= r.cycle /\ r.cycle <= cycle
  BY <1>2 DEF Inv, CycleTypes, TypeOK
<1>4. /\ DOMAIN orders' \subseteq DOMAIN orders
      /\ \A k \in DOMAIN orders' : orders'[k] = orders[k]
      /\ Cardinality(DOMAIN orders') \in Nat
      /\ Cardinality(DOMAIN orders) = Cardinality(DOMAIN orders') + 1
  BY <1>2, DoneStep
<1>5. /\ ~portfolio.kill_switch_active
      /\ portfolio.orders_in_last_hour < ORDER_RATE_LIMIT_PER_HOUR
      /\ row.decided + FeeOf(row.decided) <= portfolio.available
      /\ row.decided \in Nat \ {0}
  BY <1>1, <1>2 DEF Inv, OrdersGated, CycleTypes
<1>6. /\ RowsOf(cycle)' = RowsOf(cycle) \union {row}
      /\ \A c \in Cycles :
           RowsOf(c)' = IF c = cycle THEN RowsOf(cycle) \union {row} ELSE RowsOf(c)
  BY <1>1, <1>2 DEF RowsOf
<1>7. \A c \in Cycles : c <= cycle =>
        RowsBefore(c)' = RowsBefore(c) /\ PartialBefore(c)' = PartialBefore(c)
  <2>1. ASSUME NEW c \in Cycles, c <= cycle
        PROVE  row.cycle \notin c - 2 .. c - 1 /\ ~ row.cycle < c
    BY <1>1, <1>3, <2>1
  <2> QED
    BY <1>1, <2>1 DEF RowsBefore, PartialBefore
<1>8. \A c \in Cycles : c > cycle => RowsOf(c)' = {} /\ RowsOf(c) = {}
  BY <1>1, <1>3 DEF RowsOf
<1>9. /\ IsFiniteSet(RowsOf(cycle)) /\ Cardinality(RowsOf(cycle)) \in Nat
      /\ Cardinality(RowsOf(cycle) \union {row}) \in Nat
      /\ Cardinality(RowsOf(cycle) \union {row}) <= Cardinality(RowsOf(cycle)) + 1
  <2>1. IsFiniteSet(RowsOf(cycle)) /\ Cardinality(RowsOf(cycle)) \in Nat
    BY FiniteRows DEF RowsOf, Inv, CycleTypes
  <2>2. /\ IsFiniteSet(RowsOf(cycle) \union {row})
        /\ \/ Cardinality(RowsOf(cycle) \union {row}) = Cardinality(RowsOf(cycle))
           \/ Cardinality(RowsOf(cycle) \union {row}) = Cardinality(RowsOf(cycle)) + 1
    BY <2>1, FS_AddElement
  <2>3. Cardinality(RowsOf(cycle) \union {row}) \in Nat
    BY <2>2, FS_CardinalityType
  <2> QED
    BY <2>1, <2>2, <2>3
<1>10. TypeOK'
  <2>1. DOMAIN orders' \subseteq DOMAIN proposals'
    BY <1>2, <1>4 DEF Inv, TypeOK
  <2>2. row.side \in Sides /\ row.cycle \in 1 .. cycle
    BY <1>1, <1>2 DEF Inv, CycleTypes, Cycles
  <2>3. \A r \in paperTrades' :
          /\ r.cycle \in 1 .. cycle /\ r.market \in Markets /\ r.side \in Sides
          /\ r.notional \in Nat /\ r.decided \in Nat \ {0}
          /\ r.status \in {"filled", "partial"}
          /\ {r.price, r.limit} \subseteq 1 .. 999
    BY <1>1, <1>5, <2>2 DEF Inv, TypeOK
  <2>4. UNCHANGED <<cycle, killSwitch, switchedIn, positions, realOrders, stage, mode,
                    proposals, books>>
    BY <1>2
  <2>5. \A r \in paperTrades' :
          /\ r.cycle \in 1 .. cycle' /\ r.market \in Markets /\ r.side \in Sides
          /\ r.notional \in Nat /\ r.decided \in Nat \ {0}
          /\ r.status \in {"filled", "partial"}
          /\ {r.price, r.limit} \subseteq 1 .. 999
    BY <2>3, <2>4
  <2>6. /\ killSwitch' \in SwitchRows /\ switchedIn' \in 0 .. MaxCycles
        /\ positions' \in Ledgers /\ realOrders' \subseteq Cycles \X Markets
        /\ stage' \in {"off", "collect", "trading", "risk", "orders"}
        /\ cycle' \in 0 .. MaxCycles /\ mode' \in TradingModes \union {"unset"}
        /\ DOMAIN proposals' \union DOMAIN books' \subseteq Markets
    BY <2>4 DEF Inv, TypeOK
  <2> QED
    BY <2>1, <2>5, <2>6 DEF TypeOK
<1>11. CycleTypes'
  <2>1. IsFiniteSet(paperTrades')
    BY <1>1, FS_AddElement DEF Inv, CycleTypes
  <2> QED
    BY <1>2, <1>4, <2>1 DEF Inv, CycleTypes
<1>12. AccountRead'
  <2>1. RowsBefore(cycle)' = RowsBefore(cycle) /\ OpenBefore(cycle)' = OpenBefore(cycle)
    BY <1>2, <1>3, <1>7 DEF OpenBefore
  <2> QED
    BY <1>2, <2>1 DEF Inv, AccountRead, Working
<1>13. SwitchRead'
  BY <1>2 DEF Inv, SwitchRead, SwitchIsSet, Working
<1>14. OrdersGated'
  BY <1>2, <1>4 DEF Inv, OrdersGated
<1>15. RowsCounted'
  <2>1. ASSUME NEW c \in Cycles
        PROVE  /\ RowsOf(c)' # {} => Cardinality(RowsBefore(c)') < ORDER_RATE_LIMIT_PER_HOUR
               /\ Cardinality(RowsOf(c)') <= TOP_K_MARKETS
    <3>1. CASE c = cycle
      <4>1. Cardinality(RowsBefore(c)') < ORDER_RATE_LIMIT_PER_HOUR
        BY <1>2, <1>3, <1>5, <1>7, <3>1 DEF Inv, AccountRead, Working
      <4>2. Cardinality(RowsOf(c)) + Cardinality(DOMAIN orders) <= TOP_K_MARKETS
        BY <1>2, <3>1 DEF Inv, OrdersCounted
      <4> QED
        <5>1. RowsOf(c)' = RowsOf(cycle) \union {row}
          BY <1>6, <3>1
        <5>2. Cardinality(RowsOf(cycle)) + 1 <= TOP_K_MARKETS
          BY <1>4, <1>9, <3>1, <4>2, RiskAssumption
        <5> QED
          BY <1>9, <4>1, <5>1, <5>2, RiskAssumption
    <3>2. CASE c # cycle /\ c <= cycle
      BY <1>6, <1>7, <3>2 DEF Inv, RowsCounted
    <3>3. CASE c > cycle
      <4>1. RowsOf(c)' = {} /\ Cardinality({}) = 0
        BY <1>8, <3>3, FS_EmptySet
      <4> QED
        BY <4>1, RiskAssumption
    <3> QED
      BY <1>3, <3>1, <3>2, <3>3
  <2> QED
    BY <2>1 DEF RowsCounted
<1>16. OrdersCounted'
  BY <1>2, <1>4, <1>6, <1>9, RiskAssumption DEF Inv, OrdersCounted
<1>17. KillSwitchHaltsNextCycle'
  <2>1. SwitchIsSet => ~ switchedIn < cycle
    BY <1>2, <1>5 DEF Inv, SwitchRead, Working
  <2>2. SwitchIsSet => cycle <= switchedIn
    BY <2>1 DEF Inv, TypeOK
  <2> QED
    BY <1>1, <1>2, <2>2 DEF Inv, KillSwitchHaltsNextCycle, SwitchIsSet
<1>18. AffordableAtCollection'
  <2>1. \A r \in paperTrades :
          r.decided + FeeOf(r.decided) + earlier + OpenBefore(r.cycle)
             <= PAPER_STARTING_CASH_USD
    BY DEF Inv, AffordableAtCollection, OpenBefore, SpentOn, PartialBefore
  <2>2. row.decided + FeeOf(row.decided) + earlier + OpenBefore(cycle)
           <= PAPER_STARTING_CASH_USD
    <3>1. OpenBefore(cycle) \in Int
      BY SpentKnown DEF OpenBefore, PartialBefore, Inv, CycleTypes
    <3>2. FeeOf(row.decided) \in Nat
      BY <1>5, FeeGrows
    <3>3. portfolio.available =
            IF earlier + OpenBefore(cycle) >= PAPER_STARTING_CASH_USD THEN 0
            ELSE PAPER_STARTING_CASH_USD - (earlier + OpenBefore(cycle))
      BY <1>2 DEF Inv, AccountRead, Working
    <3>4. earlier \in Nat
      BY DEF Inv, CycleTypes
    <3> QED
      BY <1>5, <3>1, <3>2, <3>3, <3>4, RiskAssumption
  <2>3. \A r \in paperTrades' :
          r.decided + FeeOf(r.decided) + earlier + OpenBefore(r.cycle)
             <= PAPER_STARTING_CASH_USD
    BY <1>1, <2>1, <2>2
  <2>4. \A r \in paperTrades' : r.cycle \in Cycles /\ r.cycle <= cycle
    BY <1>1, <1>3, RiskAssumption DEF Cycles
  <2>5. \A r \in paperTrades' : OpenBefore(r.cycle) = SpentOn(PartialBefore(r.cycle)')
    BY <1>7, <2>4 DEF OpenBefore
  <2> QED
    BY <1>2, <2>3, <2>5 DEF AffordableAtCollection, SpentOn, PartialBefore
<1>19. StaleBooksOnlyReject'
  BY <1>1 DEF Inv, StaleBooksOnlyReject
<1> QED
  BY <1>10, <1>11, <1>12, <1>13, <1>14, <1>15, <1>16, <1>17, <1>18, <1>19
     DEF Inv

LEMMA StutterStep ==
  ASSUME Inv, UNCHANGED vars
  PROVE  Inv'
<1> USE DEF vars, dbVars, runVars
<1>1. TypeOK'
  BY DEF Inv, TypeOK
<1>2. CycleTypes'
  BY DEF Inv, CycleTypes, RowsOf
<1>3. AccountRead' /\ SwitchRead' /\ OrdersGated'
  BY DEF Inv, AccountRead, Working, RowsBefore, OpenBefore, PartialBefore, SwitchRead,
         SwitchIsSet, OrdersGated
<1>4. RowsCounted' /\ OrdersCounted'
  BY RowsStand DEF Inv, OrdersCounted, RowsOf
<1>5. KillSwitchHaltsNextCycle' /\ StaleBooksOnlyReject'
  BY DEF Inv, KillSwitchHaltsNextCycle, SwitchIsSet, StaleBooksOnlyReject
<1>6. AffordableAtCollection'
  BY FillsStand DEF Inv
<1> QED
  BY <1>1, <1>2, <1>3, <1>4, <1>5, <1>6 DEF Inv

LEMMA InvNext == Inv /\ [Next]_vars => Inv'
<1> SUFFICES ASSUME Inv, [Next]_vars PROVE Inv'
  OBVIOUS
<1>1. CASE OperatorSwitches
  BY <1>1, SwitchStep
<1>2. CASE Start \/ Collect
  BY <1>2, StartStep, CollectStep
<1>3. CASE TradingAgent \/ RiskAgent
  BY <1>3, TradingStep, RiskStep
<1>4. CASE \E m \in Markets, book \in Books : PaperOrder(m, book)
  BY <1>4, PaperStep
<1>5. CASE \E m \in Markets : RealOrder(m) \/ NoOrder(m)
  BY <1>5, RealStep, NoOrderStep
<1>6. CASE Ends
  BY <1>6, EndStep
<1>7. CASE UNCHANGED vars
  BY <1>7, StutterStep
<1> QED
  BY <1>1, <1>2, <1>3, <1>4, <1>5, <1>6, <1>7 DEF Next

-----------------------------------------------------------------------------
(* The rows of a cycle that placed an order, with those of the two before. *)
LEMMA HourOf ==
  ASSUME Inv, NEW k \in Cycles, RowsOf(k) # {},
         NEW S, S \subseteq RowsBefore(k) \union RowsOf(k)
  PROVE  Cardinality(S) <= ORDER_RATE_LIMIT_PER_HOUR - 1 + TOP_K_MARKETS
<1> DEFINE A == RowsBefore(k)
           B == RowsOf(k)
<1>1. /\ IsFiniteSet(A) /\ Cardinality(A) \in Nat /\ IsFiniteSet(B) /\ Cardinality(B) \in Nat
  BY FiniteRows DEF Inv, CycleTypes, RowsOf, RowsBefore
<1>2. Cardinality(A) < ORDER_RATE_LIMIT_PER_HOUR /\ Cardinality(B) <= TOP_K_MARKETS
  BY DEF Inv, RowsCounted
<1>3. S \in SUBSET (A \union B)
  OBVIOUS
<1> HIDE DEF A, B
<1>4. /\ IsFiniteSet(A \union B) /\ Cardinality(A \intersect B) \in Nat
      /\ Cardinality(A \union B) = Cardinality(A) + Cardinality(B) - Cardinality(A \intersect B)
  <2>1. IsFiniteSet(A \intersect B)
    BY <1>1, FS_Intersection
  <2> QED
    BY <1>1, <2>1, FS_Union, FS_CardinalityType
<1>5. Cardinality(S) <= Cardinality(A \union B) /\ Cardinality(S) \in Nat
  BY <1>3, <1>4, FS_Subset, FS_CardinalityType
<1> QED
  BY <1>1, <1>2, <1>4, <1>5, RiskAssumption, GatesAssumption

(* The hour's last cycle that placed an order counted the ones before it.  *)
LEMMA RateBounded == Inv => RateOverrunBounded
<1> SUFFICES ASSUME Inv, NEW c \in Cycles
             PROVE  Cardinality({r \in paperTrades : r.cycle \in c - 2 .. c})
                       <= ORDER_RATE_LIMIT_PER_HOUR - 1 + TOP_K_MARKETS
  BY DEF RateOverrunBounded
<1> DEFINE S == {r \in paperTrades : r.cycle \in c - 2 .. c}
<1>1. \A r \in paperTrades : r.cycle \in Cycles
  BY RiskAssumption DEF Inv, TypeOK, Cycles
<1>2. c \in Int /\ \A k \in Cycles : k \in Int
  BY RiskAssumption DEF Cycles
<1>3. CASE S = {}
  <2>1. Cardinality(S) = 0
    BY <1>3, FS_EmptySet
  <2> HIDE DEF S
  <2>2. Cardinality(S) <= ORDER_RATE_LIMIT_PER_HOUR - 1 + TOP_K_MARKETS
    BY <2>1, RiskAssumption, GatesAssumption
  <2> QED
    BY <2>2 DEF S
<1>4. CASE S # {}
  <2>1. PICK k \in Cycles : RowsOf(k) # {} /\ S \subseteq RowsBefore(k) \union RowsOf(k)
    <3>1. CASE RowsOf(c) # {}
      BY <1>2, <3>1 DEF RowsOf, RowsBefore
    <3>2. CASE RowsOf(c) = {} /\ \E r \in paperTrades : r.cycle = c - 1
      <4>1. c - 1 \in Cycles /\ RowsOf(c - 1) # {}
        BY <1>1, <3>2 DEF RowsOf
      <4>2. S \subseteq RowsBefore(c - 1) \union RowsOf(c - 1)
        BY <1>2, <3>2 DEF RowsOf, RowsBefore
      <4> QED
        BY <4>1, <4>2
    <3>3. CASE RowsOf(c) = {} /\ ~ \E r \in paperTrades : r.cycle = c - 1
      <4>1. \A r \in S : r.cycle = c - 2
        BY <1>2, <3>3 DEF RowsOf
      <4>2. c - 2 \in Cycles /\ RowsOf(c - 2) # {} /\ S \subseteq RowsOf(c - 2)
        BY <1>1, <1>4, <4>1 DEF RowsOf
      <4> QED
        BY <4>2
    <3> QED
      BY <3>1, <3>2, <3>3
  <2> HIDE DEF S
  <2> QED
    BY <2>1, HourOf DEF S
<1> QED
  BY <1>3, <1>4

-----------------------------------------------------------------------------
(* The inductive invariant holds of every behaviour: with the types, what  *)
(* the running cycle read of the account and of the switch still bounds    *)
(* what it may place, and its rows are counted.                            *)
THEOREM RiskInvariance == Spec => []Inv
  BY InitInv, InvNext, PTL DEF Spec

(* Every variable keeps the values that the tables and the agents' models  *)
(* allow it.                                                               *)
THEOREM RiskTypes == Spec => []TypeOK
<1>1. Inv => TypeOK
  BY DEF Inv
<1> QED
  BY <1>1, RiskInvariance, PTL

(* While the operator's switch stays set, only the cycle that was running  *)
(* when it was set can still have traded, paper or real.                   *)
THEOREM KillSwitchHalts == Spec => []KillSwitchHaltsNextCycle
<1>1. Inv => KillSwitchHaltsNextCycle
  BY DEF Inv
<1> QED
  BY <1>1, RiskInvariance, PTL

(* Within an hour, the paper orders exceed the rate limit by less than one *)
(* cycle's markets.                                                        *)
THEOREM RateOverrun == Spec => []RateOverrunBounded
  BY RateBounded, RiskInvariance, PTL

(* Each paper order with its fee was affordable from what the unfinished   *)
(* fills of earlier cycles had left of the cash.                           *)
THEOREM Affordable == Spec => []AffordableAtCollection
<1>1. Inv => AffordableAtCollection
  BY DEF Inv
<1> QED
  BY <1>1, RiskInvariance, PTL

(* A book that moved while the agents ran has an order rejected or filled  *)
(* at no worse a price, and a YES fill costs no more than was decided.     *)
THEOREM StaleBooksReject == Spec => []StaleBooksOnlyReject
<1>1. Inv => StaleBooksOnlyReject
  BY DEF Inv
<1> QED
  BY <1>1, RiskInvariance, PTL
=============================================================================
