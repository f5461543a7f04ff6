------------------------------ MODULE Reports ------------------------------
(***************************************************************************)
(* What organisers and admins are shown of the sales: the dashboard of an  *)
(* organisation, the sales and the series of an event, the overview, the   *)
(* revenue series and the leaderboards of the platform.                    *)
(*                                                                         *)
(* Orders are placed, paid and refunded while time passes; the reports are *)
(* functions of the orders of that moment.  A day has DayTicks ticks, the  *)
(* last of them less than a second before the next day.                    *)
(***************************************************************************)
EXTENDS Integers, FiniteSets, FiniteSetsExt

CONSTANTS OrderIds,
          EventIds,
          Organiser,  \* [EventIds -> organisations]
          Category,   \* [organisations -> categories]
          City,       \* [OrderIds -> cities of the buyers, NoCity for unknown]
          NoCity,
          Subtotal,   \* [OrderIds -> Nat]: what the organiser earns of it
          Fees,       \* [OrderIds -> Nat]: what the platform adds
          Processing, \* [OrderIds -> Nat]: what the provider keeps; 0 if unpaid for
          Quantity,   \* [OrderIds -> Nat]: its tickets
          RangeDays,  \* the days of the dashboard's range
          WeekDays, MonthDays,
          TopLimit,   \* how many events the dashboard lists
          LastDay     \* bound on the days that pass

ASSUME ReportsAssumption ==
  /\ RangeDays \in Nat \ {0} /\ WeekDays \in Nat \ {0} /\ MonthDays \in Nat \ {0}
  /\ LastDay \in Nat /\ TopLimit \in Nat \ {0}
  /\ IsFiniteSet(OrderIds)
  /\ Subtotal \in [OrderIds -> Nat] /\ Fees \in [OrderIds -> Nat]
  /\ Processing \in [OrderIds -> Nat] /\ Quantity \in [OrderIds -> Nat]

DayTicks == 4
Second == 2

VARIABLES now,       \* the time, in ticks
          orderEvent,  \* [OrderIds -> EventIds]
          orderStatus, \* [OrderIds -> "none", "pending", "paid" or "refunded"]
          paidAt,      \* [OrderIds -> time], once paid
          ticketsSold, revenueMinor \* [EventIds -> Nat]: the counters of the event

reportVars == <<now, orderEvent, orderStatus, paidAt, ticketsSold, revenueMinor>>

EndOfTime == (LastDay + 1) * DayTicks - 1
Total == [o \in OrderIds |-> Subtotal[o] + Fees[o]]
Profit == [o \in OrderIds |-> Fees[o] - Processing[o]]
SumOf(f, S) == MapThenSumSet(LAMBDA x : f[x], S)

ReportsTypeOK ==
  /\ now \in 0..EndOfTime
  /\ orderEvent \in [OrderIds -> EventIds]
  /\ orderStatus \in [OrderIds -> {"none", "pending", "paid", "refunded"}]
  /\ paidAt \in [OrderIds -> 0..EndOfTime]
  /\ ticketsSold \in [EventIds -> Nat] /\ revenueMinor \in [EventIds -> Nat]

ReportsInit ==
  /\ now = 0
  /\ orderEvent \in [OrderIds -> EventIds]
  /\ orderStatus = [o \in OrderIds |-> "none"]
  /\ paidAt = [o \in OrderIds |-> 0]
  /\ ticketsSold = [e \in EventIds |-> 0] /\ revenueMinor = [e \in EventIds |-> 0]

Passes == now < EndOfTime /\ now' = now + 1
          /\ UNCHANGED <<orderEvent, orderStatus, paidAt, ticketsSold, revenueMinor>>

Placed(o) ==
  /\ orderStatus[o] = "none" /\ orderStatus' = [orderStatus EXCEPT ![o] = "pending"]
  /\ UNCHANGED <<now, orderEvent, paidAt, ticketsSold, revenueMinor>>

\* Fulfilment and refund, with the event's counters (module Orders).
Paid(o) ==
  LET e == orderEvent[o]
  IN /\ orderStatus[o] = "pending" /\ orderStatus' = [orderStatus EXCEPT ![o] = "paid"]
     /\ paidAt' = [paidAt EXCEPT ![o] = now]
     /\ ticketsSold' = [ticketsSold EXCEPT ![e] = @ + Quantity[o]]
     /\ revenueMinor' = [revenueMinor EXCEPT ![e] = @ + Subtotal[o]]
     /\ UNCHANGED <<now, orderEvent>>

Refunded(o) ==
  LET e == orderEvent[o]
  IN /\ orderStatus[o] = "paid" /\ orderStatus' = [orderStatus EXCEPT ![o] = "refunded"]
     /\ ticketsSold' = [ticketsSold EXCEPT ![e] = @ - Quantity[o]]
     /\ revenueMinor' = [revenueMinor EXCEPT ![e] = @ - Subtotal[o]]
     /\ UNCHANGED <<now, orderEvent, paidAt>>

ReportsNext == Passes \/ \E o \in OrderIds : Placed(o) \/ Paid(o) \/ Refunded(o)

ReportsSpec == ReportsInit /\ [][ReportsNext]_reportVars

----------------------------------------------------------------------------
(* DashboardService *)

DayOf(t) == t \div DayTicks
PaidBetween(from, to) ==
  {o \in OrderIds : orderStatus[o] = "paid" /\ paidAt[o] >= from /\ paidAt[o] <= to}
OfOrganisation(org, S) == {o \in S : Organiser[orderEvent[o]] = org}

CurrentFrom == (DayOf(now) - (RangeDays - 1)) * DayTicks
PreviousFrom == CurrentFrom - RangeDays * DayTicks
PreviousTo == CurrentFrom - Second

TotalsOf(S) ==
  [revenue |-> SumOf(Subtotal, S), tickets |-> SumOf(Quantity, S), orders |-> Cardinality(S)]
BucketTotals(org, from, to) == TotalsOf(OfOrganisation(org, PaidBetween(from, to)))

\* A percentage with one decimal, in tenths; nothing to compare to is no number.
NoNumber == -100000
Round(n, d) == (2 * n + d) \div (2 * d)
Delta(previous, current) ==
  IF previous = 0 THEN IF current > 0 THEN NoNumber ELSE 0
  ELSE Round((current - previous) * 1000, previous)

\* Mutant of SeriesDays: today is left out.
SeriesDaysBefore(from, to) == {d \in 0..LastDay : d >= DayOf(from) /\ d < DayOf(to)}
SeriesDays(from, to) == {d \in 0..LastDay : d >= DayOf(from) /\ d * DayTicks <= to}
ByDay(S, days) == [d \in days |-> {o \in S : DayOf(paidAt[o]) = d}]
Series(S, days) == [d \in days |-> TotalsOf(ByDay(S, days)[d])]
TimeSeries(org, from, to) ==
  Series(OfOrganisation(org, PaidBetween(from, to)), SeriesDays(from, to))

\* The events that earned most, with their share of what these earned.
Grouped(key, S) == [k \in {key[o] : o \in S} |-> {o \in S : key[o] = k}]
PerEvent(S) == Grouped(orderEvent, S)
IsTop(top, perEvent) ==
  /\ top \subseteq DOMAIN perEvent
  /\ Cardinality(top) = IF Cardinality(DOMAIN perEvent) < TopLimit
                        THEN Cardinality(DOMAIN perEvent) ELSE TopLimit
  /\ \A e \in top, f \in DOMAIN perEvent \ top :
       SumOf(Subtotal, perEvent[e]) >= SumOf(Subtotal, perEvent[f])
TopEvents(org, from, to) ==
  LET perEvent == PerEvent(OfOrganisation(org, PaidBetween(from, to)))
      top == CHOOSE t \in SUBSET DOMAIN perEvent : IsTop(t, perEvent)
      total == SumOf(Subtotal, UNION {perEvent[e] : e \in top})
  IN [e \in top |->
       LET revenue == SumOf(Subtotal, perEvent[e])
       IN [revenue |-> revenue,
           share |-> IF total > 0 THEN Round(revenue * 1000, total) ELSE 0]]

----------------------------------------------------------------------------
(* EventAnalyticsService and EventSalesService *)

OfEvent(e) == {o \in OrderIds : orderStatus[o] = "paid" /\ orderEvent[o] = e}
FirstPaid(e) == CHOOSE t \in {paidAt[o] : o \in OfEvent(e)} : \A o \in OfEvent(e) : t <= paidAt[o]

DailySeries(e) ==
  Series(OfEvent(e), IF OfEvent(e) = {} THEN {} ELSE SeriesDays(FirstPaid(e), now))
CumulativeSeries(e) ==
  LET daily == DailySeries(e)
  IN [d \in DOMAIN daily |->
       LET until == {x \in DOMAIN daily : x <= d}
       IN [tickets |-> SumOf([x \in until |-> daily[x].tickets], until),
           revenue |-> SumOf([x \in until |-> daily[x].revenue], until)]]

EventSales(e) ==
  [gross |-> SumOf(Total, OfEvent(e)), fees |-> SumOf(Fees, OfEvent(e)),
   revenue |-> revenueMinor[e], orders |-> Cardinality(OfEvent(e)),
   tickets |-> ticketsSold[e]]

----------------------------------------------------------------------------
(* PlatformAnalyticsService *)

AllPaid == PaidBetween(0, EndOfTime)
Since(days) == PaidBetween(now - days * DayTicks, EndOfTime)

Overview ==
  [gmv |-> SumOf(Total, AllPaid), earnings |-> SumOf(Subtotal, AllPaid),
   fees |-> SumOf(Fees, AllPaid), processing |-> SumOf(Processing, AllPaid),
   profit |-> SumOf(Fees, AllPaid) - SumOf(Processing, AllPaid)]

BucketKey(t, interval) ==
  CASE interval = "month" -> (DayOf(t) \div MonthDays) * MonthDays
    [] interval = "week" -> (DayOf(t) \div WeekDays) * WeekDays
    [] OTHER -> DayOf(t)
BucketOf(interval) == [o \in OrderIds |-> BucketKey(paidAt[o], interval)]
Revenue(interval, days) ==
  LET buckets == Grouped(BucketOf(interval), Since(days))
  IN [k \in DOMAIN buckets |->
       [gmv |-> SumOf(Total, buckets[k]), orders |-> Cardinality(buckets[k]),
        profit |-> SumOf(Profit, buckets[k])]]

OrganiserOf == [o \in OrderIds |-> Organiser[orderEvent[o]]]
CategoryOf == [o \in OrderIds |-> Category[OrganiserOf[o]]]
Ranked(key, S) == LET of == Grouped(key, S) IN [k \in DOMAIN of |-> SumOf(Total, of[k])]
Leaderboards(days) ==
  LET rows == Since(days)
  IN [events |-> Ranked(orderEvent, rows), organisers |-> Ranked(OrganiserOf, rows),
      categories |-> Ranked(CategoryOf, rows),
      cities |-> Ranked(City, {o \in rows : City[o] # NoCity})]

----------------------------------------------------------------------------
(* Properties *)

Added(f) == SumOf(f, DOMAIN f)
Column(f, pick(_)) == Added([k \in DOMAIN f |-> pick(f[k])])

\* The dashboard counts every order paid in its range, or in the range before
\* it, in one of the two, unless it was paid in the second between them; and
\* its series and its shares add up.
DashboardCovers ==
  \A org \in {Organiser[e] : e \in EventIds} :
    LET all == OfOrganisation(org, PaidBetween(PreviousFrom, now))
        gap == {o \in all : paidAt[o] > PreviousTo /\ paidAt[o] < CurrentFrom}
        previous == BucketTotals(org, PreviousFrom, PreviousTo)
        current == BucketTotals(org, CurrentFrom, now)
        series == TimeSeries(org, CurrentFrom, now)
        top == TopEvents(org, CurrentFrom, now)
    IN /\ previous.orders + current.orders = Cardinality(all \ gap)
       /\ Column(series, LAMBDA r : r.revenue) = current.revenue
       /\ Column(series, LAMBDA r : r.orders) = current.orders
       /\ Column(top, LAMBDA r : r.revenue) <= current.revenue
       /\ (Delta(previous.revenue, current.revenue) = 0 /\ previous.revenue > 0) =>
            previous.revenue * 999 <= current.revenue * 1000

\* What an event shows of its orders is what its counters say.
SalesAgree ==
  \A e \in EventIds :
    LET sales == EventSales(e)  series == CumulativeSeries(e)
    IN /\ sales.gross = sales.revenue + sales.fees
       /\ OfEvent(e) # {} =>
            /\ series[DayOf(now)].revenue = sales.revenue
            /\ series[DayOf(now)].tickets = sales.tickets

\* The platform's series and leaderboards add up to its overview, whatever the
\* interval.
PlatformAgrees ==
  LET days == LastDay + 1
  IN /\ \A interval \in {"day", "week", "month"} :
          /\ Column(Revenue(interval, days), LAMBDA b : b.gmv) = Overview.gmv
          /\ Column(Revenue(interval, days), LAMBDA b : b.profit) = Overview.profit
     /\ Overview.gmv = Overview.earnings + Overview.fees
     /\ Added(Leaderboards(days).events) = Overview.gmv
     /\ Added(Leaderboards(days).organisers) = Overview.gmv
     /\ Added(Leaderboards(days).categories) = Overview.gmv
     /\ Added(Leaderboards(days).cities) <= Overview.gmv

\* All reports of the same orders agree; there are some from the first order.
ReportsAgree ==
  (\E o \in OrderIds : orderStatus[o] # "none") =>
    DashboardCovers /\ SalesAgree /\ PlatformAgrees
=============================================================================
