---------------------------- MODULE ReportsProofs ----------------------------
(***************************************************************************)
(* Theorems about the reports, for every history of executions.            *)
(***************************************************************************)
EXTENDS FillReports, SumLemmas

\* One more execution is sorted in.
LEMMA SortedIs ==
  ASSUME NEW fills \in Seq(Fill), NEW fill \in Fill
  PROVE  Sorted(fills, fill) \in Seq(Fill)
<1>1. fill.dated \in BOOLEAN /\ Append(fills, fill) \in Seq(Fill)
  BY DEF Fill
<1>2. <<fill>> \in Seq(Fill)
  OBVIOUS
<1>3. <<fill>> \o fills \in Seq(Fill)
  BY <1>2
<1>4. QED
  BY <1>1, <1>3 DEF Sorted

\* The sort goes through the history.
LEMMA SortingRuns ==
  ASSUME NEW w \in Seq(Fill),
         w = history
  PROVE  \E f \in [0 .. Len(w) -> Seq(Fill)] :
           /\ f[0] = <<>> /\ Chronological = f[Len(w)]
           /\ \A n \in 1 .. Len(w) : f[n] = Sorted(f[n - 1], w[n])
<1> DEFINE Op(x, e) == Sorted(x, e)
<1>1. PICK N \in Nat : N = Len(w) /\ DOMAIN w = 1 .. N
  OBVIOUS
<1>2. ASSUME NEW n \in 1 .. N, NEW x \in Seq(Fill) PROVE Op(x, w[n]) \in Seq(Fill)
  BY <1>1, SortedIs
<1> DEFINE step == [p \in Seq(Fill) \X (1 .. N) |-> Op(p[1], w[p[2]])]
<1>3. step \in [Seq(Fill) \X (1 .. N) -> Seq(Fill)]
  BY <1>2
<1>4. \A x \in Seq(Fill), n \in 1 .. N : step[<<x, n>>] = Op(x, w[n])
  OBVIOUS
<1>5. PICK base \in Seq(Fill) : base = <<>>
  <2>1. <<>> \in Seq(Fill)
    OBVIOUS
  <2>2. QED
    BY <2>1
<1> HIDE DEF step
<1>6. PICK g \in [SUBSET (1 .. N) -> Seq(Fill)] : FoldsBy(base, step, N, g)
  BY <1>3, FoldExists
<1>7. IsFold(Op, base, w, g)
  <2>1. ASSUME NEW s \in SUBSET (1 .. N), s # {}
        PROVE  g[s] = Op(g[s \ {Max(s)}], w[Max(s)])
    <3>1. Max(s) \in 1 .. N /\ g[s \ {Max(s)}] \in Seq(Fill)
      BY <2>1, MaxIsIn
    <3>2. g[s] = step[<<g[s \ {Max(s)}], Max(s)>>]
      BY <2>1, <1>6 DEF FoldsBy
    <3>3. QED
      BY <1>4, <3>1, <3>2
  <2>2. g[{}] = base
    BY <1>6 DEF FoldsBy
  <2>3. QED
    BY <1>1, <2>1, <2>2 DEF IsFold, FoldStep
<1>8. PICK h : h = CHOOSE y : IsFold(Op, base, w, y)
  OBVIOUS
<1>9. IsFold(Op, base, w, h)
  BY <1>7, <1>8
<1>10. Chronological = h[1 .. N]
  BY <1>1, <1>5, <1>8 DEF Chronological, FoldLeft, MapThenFoldSet, IsFold, FoldStep
<1>11. ASSUME NEW s \in SUBSET (1 .. N)
       PROVE  h[s] = IF s = {} THEN base ELSE Op(h[s \ {Max(s)}], w[Max(s)])
  BY <1>1, <1>9 DEF IsFold, FoldStep
<1>12. Unfolds(Seq(Fill), base, step, N, h)
  BY <1>4, <1>11, MaxIsIn DEF Unfolds
<1>13. RunsTo(Seq(Fill), base, step, N, h[1 .. N])
  BY <1>3, <1>12, UnfoldedRuns
<1>14. PICK f \in [0 .. N -> Seq(Fill)] :
         /\ f[0] = base /\ h[1 .. N] = f[N]
         /\ \A n \in 1 .. N : f[n] = step[<<f[n - 1], n>>]
  BY <1>13 DEF RunsTo
<1>15. ASSUME NEW n \in 1 .. N PROVE f[n] = Op(f[n - 1], w[n])
  <2>1. f[n - 1] \in Seq(Fill)
    BY <1>14
  <2>2. QED
    BY <1>4, <1>14, <2>1
<1>16. QED
  BY <1>1, <1>5, <1>10, <1>14, <1>15, ZenonT(40)

\* The sorted history is one of executions.
LEMMA ChronologicalIs == ASSUME history \in Seq(Fill) PROVE Chronological \in Seq(Fill)
<1>1. PICK w \in Seq(Fill) : w = history
  OBVIOUS
<1>2. PICK f \in [0 .. Len(w) -> Seq(Fill)] : Chronological = f[Len(w)]
  BY <1>1, SortingRuns
<1>3. QED
  BY <1>2

-----------------------------------------------------------------------------
(***************************************************************************)
(* The worst decline of a curve.                                           *)
(***************************************************************************)
\* What one pass over a curve keeps.
Walks ==
  [index : Nat, peak : Int, from : Nat, worst : [decline : Nat, peak : Nat, trough : Nat]]

StartOfWalk ==
  [index |-> 0, peak |-> 0, from |-> 0, worst |-> [decline |-> 0, peak |-> 0, trough |-> 0]]

\* One more point is passed.
LEMMA DeclineIs ==
  ASSUME NEW walk \in Walks, NEW value \in Int
  PROVE  Decline(walk, value) \in Walks
<1>1. PICK index, peak, from, worst :
        /\ index = walk.index + 1
        /\ peak = IF index = 1 THEN value ELSE RunningPeak(walk.peak, value)
        /\ from = IF index = 1 \/ value > walk.peak THEN index ELSE walk.from
        /\ worst = IF peak - value > walk.worst.decline
                   THEN [decline |-> peak - value, peak |-> from, trough |-> index]
                   ELSE walk.worst
  OBVIOUS
<1>2. index \in Nat /\ peak \in Int /\ from \in Nat
  BY <1>1 DEF Walks, RunningPeak
<1>3. worst \in [decline : Nat, peak : Nat, trough : Nat]
  <2>1. walk.worst \in [decline : Nat, peak : Nat, trough : Nat]
    BY DEF Walks
  <2>2. PICK d \in Int : d = peak - value
    BY <1>2
  <2>3. d > walk.worst.decline => d \in Nat
    BY <2>1, <2>2
  <2>4. QED
    BY <1>1, <1>2, <2>1, <2>2, <2>3
<1>4. Decline(walk, value)
        = [walk EXCEPT !.index = index, !.peak = peak, !.from = from, !.worst = worst]
  BY <1>1 DEF Decline
<1>5. QED
  BY <1>2, <1>3, <1>4 DEF Walks

\* The walk goes through the curve.
LEMMA WalkRuns ==
  ASSUME NEW w \in Seq(Int)
  PROVE  \E f \in [0 .. Len(w) -> Walks] :
           /\ f[0] = StartOfWalk /\ FoldLeft(Decline, StartOfWalk, w) = f[Len(w)]
           /\ \A n \in 1 .. Len(w) : f[n] = Decline(f[n - 1], w[n])
<1> DEFINE Op(x, e) == Decline(x, e)
<1>1. PICK N \in Nat : N = Len(w) /\ DOMAIN w = 1 .. N
  OBVIOUS
<1>2. ASSUME NEW n \in 1 .. N, NEW x \in Walks PROVE Op(x, w[n]) \in Walks
  BY <1>1, DeclineIs
<1> DEFINE step == [p \in Walks \X (1 .. N) |-> Op(p[1], w[p[2]])]
<1>3. step \in [Walks \X (1 .. N) -> Walks]
  BY <1>2
<1>4. \A x \in Walks, n \in 1 .. N : step[<<x, n>>] = Op(x, w[n])
  OBVIOUS
<1>5. PICK base \in Walks : base = StartOfWalk
  <2>1. StartOfWalk \in Walks
    BY DEF StartOfWalk, Walks
  <2>2. QED
    BY <2>1
<1> HIDE DEF step
<1>6. PICK g \in [SUBSET (1 .. N) -> Walks] : FoldsBy(base, step, N, g)
  BY <1>3, FoldExists
<1>7. IsFold(Op, base, w, g)
  <2>1. ASSUME NEW s \in SUBSET (1 .. N), s # {}
        PROVE  g[s] = Op(g[s \ {Max(s)}], w[Max(s)])
    <3>1. Max(s) \in 1 .. N /\ g[s \ {Max(s)}] \in Walks
      BY <2>1, MaxIsIn
    <3>2. g[s] = step[<<g[s \ {Max(s)}], Max(s)>>]
      BY <2>1, <1>6 DEF FoldsBy
    <3>3. QED
      BY <1>4, <3>1, <3>2
  <2>2. g[{}] = base
    BY <1>6 DEF FoldsBy
  <2>3. QED
    BY <1>1, <2>1, <2>2 DEF IsFold, FoldStep
<1>8. PICK h : h = CHOOSE y : IsFold(Op, base, w, y)
  OBVIOUS
<1>9. IsFold(Op, base, w, h)
  BY <1>7, <1>8
<1>10. FoldLeft(Decline, StartOfWalk, w) = h[1 .. N]
  BY <1>1, <1>5, <1>8 DEF FoldLeft, MapThenFoldSet, IsFold, FoldStep
<1>11. ASSUME NEW s \in SUBSET (1 .. N)
       PROVE  h[s] = IF s = {} THEN base ELSE Op(h[s \ {Max(s)}], w[Max(s)])
  BY <1>1, <1>9 DEF IsFold, FoldStep
<1>12. Unfolds(Walks, base, step, N, h)
  BY <1>4, <1>11, MaxIsIn DEF Unfolds
<1>13. RunsTo(Walks, base, step, N, h[1 .. N])
  BY <1>3, <1>12, UnfoldedRuns
<1>14. PICK f \in [0 .. N -> Walks] :
         /\ f[0] = base /\ h[1 .. N] = f[N]
         /\ \A n \in 1 .. N : f[n] = step[<<f[n - 1], n>>]
  BY <1>13 DEF RunsTo
<1>15. ASSUME NEW n \in 1 .. N PROVE f[n] = Op(f[n - 1], w[n])
  <2>1. f[n - 1] \in Walks
    BY <1>14
  <2>2. QED
    BY <1>4, <1>14, <2>1
<1>16. QED
  BY <1>1, <1>5, <1>10, <1>14, <1>15

\* What is known after n points: the peak and where it was, and the worst decline.
Walked(values, walk, n) ==
  /\ walk.index = n
  /\ n > 0 =>
       /\ walk.from \in 1 .. n /\ values[walk.from] = walk.peak
       /\ \A i \in 1 .. n : values[i] <= walk.peak
  /\ \A i, j \in 1 .. n : i < j => values[i] - values[j] <= walk.worst.decline
  /\ walk.worst.decline > 0 =>
       /\ walk.worst.peak \in 1 .. n /\ walk.worst.trough \in 1 .. n
       /\ walk.worst.peak < walk.worst.trough
       /\ values[walk.worst.peak] - values[walk.worst.trough] = walk.worst.decline

\* One more point keeps it.
LEMMA OneMoreIsWalked ==
  ASSUME NEW values \in Seq(Int), NEW n \in 1 .. Len(values), NEW walk \in Walks,
         Walked(values, walk, n - 1), NEW next, next = Decline(walk, values[n])
  PROVE  Walked(values, next, n)
<1>1. PICK N \in Nat : N = Len(values) /\ n \in 1 .. N /\ \A i \in 1 .. N : values[i] \in Int
  OBVIOUS
<1>2. PICK value \in Int : value = values[n]
  BY <1>1
<1>3. PICK peak, from :
        /\ peak = IF n = 1 THEN value ELSE RunningPeak(walk.peak, value)
        /\ from = IF n = 1 \/ value > walk.peak THEN n ELSE walk.from
  OBVIOUS
<1>4. PICK worst : worst = IF peak - value > walk.worst.decline
                          THEN [decline |-> peak - value, peak |-> from, trough |-> n]
                          ELSE walk.worst
  OBVIOUS
<1>5. walk.index + 1 = n
  BY <1>1 DEF Walked
<1>6. next = [walk EXCEPT !.index = n, !.peak = peak, !.from = from, !.worst = worst]
  BY <1>2, <1>3, <1>4, <1>5 DEF Decline
<1>7. next.index = n /\ next.peak = peak /\ next.from = from /\ next.worst = worst
  BY <1>6 DEF Walks
<1>8. /\ walk.peak \in Int /\ walk.worst.decline \in Nat
      /\ walk.worst \in [decline : Nat, peak : Nat, trough : Nat]
  BY DEF Walks
<1>9. /\ peak \in Int /\ from \in 1 .. n /\ values[from] = peak /\ value <= peak
      /\ \A i \in 1 .. n : values[i] <= peak
      /\ from = n => peak = value
  <2>1. CASE n = 1
    BY <1>1, <1>2, <1>3, <2>1
  <2>2. CASE n # 1 /\ value > walk.peak
    <3>1. peak = value /\ from = n
      BY <1>3, <1>8, <2>2 DEF RunningPeak
    <3>2. \A i \in 1 .. (n - 1) : values[i] \in Int /\ values[i] <= walk.peak
      BY <1>1, <2>2 DEF Walked
    <3>3. QED
      BY <1>1, <1>2, <1>8, <2>2, <3>1, <3>2, SMTT(30)
  <2>3. CASE n # 1 /\ ~(value > walk.peak)
    <3>1. peak = walk.peak /\ from = walk.from
      BY <1>3, <1>8, <2>3 DEF RunningPeak
    <3>2. /\ walk.from \in 1 .. (n - 1) /\ values[walk.from] = walk.peak
          /\ \A i \in 1 .. (n - 1) : values[i] \in Int /\ values[i] <= walk.peak
      BY <1>1, <2>3 DEF Walked
    <3>3. from \in 1 .. n /\ from # n /\ values[from] = peak
      BY <1>1, <3>1, <3>2
    <3>4. peak \in Int /\ value <= peak
      BY <1>2, <1>8, <2>3, <3>1
    <3>5. \A i \in 1 .. n : i = n \/ i \in 1 .. (n - 1)
      BY <1>1
    <3>6. \A i \in 1 .. n : values[i] <= peak
      BY <1>2, <3>1, <3>2, <3>4, <3>5
    <3>7. QED
      BY <3>3, <3>4, <3>6
  <2>4. QED
    BY <2>1, <2>2, <2>3
<1>10. /\ worst.decline \in Nat /\ worst.decline >= walk.worst.decline
       /\ peak - value <= worst.decline
  <2>1. CASE peak - value > walk.worst.decline
    <3>1. worst.decline = peak - value
      BY <1>4, <2>1
    <3>2. QED
      BY <1>2, <1>8, <1>9, <2>1, <3>1, SMTT(30)
  <2>2. CASE ~(peak - value > walk.worst.decline)
    BY <1>2, <1>4, <1>8, <1>9, <2>2, SMTT(30)
  <2>3. QED
    BY <2>1, <2>2
<1>11. ASSUME NEW i \in 1 .. n, NEW j \in 1 .. n, i < j
       PROVE  values[i] - values[j] <= worst.decline
  <2>1. values[i] \in Int /\ values[j] \in Int
    BY <1>1
  <2>2. CASE j = n
    BY <1>2, <1>9, <1>10, <2>1, <2>2, SMTT(30)
  <2>3. CASE j # n
    <3>1. i \in 1 .. (n - 1) /\ j \in 1 .. (n - 1)
      BY <1>1, <1>11, <2>3
    <3>2. values[i] - values[j] <= walk.worst.decline
      BY <1>11, <3>1 DEF Walked
    <3>3. PICK a \in Int, b \in Int : a = values[i] /\ b = values[j]
      BY <2>1
    <3>4. PICK d \in Nat, e \in Nat : d = walk.worst.decline /\ e = worst.decline /\ d <= e
      BY <1>8, <1>10
    <3>5. a - b <= d
      BY <3>2, <3>3, <3>4
    <3>6. a - b <= e
      BY <3>4, <3>5
    <3>7. QED
      BY <3>3, <3>4, <3>6
  <2>4. QED
    BY <2>2, <2>3
<1>12. ASSUME worst.decline > 0
       PROVE  /\ worst.peak \in 1 .. n /\ worst.trough \in 1 .. n
              /\ worst.peak < worst.trough
              /\ values[worst.peak] - values[worst.trough] = worst.decline
  <2>1. CASE peak - value > walk.worst.decline
    <3>1. worst.decline = peak - value /\ worst.peak = from /\ worst.trough = n
      BY <1>4, <2>1
    <3>2. from # n
      BY <1>2, <1>9, <1>12, <3>1
    <3>3. QED
      BY <1>1, <1>2, <1>9, <3>1, <3>2
  <2>2. CASE ~(peak - value > walk.worst.decline)
    <3>1. worst = walk.worst
      BY <1>4, <2>2
    <3>2. /\ worst.peak \in 1 .. (n - 1) /\ worst.trough \in 1 .. (n - 1)
          /\ worst.peak < worst.trough
          /\ values[worst.peak] - values[worst.trough] = worst.decline
      BY <1>12, <3>1 DEF Walked
    <3>3. QED
      BY <1>1, <3>2
  <2>3. QED
    BY <2>1, <2>2
<1>13. QED
  BY <1>7, <1>9, <1>11, <1>12 DEF Walked

\* One pass finds the worst decline of any curve.
LEMMA OnePassIsEnough ==
  ASSUME NEW values \in Seq(Int)
  PROVE  /\ peakToTrough(values).decline \in Nat
         /\ \A i, j \in 1 .. Len(values) :
              i < j => values[i] - values[j] <= peakToTrough(values).decline
         /\ peakToTrough(values).decline > 0 =>
              /\ peakToTrough(values).peak \in 1 .. Len(values)
              /\ peakToTrough(values).trough \in 1 .. Len(values)
              /\ peakToTrough(values).peak < peakToTrough(values).trough
              /\ values[peakToTrough(values).peak] - values[peakToTrough(values).trough]
                   = peakToTrough(values).decline
<1>1. PICK N \in Nat : N = Len(values)
  OBVIOUS
<1>2. PICK f \in [0 .. N -> Walks] :
        /\ f[0] = StartOfWalk /\ FoldLeft(Decline, StartOfWalk, values) = f[N]
        /\ \A n \in 1 .. N : f[n] = Decline(f[n - 1], values[n])
  BY <1>1, WalkRuns
<1> DEFINE T == {n \in 0 .. N : Walked(values, f[n], n)}
<1>3. 0 \in T
  BY <1>2 DEF Walked, StartOfWalk
<1>4. ASSUME NEW n \in 1 .. N, n - 1 \in T PROVE n \in T
  <2>1. f[n - 1] \in Walks
    BY <1>2
  <2>2. f[n] = Decline(f[n - 1], values[n])
    BY <1>2
  <2>3. Walked(values, f[n - 1], n - 1)
    BY <1>4
  <2>4. n \in 1 .. Len(values)
    BY <1>1
  <2>5. Walked(values, f[n], n)
    BY <2>1, <2>2, <2>3, <2>4, OneMoreIsWalked
  <2>6. QED
    BY <2>5
<1> HIDE DEF T
<1>5. N \in T
  <2>1. \A n \in 0 .. N : n \in T
    BY <1>3, <1>4, Induct
  <2>2. QED
    BY <2>1
<1>6. Walked(values, f[N], N) /\ f[N] \in Walks
  BY <1>2, <1>5 DEF T
<1>7. peakToTrough(values) = f[N].worst
  BY <1>2 DEF peakToTrough, StartOfWalk
<1>8. QED
  BY <1>1, <1>6, <1>7 DEF Walked, Walks

-----------------------------------------------------------------------------
(***************************************************************************)
(* Lots as units: each lot is as many units, each at its price.            *)
(***************************************************************************)
TaxLot == [quantity : Nat \ {0}, price : Nat]

\* What a lot holds.
LEMMA LotIs == ASSUME NEW lot \in TaxLot PROVE lot.quantity \in Nat \ {0} /\ lot.price \in Nat
BY DEF TaxLot

\* A product of natural numbers is one.
LEMMA TimesIs == ASSUME NEW m \in Nat, NEW n \in Nat PROVE m * n \in Nat
OBVIOUS

\* As many units at one price.
Same(count, price) == [u \in 1 .. count |-> price]

\* Units are numbers: their prices.
LEMMA SameIs ==
  ASSUME NEW count \in Nat, NEW price \in Nat
  PROVE  Same(count, price) \in Seq(Nat) /\ Len(Same(count, price)) = count
<1>1. PICK s : s = Same(count, price)
  OBVIOUS
<1>2. s \in [1 .. count -> Nat]
  BY <1>1 DEF Same
<1>3. QED
  BY <1>1, <1>2

\* Units are cut anywhere.
LEMMA SameSplits ==
  ASSUME NEW count \in Nat, NEW less \in 0 .. count, NEW price \in Nat
  PROVE  Same(count, price) = Same(less, price) \o Same(count - less, price)
<1>1. PICK s \in Seq(Nat), t \in Seq(Nat) :
        s = Same(less, price) /\ t = Same(count - less, price)
  BY SameIs
<1>2. Len(s) = less /\ Len(t) = count - less
  BY <1>1, SameIs
<1>3. \A i \in 1 .. less : s[i] = price
  BY <1>1 DEF Same
<1>4. \A i \in 1 .. (count - less) : t[i] = price
  BY <1>1 DEF Same
<1>5. PICK u \in Seq(Nat) : u = s \o t
  BY ConcatProperties
<1>6. Len(u) = count /\ \A i \in 1 .. count : u[i] = price
  <2>1. Len(u) = count
    BY <1>2, <1>5, ConcatProperties
  <2>2. ASSUME NEW i \in 1 .. count PROVE u[i] = price
    <3>1. i \in 1 .. Len(s) + Len(t)
      BY <1>2
    <3>2. u[i] = IF i <= Len(s) THEN s[i] ELSE t[i - Len(s)]
      BY <1>5, <3>1, ConcatProperties
    <3>3. QED
      BY <1>2, <1>3, <1>4, <3>2
  <2>3. QED
    BY <2>1, <2>2
<1>7. PICK v \in Seq(Nat) : v = Same(count, price)
  BY SameIs
<1>8. Len(v) = count /\ \A i \in 1 .. count : v[i] = price
  BY <1>7, SameIs DEF Same
<1>9. u = v
  BY <1>6, <1>8
<1>10. QED
  BY <1>1, <1>5, <1>7, <1>9

\* The units of a lot, or of an execution, are added.
LEMMA AddUnitsIs ==
  ASSUME NEW units \in Seq(Nat), NEW lot, lot.quantity \in Nat, lot.price \in Nat
  PROVE  /\ AddUnits(units, lot) \in Seq(Nat)
         /\ AddUnits(units, lot) = units \o Same(lot.quantity, lot.price)
         /\ Len(AddUnits(units, lot)) = Len(units) + lot.quantity
<1>1. AddUnits(units, lot) = units \o Same(lot.quantity, lot.price)
  BY DEF AddUnits, Same
<1>2. PICK s \in Seq(Nat) : s = Same(lot.quantity, lot.price) /\ Len(s) = lot.quantity
  BY SameIs
<1>3. QED
  BY <1>1, <1>2, ConcatProperties

\* A total adds one price after the other.
LEMMA TotalRuns ==
  ASSUME NEW w \in Seq(Nat)
  PROVE  \E f \in [0 .. Len(w) -> Nat] :
           /\ f[0] = 0 /\ Total(w) = f[Len(w)]
           /\ \A n \in 1 .. Len(w) : f[n] = AddPrice(f[n - 1], w[n])
<1> DEFINE Op(x, e) == AddPrice(x, e)
<1>1. PICK N \in Nat : N = Len(w) /\ DOMAIN w = 1 .. N
  OBVIOUS
<1>2. ASSUME NEW n \in 1 .. N, NEW x \in Nat PROVE Op(x, w[n]) \in Nat
  BY <1>1 DEF AddPrice
<1> DEFINE step == [p \in Nat \X (1 .. N) |-> Op(p[1], w[p[2]])]
<1>3. step \in [Nat \X (1 .. N) -> Nat]
  BY <1>2
<1>4. \A x \in Nat, n \in 1 .. N : step[<<x, n>>] = Op(x, w[n])
  OBVIOUS
<1>5. PICK base \in Nat : base = 0
  OBVIOUS
<1> HIDE DEF step
<1>6. PICK g \in [SUBSET (1 .. N) -> Nat] : FoldsBy(base, step, N, g)
  BY <1>3, FoldExists
<1>7. IsFold(Op, base, w, g)
  <2>1. ASSUME NEW s \in SUBSET (1 .. N), s # {}
        PROVE  g[s] = Op(g[s \ {Max(s)}], w[Max(s)])
    <3>1. Max(s) \in 1 .. N /\ g[s \ {Max(s)}] \in Nat
      BY <2>1, MaxIsIn
    <3>2. g[s] = step[<<g[s \ {Max(s)}], Max(s)>>]
      BY <2>1, <1>6 DEF FoldsBy
    <3>3. QED
      BY <1>4, <3>1, <3>2
  <2>2. g[{}] = base
    BY <1>6 DEF FoldsBy
  <2>3. QED
    BY <1>1, <2>1, <2>2 DEF IsFold, FoldStep
<1>8. PICK h : h = CHOOSE y : IsFold(Op, base, w, y)
  OBVIOUS
<1>9. IsFold(Op, base, w, h)
  BY <1>7, <1>8
<1>10. Total(w) = h[1 .. N]
  BY <1>1, <1>5, <1>8 DEF Total, FoldLeft, MapThenFoldSet, IsFold, FoldStep
<1>11. ASSUME NEW s \in SUBSET (1 .. N)
       PROVE  h[s] = IF s = {} THEN base ELSE Op(h[s \ {Max(s)}], w[Max(s)])
  BY <1>1, <1>9 DEF IsFold, FoldStep
<1>12. Unfolds(Nat, base, step, N, h)
  BY <1>4, <1>11, MaxIsIn DEF Unfolds
<1>13. RunsTo(Nat, base, step, N, h[1 .. N])
  BY <1>3, <1>12, UnfoldedRuns
<1>14. PICK f \in [0 .. N -> Nat] :
         /\ f[0] = base /\ h[1 .. N] = f[N]
         /\ \A n \in 1 .. N : f[n] = step[<<f[n - 1], n>>]
  BY <1>13 DEF RunsTo
<1>15. ASSUME NEW n \in 1 .. N PROVE f[n] = Op(f[n - 1], w[n])
  <2>1. f[n - 1] \in Nat
    BY <1>14
  <2>2. QED
    BY <1>4, <1>14, <2>1
<1>16. QED
  BY <1>1, <1>5, <1>10, <1>14, <1>15

\* Nothing totals 0, and one price more adds that price.
LEMMA TotalSnoc ==
  /\ Total(<<>>) = 0
  /\ \A w \in Seq(Nat) : Total(w) \in Nat
  /\ \A w \in Seq(Nat), e \in Nat : Total(Append(w, e)) = AddPrice(Total(w), e)
<1>1. ASSUME NEW w \in Seq(Nat) PROVE Total(w) \in Nat
  <2>1. PICK f \in [0 .. Len(w) -> Nat] : Total(w) = f[Len(w)]
    BY TotalRuns
  <2>2. QED
    BY <2>1
<1>2. Total(<<>>) = 0
  <2>1. PICK w \in Seq(Nat) : w = <<>>
    <3>1. <<>> \in Seq(Nat)
      OBVIOUS
    <3>2. QED
      BY <3>1
  <2>2. PICK f \in [0 .. Len(w) -> Nat] : f[0] = 0 /\ Total(w) = f[Len(w)]
    BY TotalRuns
  <2>3. QED
    BY <2>1, <2>2
<1>3. ASSUME NEW w \in Seq(Nat), NEW e \in Nat
      PROVE  Total(Append(w, e)) = AddPrice(Total(w), e)
  <2>1. PICK v \in Seq(Nat) : v = Append(w, e)
    BY AppendProperties
  <2>2. PICK N \in Nat : N = Len(w)
    OBVIOUS
  <2>3. Len(v) = N + 1 /\ v[N + 1] = e /\ \A n \in 1 .. N : v[n] = w[n]
    BY <2>1, <2>2, AppendProperties
  <2>4. PICK f \in [0 .. N -> Nat] :
          /\ f[0] = 0 /\ Total(w) = f[N]
          /\ \A n \in 1 .. N : f[n] = AddPrice(f[n - 1], w[n])
    BY <2>2, TotalRuns
  <2>5. PICK M \in Nat : M = N + 1 /\ M = Len(v)
    BY <2>3
  <2>6. PICK g \in [0 .. M -> Nat] :
          /\ g[0] = 0 /\ Total(v) = g[M]
          /\ \A n \in 1 .. M : g[n] = AddPrice(g[n - 1], v[n])
    BY <2>5, TotalRuns, ZenonT(40)
  <2>7. ASSUME NEW n \in 1 .. N, f[n - 1] = g[n - 1] PROVE f[n] = g[n]
    <3>1. n \in 1 .. M /\ v[n] = w[n]
      BY <2>3, <2>5
    <3>2. QED
      BY <2>4, <2>6, <2>7, <3>1
  <2>8. f[0] = g[0]
    BY <2>4, <2>6
  <2>9. f[N] = g[N]
    BY <2>7, <2>8, RunsAgree
  <2>10. M \in 1 .. M /\ M - 1 = N
    BY <2>5
  <2>11. g[M] = AddPrice(g[M - 1], v[M])
    BY <2>6, <2>10
  <2>12. QED
    BY <2>1, <2>3, <2>4, <2>6, <2>9, <2>10, <2>11, <2>5
<1>4. QED
  BY <1>1, <1>2, <1>3

\* The open units are added one lot after the other.
LEMMA OpenUnitsRun ==
  ASSUME NEW w \in Seq(TaxLot)
  PROVE  \E f \in [0 .. Len(w) -> Seq(Nat)] :
           /\ f[0] = <<>> /\ OpenUnits(w) = f[Len(w)]
           /\ \A n \in 1 .. Len(w) : f[n] = AddUnits(f[n - 1], w[n])
<1> DEFINE Op(x, e) == AddUnits(x, e)
<1>1. PICK N \in Nat : N = Len(w) /\ DOMAIN w = 1 .. N
  OBVIOUS
<1>2. ASSUME NEW n \in 1 .. N, NEW x \in Seq(Nat) PROVE Op(x, w[n]) \in Seq(Nat)
  BY <1>1, LotIs, AddUnitsIs
<1> DEFINE step == [p \in Seq(Nat) \X (1 .. N) |-> Op(p[1], w[p[2]])]
<1>3. step \in [Seq(Nat) \X (1 .. N) -> Seq(Nat)]
  BY <1>2
<1>4. \A x \in Seq(Nat), n \in 1 .. N : step[<<x, n>>] = Op(x, w[n])
  OBVIOUS
<1>5. PICK base \in Seq(Nat) : base = <<>>
  <2>1. <<>> \in Seq(Nat)
    OBVIOUS
  <2>2. QED
    BY <2>1
<1> HIDE DEF step
<1>6. PICK g \in [SUBSET (1 .. N) -> Seq(Nat)] : FoldsBy(base, step, N, g)
  BY <1>3, FoldExists
<1>7. IsFold(Op, base, w, g)
  <2>1. ASSUME NEW s \in SUBSET (1 .. N), s # {}
        PROVE  g[s] = Op(g[s \ {Max(s)}], w[Max(s)])
    <3>1. Max(s) \in 1 .. N /\ g[s \ {Max(s)}] \in Seq(Nat)
      BY <2>1, MaxIsIn
    <3>2. g[s] = step[<<g[s \ {Max(s)}], Max(s)>>]
      BY <2>1, <1>6 DEF FoldsBy
    <3>3. QED
      BY <1>4, <3>1, <3>2
  <2>2. g[{}] = base
    BY <1>6 DEF FoldsBy
  <2>3. QED
    BY <1>1, <2>1, <2>2 DEF IsFold, FoldStep
<1>8. PICK h : h = CHOOSE y : IsFold(Op, base, w, y)
  OBVIOUS
<1>9. IsFold(Op, base, w, h)
  BY <1>7, <1>8
<1>10. OpenUnits(w) = h[1 .. N]
  BY <1>1, <1>5, <1>8 DEF OpenUnits, FoldLeft, MapThenFoldSet, IsFold, FoldStep
<1>11. ASSUME NEW s \in SUBSET (1 .. N)
       PROVE  h[s] = IF s = {} THEN base ELSE Op(h[s \ {Max(s)}], w[Max(s)])
  BY <1>1, <1>9 DEF IsFold, FoldStep
<1>12. Unfolds(Seq(Nat), base, step, N, h)
  BY <1>4, <1>11, MaxIsIn DEF Unfolds
<1>13. RunsTo(Seq(Nat), base, step, N, h[1 .. N])
  BY <1>3, <1>12, UnfoldedRuns
<1>14. PICK f \in [0 .. N -> Seq(Nat)] :
         /\ f[0] = base /\ h[1 .. N] = f[N]
         /\ \A n \in 1 .. N : f[n] = step[<<f[n - 1], n>>]
  BY <1>13 DEF RunsTo
<1>15. ASSUME NEW n \in 1 .. N PROVE f[n] = Op(f[n - 1], w[n])
  <2>1. f[n - 1] \in Seq(Nat)
    BY <1>14
  <2>2. QED
    BY <1>4, <1>14, <2>1
<1>16. QED
  BY <1>1, <1>5, <1>10, <1>14, <1>15

\* No lots are no units, and one lot more adds its units.
LEMMA OpenUnitsSnoc ==
  /\ OpenUnits(<<>>) = <<>>
  /\ \A w \in Seq(TaxLot) : OpenUnits(w) \in Seq(Nat)
  /\ \A w \in Seq(TaxLot), e \in TaxLot : OpenUnits(Append(w, e)) = AddUnits(OpenUnits(w), e)
<1>1. ASSUME NEW w \in Seq(TaxLot) PROVE OpenUnits(w) \in Seq(Nat)
  <2>1. PICK f \in [0 .. Len(w) -> Seq(Nat)] : OpenUnits(w) = f[Len(w)]
    BY OpenUnitsRun
  <2>2. QED
    BY <2>1
<1>2. OpenUnits(<<>>) = <<>>
  <2>1. PICK w \in Seq(TaxLot) : w = <<>>
    <3>1. <<>> \in Seq(TaxLot)
      OBVIOUS
    <3>2. QED
      BY <3>1
  <2>2. PICK f \in [0 .. Len(w) -> Seq(Nat)] : f[0] = <<>> /\ OpenUnits(w) = f[Len(w)]
    BY OpenUnitsRun
  <2>3. QED
    BY <2>1, <2>2
<1>3. ASSUME NEW w \in Seq(TaxLot), NEW e \in TaxLot
      PROVE  OpenUnits(Append(w, e)) = AddUnits(OpenUnits(w), e)
  <2>1. PICK v \in Seq(TaxLot) : v = Append(w, e)
    BY AppendProperties
  <2>2. PICK N \in Nat : N = Len(w)
    OBVIOUS
  <2>3. Len(v) = N + 1 /\ v[N + 1] = e /\ \A n \in 1 .. N : v[n] = w[n]
    BY <2>1, <2>2, AppendProperties
  <2>4. PICK f \in [0 .. N -> Seq(Nat)] :
          /\ f[0] = <<>> /\ OpenUnits(w) = f[N]
          /\ \A n \in 1 .. N : f[n] = AddUnits(f[n - 1], w[n])
    BY <2>2, OpenUnitsRun
  <2>5. PICK M \in Nat : M = N + 1 /\ M = Len(v)
    BY <2>3
  <2>6. PICK g \in [0 .. M -> Seq(Nat)] :
          /\ g[0] = <<>> /\ OpenUnits(v) = g[M]
          /\ \A n \in 1 .. M : g[n] = AddUnits(g[n - 1], v[n])
    BY <2>5, OpenUnitsRun
  <2>7. ASSUME NEW n \in 1 .. N, f[n - 1] = g[n - 1] PROVE f[n] = g[n]
    <3>1. n \in 1 .. M /\ v[n] = w[n]
      BY <2>3, <2>5
    <3>2. QED
      BY <2>4, <2>6, <2>7, <3>1
  <2>8. f[0] = g[0]
    BY <2>4, <2>6
  <2>9. f[N] = g[N]
    BY <2>7, <2>8, RunsAgree
  <2>10. M \in 1 .. M /\ M - 1 = N
    BY <2>5
  <2>11. g[M] = AddUnits(g[M - 1], v[M])
    BY <2>6, <2>10
  <2>12. QED
    BY <2>1, <2>3, <2>4, <2>6, <2>9, <2>10, <2>11, <2>5
<1>4. QED
  BY <1>1, <1>2, <1>3

\* The quantities are added one lot after the other.
LEMMA QuantityRuns ==
  ASSUME NEW w \in Seq(TaxLot)
  PROVE  \E f \in [0 .. Len(w) -> Nat] :
           /\ f[0] = 0 /\ Quantity(w) = f[Len(w)]
           /\ \A n \in 1 .. Len(w) : f[n] = AddQuantity(f[n - 1], w[n])
<1> DEFINE Op(x, e) == AddQuantity(x, e)
<1>1. PICK N \in Nat : N = Len(w) /\ DOMAIN w = 1 .. N
  OBVIOUS
<1>2. ASSUME NEW n \in 1 .. N, NEW x \in Nat PROVE Op(x, w[n]) \in Nat
  BY <1>1, LotIs DEF AddQuantity
<1> DEFINE step == [p \in Nat \X (1 .. N) |-> Op(p[1], w[p[2]])]
<1>3. step \in [Nat \X (1 .. N) -> Nat]
  BY <1>2
<1>4. \A x \in Nat, n \in 1 .. N : step[<<x, n>>] = Op(x, w[n])
  OBVIOUS
<1>5. PICK base \in Nat : base = 0
  OBVIOUS
<1> HIDE DEF step
<1>6. PICK g \in [SUBSET (1 .. N) -> Nat] : FoldsBy(base, step, N, g)
  BY <1>3, FoldExists
<1>7. IsFold(Op, base, w, g)
  <2>1. ASSUME NEW s \in SUBSET (1 .. N), s # {}
        PROVE  g[s] = Op(g[s \ {Max(s)}], w[Max(s)])
    <3>1. Max(s) \in 1 .. N /\ g[s \ {Max(s)}] \in Nat
      BY <2>1, MaxIsIn
    <3>2. g[s] = step[<<g[s \ {Max(s)}], Max(s)>>]
      BY <2>1, <1>6 DEF FoldsBy
    <3>3. QED
      BY <1>4, <3>1, <3>2
  <2>2. g[{}] = base
    BY <1>6 DEF FoldsBy
  <2>3. QED
    BY <1>1, <2>1, <2>2 DEF IsFold, FoldStep
<1>8. PICK h : h = CHOOSE y : IsFold(Op, base, w, y)
  OBVIOUS
<1>9. IsFold(Op, base, w, h)
  BY <1>7, <1>8
<1>10. Quantity(w) = h[1 .. N]
  BY <1>1, <1>5, <1>8 DEF Quantity, FoldLeft, MapThenFoldSet, IsFold, FoldStep
<1>11. ASSUME NEW s \in SUBSET (1 .. N)
       PROVE  h[s] = IF s = {} THEN base ELSE Op(h[s \ {Max(s)}], w[Max(s)])
  BY <1>1, <1>9 DEF IsFold, FoldStep
<1>12. Unfolds(Nat, base, step, N, h)
  BY <1>4, <1>11, MaxIsIn DEF Unfolds
<1>13. RunsTo(Nat, base, step, N, h[1 .. N])
  BY <1>3, <1>12, UnfoldedRuns
<1>14. PICK f \in [0 .. N -> Nat] :
         /\ f[0] = base /\ h[1 .. N] = f[N]
         /\ \A n \in 1 .. N : f[n] = step[<<f[n - 1], n>>]
  BY <1>13 DEF RunsTo
<1>15. ASSUME NEW n \in 1 .. N PROVE f[n] = Op(f[n - 1], w[n])
  <2>1. f[n - 1] \in Nat
    BY <1>14
  <2>2. QED
    BY <1>4, <1>14, <2>1
<1>16. QED
  BY <1>1, <1>5, <1>10, <1>14, <1>15

\* One lot more adds its quantity.
LEMMA QuantitySnoc ==
  /\ Quantity(<<>>) = 0
  /\ \A w \in Seq(TaxLot) : Quantity(w) \in Nat
  /\ \A w \in Seq(TaxLot), e \in TaxLot : Quantity(Append(w, e)) = AddQuantity(Quantity(w), e)
<1>1. ASSUME NEW w \in Seq(TaxLot) PROVE Quantity(w) \in Nat
  <2>1. PICK f \in [0 .. Len(w) -> Nat] : Quantity(w) = f[Len(w)]
    BY QuantityRuns
  <2>2. QED
    BY <2>1
<1>2. Quantity(<<>>) = 0
  <2>1. PICK w \in Seq(TaxLot) : w = <<>>
    <3>1. <<>> \in Seq(TaxLot)
      OBVIOUS
    <3>2. QED
      BY <3>1
  <2>2. PICK f \in [0 .. Len(w) -> Nat] : f[0] = 0 /\ Quantity(w) = f[Len(w)]
    BY QuantityRuns
  <2>3. QED
    BY <2>1, <2>2
<1>3. ASSUME NEW w \in Seq(TaxLot), NEW e \in TaxLot
      PROVE  Quantity(Append(w, e)) = AddQuantity(Quantity(w), e)
  <2>1. PICK v \in Seq(TaxLot) : v = Append(w, e)
    BY AppendProperties
  <2>2. PICK N \in Nat : N = Len(w)
    OBVIOUS
  <2>3. Len(v) = N + 1 /\ v[N + 1] = e /\ \A n \in 1 .. N : v[n] = w[n]
    BY <2>1, <2>2, AppendProperties
  <2>4. PICK f \in [0 .. N -> Nat] :
          /\ f[0] = 0 /\ Quantity(w) = f[N]
          /\ \A n \in 1 .. N : f[n] = AddQuantity(f[n - 1], w[n])
    BY <2>2, QuantityRuns
  <2>5. PICK M \in Nat : M = N + 1 /\ M = Len(v)
    BY <2>3
  <2>6. PICK g \in [0 .. M -> Nat] :
          /\ g[0] = 0 /\ Quantity(v) = g[M]
          /\ \A n \in 1 .. M : g[n] = AddQuantity(g[n - 1], v[n])
    BY <2>5, QuantityRuns, ZenonT(40)
  <2>7. ASSUME NEW n \in 1 .. N, f[n - 1] = g[n - 1] PROVE f[n] = g[n]
    <3>1. n \in 1 .. M /\ v[n] = w[n]
      BY <2>3, <2>5
    <3>2. QED
      BY <2>4, <2>6, <2>7, <3>1
  <2>8. f[0] = g[0]
    BY <2>4, <2>6
  <2>9. f[N] = g[N]
    BY <2>7, <2>8, RunsAgree
  <2>10. M \in 1 .. M /\ M - 1 = N
    BY <2>5
  <2>11. g[M] = AddQuantity(g[M - 1], v[M])
    BY <2>6, <2>10
  <2>12. QED
    BY <2>1, <2>3, <2>4, <2>6, <2>9, <2>10, <2>11, <2>5
<1>4. QED
  BY <1>1, <1>2, <1>3

\* The costs are added one lot after the other.
LEMMA CostRuns ==
  ASSUME NEW w \in Seq(TaxLot)
  PROVE  \E f \in [0 .. Len(w) -> Nat] :
           /\ f[0] = 0 /\ CostBasis(w) = f[Len(w)]
           /\ \A n \in 1 .. Len(w) : f[n] = AddCost(f[n - 1], w[n])
<1> DEFINE Op(x, e) == AddCost(x, e)
<1>1. PICK N \in Nat : N = Len(w) /\ DOMAIN w = 1 .. N
  OBVIOUS
<1>2. ASSUME NEW n \in 1 .. N, NEW x \in Nat PROVE Op(x, w[n]) \in Nat
  BY <1>1, LotIs, TimesIs DEF AddCost
<1> DEFINE step == [p \in Nat \X (1 .. N) |-> Op(p[1], w[p[2]])]
<1>3. step \in [Nat \X (1 .. N) -> Nat]
  BY <1>2
<1>4. \A x \in Nat, n \in 1 .. N : step[<<x, n>>] = Op(x, w[n])
  OBVIOUS
<1>5. PICK base \in Nat : base = 0
  OBVIOUS
<1> HIDE DEF step
<1>6. PICK g \in [SUBSET (1 .. N) -> Nat] : FoldsBy(base, step, N, g)
  BY <1>3, FoldExists
<1>7. IsFold(Op, base, w, g)
  <2>1. ASSUME NEW s \in SUBSET (1 .. N), s # {}
        PROVE  g[s] = Op(g[s \ {Max(s)}], w[Max(s)])
    <3>1. Max(s) \in 1 .. N /\ g[s \ {Max(s)}] \in Nat
      BY <2>1, MaxIsIn
    <3>2. g[s] = step[<<g[s \ {Max(s)}], Max(s)>>]
      BY <2>1, <1>6 DEF FoldsBy
    <3>3. QED
      BY <1>4, <3>1, <3>2
  <2>2. g[{}] = base
    BY <1>6 DEF FoldsBy
  <2>3. QED
    BY <1>1, <2>1, <2>2 DEF IsFold, FoldStep
<1>8. PICK h : h = CHOOSE y : IsFold(Op, base, w, y)
  OBVIOUS
<1>9. IsFold(Op, base, w, h)
  BY <1>7, <1>8
<1>10. CostBasis(w) = h[1 .. N]
  BY <1>1, <1>5, <1>8 DEF CostBasis, FoldLeft, MapThenFoldSet, IsFold, FoldStep
<1>11. ASSUME NEW s \in SUBSET (1 .. N)
       PROVE  h[s] = IF s = {} THEN base ELSE Op(h[s \ {Max(s)}], w[Max(s)])
  BY <1>1, <1>9 DEF IsFold, FoldStep
<1>12. Unfolds(Nat, base, step, N, h)
  BY <1>4, <1>11, MaxIsIn DEF Unfolds
<1>13. RunsTo(Nat, base, step, N, h[1 .. N])
  BY <1>3, <1>12, UnfoldedRuns
<1>14. PICK f \in [0 .. N -> Nat] :
         /\ f[0] = base /\ h[1 .. N] = f[N]
         /\ \A n \in 1 .. N : f[n] = step[<<f[n - 1], n>>]
  BY <1>13 DEF RunsTo
<1>15. ASSUME NEW n \in 1 .. N PROVE f[n] = Op(f[n - 1], w[n])
  <2>1. f[n - 1] \in Nat
    BY <1>14
  <2>2. QED
    BY <1>4, <1>14, <2>1
<1>16. QED
  BY <1>1, <1>5, <1>10, <1>14, <1>15

\* One lot more adds its cost.
LEMMA CostSnoc ==
  /\ CostBasis(<<>>) = 0
  /\ \A w \in Seq(TaxLot) : CostBasis(w) \in Nat
  /\ \A w \in Seq(TaxLot), e \in TaxLot : CostBasis(Append(w, e)) = AddCost(CostBasis(w), e)
<1>1. ASSUME NEW w \in Seq(TaxLot) PROVE CostBasis(w) \in Nat
  <2>1. PICK f \in [0 .. Len(w) -> Nat] : CostBasis(w) = f[Len(w)]
    BY CostRuns
  <2>2. QED
    BY <2>1
<1>2. CostBasis(<<>>) = 0
  <2>1. PICK w \in Seq(TaxLot) : w = <<>>
    <3>1. <<>> \in Seq(TaxLot)
      OBVIOUS
    <3>2. QED
      BY <3>1
  <2>2. PICK f \in [0 .. Len(w) -> Nat] : f[0] = 0 /\ CostBasis(w) = f[Len(w)]
    BY CostRuns
  <2>3. QED
    BY <2>1, <2>2
<1>3. ASSUME NEW w \in Seq(TaxLot), NEW e \in TaxLot
      PROVE  CostBasis(Append(w, e)) = AddCost(CostBasis(w), e)
  <2>1. PICK v \in Seq(TaxLot) : v = Append(w, e)
    BY AppendProperties
  <2>2. PICK N \in Nat : N = Len(w)
    OBVIOUS
  <2>3. Len(v) = N + 1 /\ v[N + 1] = e /\ \A n \in 1 .. N : v[n] = w[n]
    BY <2>1, <2>2, AppendProperties
  <2>4. PICK f \in [0 .. N -> Nat] :
          /\ f[0] = 0 /\ CostBasis(w) = f[N]
          /\ \A n \in 1 .. N : f[n] = AddCost(f[n - 1], w[n])
    BY <2>2, CostRuns
  <2>5. PICK M \in Nat : M = N + 1 /\ M = Len(v)
    BY <2>3
  <2>6. PICK g \in [0 .. M -> Nat] :
          /\ g[0] = 0 /\ CostBasis(v) = g[M]
          /\ \A n \in 1 .. M : g[n] = AddCost(g[n - 1], v[n])
    BY <2>5, CostRuns, ZenonT(40)
  <2>7. ASSUME NEW n \in 1 .. N, f[n - 1] = g[n - 1] PROVE f[n] = g[n]
    <3>1. n \in 1 .. M /\ v[n] = w[n]
      BY <2>3, <2>5
    <3>2. QED
      BY <2>4, <2>6, <2>7, <3>1
  <2>8. f[0] = g[0]
    BY <2>4, <2>6
  <2>9. f[N] = g[N]
    BY <2>7, <2>8, RunsAgree
  <2>10. M \in 1 .. M /\ M - 1 = N
    BY <2>5
  <2>11. g[M] = AddCost(g[M - 1], v[M])
    BY <2>6, <2>10
  <2>12. QED
    BY <2>1, <2>3, <2>4, <2>6, <2>9, <2>10, <2>11, <2>5
<1>4. QED
  BY <1>1, <1>2, <1>3

\* The same price so many times more adds so many times the price.
LEMMA TotalOfSame ==
  ASSUME NEW units \in Seq(Nat), NEW count \in Nat, NEW price \in Nat
  PROVE  Total(units \o Same(count, price)) = Total(units) + count * price
<1> DEFINE T == {n \in 0 .. count : Total(units \o Same(n, price)) = Total(units) + n * price}
<1>1. 0 \in T
  <2>1. PICK s \in Seq(Nat) : s = Same(0, price) /\ Len(s) = 0
    BY SameIs
  <2>2. units \o s = units
    BY <2>1, ConcatEmptySeq
  <2>3. PICK t \in Nat : t = Total(units)
    BY TotalSnoc
  <2>4. t + 0 * price = t /\ 0 \in 0 .. count
    BY <2>3
  <2>5. Total(units \o Same(0, price)) = t
    BY <2>1, <2>2, <2>3
  <2>6. QED
    BY <2>3, <2>4, <2>5
<1>2. ASSUME NEW n \in 1 .. count, n - 1 \in T PROVE n \in T
  <2>1. n \in Nat /\ n - 1 \in Nat
    OBVIOUS
  <2>2. PICK s \in Seq(Nat), t \in Seq(Nat) :
          /\ s = Same(n - 1, price) /\ t = Same(n, price)
          /\ Len(s) = n - 1 /\ Len(t) = n
    BY <2>1, SameIs, ZenonT(40)
  <2>3. PICK v \in Seq(Nat), w \in Seq(Nat) : v = units \o s /\ w = units \o t
    BY ConcatProperties
  <2>4. \A i \in 1 .. n : t[i] = price /\ (i # n => s[i] = price)
    BY <2>2 DEF Same
  <2>5. t = Append(s, price)
    BY <2>2, <2>4
  <2>6. w = Append(v, price)
    BY <2>3, <2>5
  <2>7. PICK a \in Nat, b \in Nat : a = Total(units) /\ b = Total(v)
    BY TotalSnoc
  <2>8. Total(w) = b + price
    BY <2>6, <2>7, TotalSnoc DEF AddPrice
  <2>9. b = a + (n - 1) * price
    BY <1>2, <2>2, <2>3, <2>7
  <2>10. (n - 1) * price + price = n * price
    OBVIOUS
  <2>11. PICK c \in Int, d \in Int : c = (n - 1) * price /\ d = n * price
    OBVIOUS
  <2>12. b + price = a + d
    BY <2>7, <2>9, <2>10, <2>11
  <2>13. QED
    BY <2>2, <2>3, <2>7, <2>8, <2>11, <2>12
<1> HIDE DEF T
<1>3. \A n \in 0 .. count : n \in T
  BY <1>1, <1>2, Induct
<1>4. count \in T
  BY <1>3
<1>5. QED
  BY <1>4 DEF T

\* Units put together total what each part does.
LEMMA TotalOfBoth ==
  ASSUME NEW v \in Seq(Nat), NEW w \in Seq(Nat)
  PROVE  Total(v \o w) = Total(v) + Total(w)
<1>1. PICK N \in Nat : N = Len(w)
  OBVIOUS
<1> DEFINE front(n) == SubSeq(w, 1, n)
           T == {n \in 0 .. N : Total(v \o front(n)) = Total(v) + Total(front(n))}
<1>2. 0 \in T
  <2>1. front(0) = <<>> /\ v \o <<>> = v
    BY ConcatEmptySeq
  <2>2. PICK a \in Nat : a = Total(v)
    BY TotalSnoc
  <2>3. Total(<<>>) = 0
    BY TotalSnoc
  <2>4. Total(v \o front(0)) = a /\ Total(front(0)) = 0
    BY <2>1, <2>2, <2>3
  <2>5. a = a + 0 /\ 0 \in 0 .. N
    BY <2>2
  <2>6. QED
    BY <2>2, <2>4, <2>5
<1>3. ASSUME NEW n \in 1 .. N, n - 1 \in T PROVE n \in T
  <2>1. PICK s \in Seq(Nat), t \in Seq(Nat) : s = front(n - 1) /\ t = front(n)
    <3>1. \A k \in 0 .. N : front(k) \in Seq(Nat)
      BY <1>1
    <3>2. n - 1 \in 0 .. N /\ n \in 0 .. N
      OBVIOUS
    <3>3. QED
      BY <3>1, <3>2
  <2>2. PICK e \in Nat : e = w[n]
    BY <1>1
  <2>3. t = Append(s, e)
    BY <1>1, <2>1, <2>2
  <2>4. v \o t = Append(v \o s, e) /\ v \o s \in Seq(Nat)
    BY <2>3
  <2>5. PICK a \in Nat, b \in Nat, c \in Nat : a = Total(v) /\ b = Total(s) /\ c = Total(v \o s)
    BY <2>4, TotalSnoc
  <2>6. Total(t) = b + e /\ Total(v \o t) = c + e
    BY <2>3, <2>4, <2>5, TotalSnoc DEF AddPrice
  <2>7. c = a + b
    BY <1>3, <2>1, <2>5
  <2>8. c + e = a + (b + e)
    BY <2>7
  <2>9. QED
    BY <2>1, <2>5, <2>6, <2>8
<1> HIDE DEF T
<1>4. \A n \in 0 .. N : n \in T
  BY <1>2, <1>3, Induct
<1>5. N \in T
  BY <1>4
<1>6. front(N) = w
  BY <1>1
<1>7. QED
  BY <1>5, <1>6 DEF T

-----------------------------------------------------------------------------
(***************************************************************************)
(* The match of a sell against the lots takes the units bought first.      *)
(***************************************************************************)
Matches == [left : Nat, basis : Nat, lots : Seq(TaxLot)]

\* What a match has taken of the units, and what it has left of them and of the sell.
TakesFrom(units, quantity, match) ==
  \E front \in Seq(Nat) :
    /\ units = front \o OpenUnits(match.lots)
    /\ Len(front) + match.left = quantity
    /\ Total(front) = match.basis
    /\ match.left > 0 => match.lots = <<>>

\* Units and more units.
And(s, t) == s \o t

\* It does not matter where units are cut.
LEMMA Joined ==
  /\ \A s, t \in Seq(Nat) : And(s, t) \in Seq(Nat)
  /\ \A s, t, u \in Seq(Nat) : And(And(s, t), u) = And(s, And(t, u))
<1>1. ASSUME NEW s \in Seq(Nat), NEW t \in Seq(Nat) PROVE And(s, t) \in Seq(Nat)
  BY ConcatProperties DEF And
<1>2. ASSUME NEW s \in Seq(Nat), NEW t \in Seq(Nat), NEW u \in Seq(Nat)
      PROVE  And(And(s, t), u) = And(s, And(t, u))
  BY ConcatAssociative, SMTT(30) DEF And
<1>3. QED
  BY <1>1, <1>2

\* Taken units are in front of what stays open, wherever they are cut off.
LEMMA TakenFirst ==
  ASSUME NEW front \in Seq(Nat), NEW open \in Seq(Nat), NEW taken \in Seq(Nat),
         NEW kept \in Seq(Nat), And(open, taken) = And(taken, open)
  PROVE  And(And(front, open), And(taken, kept)) = And(And(front, taken), And(open, kept))
<1>1. And(front, open) \in Seq(Nat) /\ And(front, taken) \in Seq(Nat)
  BY Joined
<1>2. And(And(front, open), And(taken, kept)) = And(And(And(front, open), taken), kept)
  BY <1>1, Joined
<1>3. And(And(front, open), taken) = And(front, And(open, taken))
  BY Joined
<1>4. And(And(front, taken), And(open, kept)) = And(And(And(front, taken), open), kept)
  BY <1>1, Joined
<1>5. And(And(front, taken), open) = And(front, And(taken, open))
  BY Joined
<1>6. QED
  BY <1>2, <1>3, <1>4, <1>5

\* The least of two.
LEMMA MinOfTwo ==
  ASSUME NEW m \in Nat, NEW n \in Nat
  PROVE  Min({m, n}) = IF m <= n THEN m ELSE n
<1>1. PICK least \in {m, n} : \A y \in {m, n} : least <= y
  OBVIOUS
<1>2. PICK min : min = CHOOSE x \in {m, n} : \A y \in {m, n} : x <= y
  OBVIOUS
<1>3. min \in {m, n} /\ \A y \in {m, n} : min <= y
  BY <1>1, <1>2
<1>4. Min({m, n}) = min
  BY <1>2 DEF Min
<1>5. QED
  BY <1>3, <1>4

\* What is consumed of a lot, and what becomes of the match.
LEMMA ConsumeIs ==
  ASSUME NEW sell \in Matches, NEW lot \in TaxLot
  PROVE  /\ Consume(sell, lot) \in Matches
         /\ \E consumed \in Nat, rest \in Nat :
              /\ consumed + rest = lot.quantity
              /\ consumed <= sell.left /\ (rest > 0 => consumed = sell.left)
              /\ Consume(sell, lot).left = sell.left - consumed
              /\ Consume(sell, lot).basis = sell.basis + consumed * lot.price
              /\ rest = 0 => Consume(sell, lot).lots = sell.lots
              /\ rest > 0 => Consume(sell, lot).lots
                               = Append(sell.lots, [quantity |-> rest, price |-> lot.price])
<1>1. PICK q \in Nat \ {0}, p \in Nat :
        q = lot.quantity /\ p = lot.price /\ lot = [quantity |-> q, price |-> p]
  <2>1. lot.quantity \in Nat \ {0} /\ lot.price \in Nat
    BY LotIs
  <2>2. lot = [quantity |-> lot.quantity, price |-> lot.price]
    BY DEF TaxLot
  <2>3. QED
    BY <2>1, <2>2
<1>2. PICK left \in Nat, basis \in Nat, lots \in Seq(TaxLot) :
        left = sell.left /\ basis = sell.basis /\ lots = sell.lots
  BY DEF Matches
<1>3. PICK consumed \in Nat :
        consumed = Min({q, left}) /\ consumed = IF q <= left THEN q ELSE left
  BY MinOfTwo
<1>4. PICK rest \in Nat : rest = q - consumed
  BY <1>3
<1>5. consumed <= left /\ (rest > 0 => consumed = left) /\ (rest = 0 <=> consumed = q)
  BY <1>3, <1>4
<1>6. PICK now : now = [quantity |-> rest, price |-> p]
  OBVIOUS
<1>7. [lot EXCEPT !.quantity = @ - consumed] = now
  BY <1>1, <1>4, <1>6
<1>8. Consume(sell, lot)
        = [left |-> left - consumed, basis |-> basis + consumed * p,
           lots |-> IF rest = 0 THEN lots ELSE Append(lots, now)]
  BY <1>1, <1>2, <1>3, <1>5, <1>7 DEF Consume
<1>9. rest > 0 => Append(lots, now) \in Seq(TaxLot)
  <2>1. rest > 0 => now \in TaxLot
    BY <1>6 DEF TaxLot
  <2>2. QED
    BY <2>1
<1>10. left - consumed \in Nat /\ basis + consumed * p \in Nat
  <2>1. consumed * p \in Nat
    BY TimesIs
  <2>2. QED
    BY <1>5, <2>1
<1>11. Consume(sell, lot) \in Matches
  BY <1>8, <1>9, <1>10 DEF Matches
<1>12. consumed + rest = q
  BY <1>4
<1>13. PICK next : next = Consume(sell, lot)
  OBVIOUS
<1>14. /\ next.left = left - consumed
       /\ next.basis = basis + consumed * p
       /\ next.lots = IF rest = 0 THEN lots ELSE Append(lots, now)
  BY <1>8, <1>13
<1>15. /\ rest = 0 => next.lots = lots
       /\ rest > 0 => next.lots = Append(lots, [quantity |-> rest, price |-> p])
  BY <1>6, <1>14
<1>16. QED
  BY <1>1, <1>2, <1>5, <1>11, <1>12, <1>13, <1>14, <1>15

\* One lot more is matched.
LEMMA OneLotMore ==
  ASSUME NEW units \in Seq(Nat), NEW quantity \in Nat, NEW sell \in Matches, NEW lot \in TaxLot,
         TakesFrom(units, quantity, sell)
  PROVE  TakesFrom(AddUnits(units, lot), quantity, Consume(sell, lot))
<1>1. PICK next \in Matches : next = Consume(sell, lot)
  BY ConsumeIs
<1>2. PICK q \in Nat \ {0}, p \in Nat :
        q = lot.quantity /\ p = lot.price /\ lot = [quantity |-> q, price |-> p]
  <2>1. lot.quantity \in Nat \ {0} /\ lot.price \in Nat
    BY LotIs
  <2>2. lot = [quantity |-> lot.quantity, price |-> lot.price]
    BY DEF TaxLot
  <2>3. QED
    BY <2>1, <2>2
<1>3. PICK consumed \in Nat, rest \in Nat :
        /\ consumed + rest = q
        /\ consumed <= sell.left /\ (rest > 0 => consumed = sell.left)
        /\ next.left = sell.left - consumed
        /\ next.basis = sell.basis + consumed * p
        /\ rest = 0 => next.lots = sell.lots
        /\ rest > 0 => next.lots = Append(sell.lots, [quantity |-> rest, price |-> p])
  BY <1>1, <1>2, ConsumeIs, ZenonT(40)
<1>4. PICK front \in Seq(Nat) :
        /\ units = front \o OpenUnits(sell.lots)
        /\ Len(front) + sell.left = quantity
        /\ Total(front) = sell.basis
        /\ sell.left > 0 => sell.lots = <<>>
  BY DEF TakesFrom
<1>5. PICK left \in Nat, basis \in Nat, lots \in Seq(TaxLot) :
        left = sell.left /\ basis = sell.basis /\ lots = sell.lots
  BY DEF Matches
<1>6. PICK open \in Seq(Nat) : open = OpenUnits(lots)
  BY OpenUnitsSnoc
<1>7. PICK s \in Seq(Nat), taken \in Seq(Nat), kept \in Seq(Nat) :
        /\ s = Same(q, p) /\ taken = Same(consumed, p) /\ kept = Same(rest, p)
        /\ Len(taken) = consumed
  BY SameIs
<1>8. s = taken \o kept
  <2>1. consumed \in 0 .. q /\ q - consumed = rest
    BY <1>3
  <2>2. QED
    BY <1>7, <2>1, SameSplits, ZenonT(40)
<1>9. AddUnits(units, lot) = units \o s
  BY <1>2, <1>7, AddUnitsIs
<1>10. PICK both : both = open \o taken /\ both = taken \o open
  <2>1. CASE consumed = 0
    <3>1. taken = <<>>
      BY <1>7, <2>1
    <3>2. QED
      BY <3>1, ConcatEmptySeq
  <2>2. CASE consumed # 0
    <3>1. lots = <<>>
      <4>1. left > 0
        BY <1>3, <1>5, <2>2, SMTT(30)
      <4>2. QED
        BY <1>4, <1>5, <4>1
    <3>2. open = <<>>
      BY <1>6, <3>1, OpenUnitsSnoc
    <3>3. QED
      BY <3>2, ConcatEmptySeq
  <2>3. QED
    BY <2>1, <2>2
<1>11. OpenUnits(next.lots) = open \o kept
  <2>1. CASE rest = 0
    <3>1. kept = <<>>
      BY <1>7, <2>1, SameIs
    <3>2. QED
      BY <1>3, <1>5, <1>6, <2>1, <3>1, ConcatEmptySeq
  <2>2. CASE rest # 0
    <3>1. PICK now \in TaxLot : now = [quantity |-> rest, price |-> p]
      BY <2>2 DEF TaxLot
    <3>2. next.lots = Append(lots, now)
      BY <1>3, <1>5, <2>2, <3>1
    <3>3. OpenUnits(next.lots) = AddUnits(open, now)
      BY <1>6, <3>2, OpenUnitsSnoc
    <3>4. now.quantity = rest /\ now.price = p
      BY <3>1
    <3>5. QED
      BY <1>7, <3>3, <3>4, AddUnitsIs
  <2>3. QED
    BY <2>1, <2>2
<1>12. PICK gone \in Seq(Nat) : gone = front \o taken
  BY ConcatProperties
<1>13. AddUnits(units, lot) = gone \o OpenUnits(next.lots)
  <2>1. AddUnits(units, lot) = And(units, s)
    BY <1>9 DEF And
  <2>2. units = And(front, open)
    BY <1>4, <1>5, <1>6 DEF And
  <2>3. s = And(taken, kept) /\ gone = And(front, taken)
    BY <1>8, <1>12 DEF And
  <2>4. And(open, taken) = And(taken, open)
    BY <1>10 DEF And
  <2>5. AddUnits(units, lot) = And(gone, And(open, kept))
    BY <2>1, <2>2, <2>3, <2>4, TakenFirst
  <2>6. QED
    BY <1>11, <2>5 DEF And
<1>14. Len(gone) + next.left = quantity
  <2>1. Len(gone) = Len(front) + consumed
    BY <1>7, <1>12, ConcatProperties, ZenonT(40)
  <2>2. PICK m \in Nat : m = Len(front)
    OBVIOUS
  <2>3. PICK k \in Nat : k = next.left
    BY DEF Matches
  <2>4. k = left - consumed /\ m + left = quantity /\ consumed <= left
    BY <1>3, <1>4, <1>5, <2>2, <2>3
  <2>5. (m + consumed) + k = quantity
    BY <2>4
  <2>6. QED
    BY <2>1, <2>2, <2>3, <2>5
<1>15. Total(gone) = next.basis
  <2>1. Total(gone) = Total(front) + consumed * p
    BY <1>7, <1>12, TotalOfSame
  <2>2. QED
    BY <1>3, <1>4, <2>1
<1>16. next.left > 0 => next.lots = <<>>
  <2>1. PICK k \in Nat : k = next.left
    BY DEF Matches
  <2>2. k = left - consumed /\ consumed <= left /\ (rest > 0 => consumed = left)
    BY <1>3, <1>5, <2>1
  <2>3. k > 0 => left > 0 /\ rest = 0
    BY <2>2
  <2>4. left > 0 => lots = <<>>
    BY <1>4, <1>5
  <2>5. rest = 0 => next.lots = lots
    BY <1>3, <1>5
  <2>6. QED
    BY <2>1, <2>3, <2>4, <2>5
<1>17. QED
  BY <1>1, <1>13, <1>14, <1>15, <1>16 DEF TakesFrom

\* The match goes through the lots, the one bought first first.
LEMMA MatchRuns ==
  ASSUME NEW w \in Seq(TaxLot),
         NEW quantity \in Nat
  PROVE  \E f \in [0 .. Len(w) -> Matches] :
           /\ f[0] = [left |-> quantity, basis |-> 0, lots |-> <<>>]
           /\ Match(w, quantity) = f[Len(w)]
           /\ \A n \in 1 .. Len(w) : f[n] = Consume(f[n - 1], w[n])
<1> DEFINE Op(x, e) == Consume(x, e)
<1>1. PICK N \in Nat : N = Len(w) /\ DOMAIN w = 1 .. N
  OBVIOUS
<1>2. ASSUME NEW n \in 1 .. N, NEW x \in Matches PROVE Op(x, w[n]) \in Matches
  BY <1>1, ConsumeIs
<1> DEFINE step == [p \in Matches \X (1 .. N) |-> Op(p[1], w[p[2]])]
<1>3. step \in [Matches \X (1 .. N) -> Matches]
  BY <1>2
<1>4. \A x \in Matches, n \in 1 .. N : step[<<x, n>>] = Op(x, w[n])
  OBVIOUS
<1>5. PICK base \in Matches : base = [left |-> quantity, basis |-> 0, lots |-> <<>>]
  <2>1. <<>> \in Seq(TaxLot)
    OBVIOUS
  <2>2. QED
    BY <2>1 DEF Matches
<1> HIDE DEF step
<1>6. PICK g \in [SUBSET (1 .. N) -> Matches] : FoldsBy(base, step, N, g)
  BY <1>3, FoldExists
<1>7. IsFold(Op, base, w, g)
  <2>1. ASSUME NEW s \in SUBSET (1 .. N), s # {}
        PROVE  g[s] = Op(g[s \ {Max(s)}], w[Max(s)])
    <3>1. Max(s) \in 1 .. N /\ g[s \ {Max(s)}] \in Matches
      BY <2>1, MaxIsIn
    <3>2. g[s] = step[<<g[s \ {Max(s)}], Max(s)>>]
      BY <2>1, <1>6 DEF FoldsBy
    <3>3. QED
      BY <1>4, <3>1, <3>2
  <2>2. g[{}] = base
    BY <1>6 DEF FoldsBy
  <2>3. QED
    BY <1>1, <2>1, <2>2 DEF IsFold, FoldStep
<1>8. PICK h : h = CHOOSE y : IsFold(Op, base, w, y)
  OBVIOUS
<1>9. IsFold(Op, base, w, h)
  BY <1>7, <1>8
<1>10. Match(w, quantity) = h[1 .. N]
  BY <1>1, <1>5, <1>8 DEF Match, FoldLeft, MapThenFoldSet, IsFold, FoldStep
<1>11. ASSUME NEW s \in SUBSET (1 .. N)
       PROVE  h[s] = IF s = {} THEN base ELSE Op(h[s \ {Max(s)}], w[Max(s)])
  BY <1>1, <1>9 DEF IsFold, FoldStep
<1>12. Unfolds(Matches, base, step, N, h)
  BY <1>4, <1>11, MaxIsIn DEF Unfolds
<1>13. RunsTo(Matches, base, step, N, h[1 .. N])
  BY <1>3, <1>12, UnfoldedRuns
<1>14. PICK f \in [0 .. N -> Matches] :
         /\ f[0] = base /\ h[1 .. N] = f[N]
         /\ \A n \in 1 .. N : f[n] = step[<<f[n - 1], n>>]
  BY <1>13 DEF RunsTo
<1>15. ASSUME NEW n \in 1 .. N PROVE f[n] = Op(f[n - 1], w[n])
  <2>1. f[n - 1] \in Matches
    BY <1>14
  <2>2. QED
    BY <1>4, <1>14, <2>1
<1>16. QED
  BY <1>1, <1>5, <1>10, <1>14, <1>15

\* A sell takes the units bought first, and all of them before any of it is left.
LEMMA MatchTakes ==
  ASSUME NEW lots \in Seq(TaxLot), NEW quantity \in Nat
  PROVE  /\ Match(lots, quantity) \in Matches
         /\ TakesFrom(OpenUnits(lots), quantity, Match(lots, quantity))
<1>1. PICK N \in Nat : N = Len(lots)
  OBVIOUS
<1>2. PICK f \in [0 .. N -> Seq(Nat)] :
        /\ f[0] = <<>> /\ OpenUnits(lots) = f[N]
        /\ \A n \in 1 .. N : f[n] = AddUnits(f[n - 1], lots[n])
  BY <1>1, OpenUnitsRun
<1>3. PICK g \in [0 .. N -> Matches] :
        /\ g[0] = [left |-> quantity, basis |-> 0, lots |-> <<>>]
        /\ Match(lots, quantity) = g[N]
        /\ \A n \in 1 .. N : g[n] = Consume(g[n - 1], lots[n])
  BY <1>1, MatchRuns
<1> DEFINE T == {n \in 0 .. N : TakesFrom(f[n], quantity, g[n])}
<1>4. 0 \in T
  <2>1. PICK none \in Seq(Nat) : none = <<>>
    <3>1. <<>> \in Seq(Nat)
      OBVIOUS
    <3>2. QED
      BY <3>1
  <2>2. OpenUnits(<<>>) = <<>> /\ Total(<<>>) = 0
    BY OpenUnitsSnoc, TotalSnoc
  <2>3. none \o none = none /\ Len(none) = 0
    BY <2>1
  <2>4. PICK match : match = g[0]
    OBVIOUS
  <2>5. match.left = quantity /\ match.basis = 0 /\ match.lots = <<>>
    BY <1>3, <2>4
  <2>6. /\ none = none \o OpenUnits(match.lots)
        /\ Len(none) + match.left = quantity
        /\ Total(none) = match.basis
    BY <2>1, <2>2, <2>3, <2>5
  <2>7. TakesFrom(none, quantity, match)
    BY <2>5, <2>6 DEF TakesFrom
  <2>8. QED
    BY <1>2, <2>1, <2>4, <2>7
<1>5. ASSUME NEW n \in 1 .. N, n - 1 \in T PROVE n \in T
  <2>1. f[n - 1] \in Seq(Nat) /\ g[n - 1] \in Matches /\ lots[n] \in TaxLot
    <3>1. n - 1 \in 0 .. N /\ n \in 1 .. Len(lots)
      BY <1>1
    <3>2. QED
      BY <3>1
  <2>2. f[n] = AddUnits(f[n - 1], lots[n]) /\ g[n] = Consume(g[n - 1], lots[n])
    BY <1>2, <1>3
  <2>3. TakesFrom(f[n - 1], quantity, g[n - 1])
    BY <1>5
  <2>4. TakesFrom(f[n], quantity, g[n])
    BY <2>1, <2>2, <2>3, OneLotMore
  <2>5. QED
    BY <2>4
<1> HIDE DEF T
<1>6. \A n \in 0 .. N : n \in T
  BY <1>4, <1>5, Induct
<1>7. N \in T
  BY <1>6
<1>8. QED
  BY <1>2, <1>3, <1>7 DEF T

-----------------------------------------------------------------------------
(***************************************************************************)
(* The books over a history.                                               *)
(***************************************************************************)
Books ==
  [lots : [Assets -> Seq(TaxLot)], disposed : [Assets -> Nat], realized : [Assets -> Int],
   unmatched : [Assets -> Nat]]

\* What an execution holds.
LEMMA FillIs ==
  ASSUME NEW fill \in Fill
  PROVE  /\ fill.asset \in Assets /\ fill.side \in {"buy", "sell"} /\ fill.dated \in BOOLEAN
         /\ fill.quantity \in Nat \ {0} /\ fill.price \in Nat
         /\ Lot(fill) \in TaxLot
         /\ Lot(fill).quantity = fill.quantity /\ Lot(fill).price = fill.price
BY DEF Fill, Lot, TaxLot

\* A buy puts its lot behind the others of its asset.
LEMMA BuyIs ==
  ASSUME NEW books \in Books, NEW fill \in Fill
  PROVE  /\ Buy(books, fill) \in Books
         /\ Buy(books, fill).disposed = books.disposed
         /\ Buy(books, fill).realized = books.realized
         /\ Buy(books, fill).unmatched = books.unmatched
         /\ \A a \in Assets \ {fill.asset} : Buy(books, fill).lots[a] = books.lots[a]
         /\ Buy(books, fill).lots[fill.asset] = Append(books.lots[fill.asset], Lot(fill))
<1>1. PICK lots \in [Assets -> Seq(TaxLot)] : lots = books.lots
  BY DEF Books
<1>2. fill.asset \in Assets /\ Lot(fill) \in TaxLot
  BY FillIs
<1>3. PICK behind \in Seq(TaxLot) : behind = Append(lots[fill.asset], Lot(fill))
  <2>1. lots[fill.asset] \in Seq(TaxLot)
    BY <1>2
  <2>2. QED
    BY <1>2, <2>1, AppendProperties
<1>4. PICK now \in [Assets -> Seq(TaxLot)] : now = [lots EXCEPT ![fill.asset] = behind]
  OBVIOUS
<1>5. Buy(books, fill) = [books EXCEPT !.lots = now]
  BY <1>1, <1>3, <1>4 DEF Buy, PutBehind, Books
<1>6. /\ \A a \in Assets \ {fill.asset} : now[a] = books.lots[a]
      /\ now[fill.asset] = behind
  BY <1>1, <1>2, <1>4
<1>7. PICK next : next = [books EXCEPT !.lots = now]
  OBVIOUS
<1>8. /\ next \in Books /\ next.lots = now /\ next.disposed = books.disposed
      /\ next.realized = books.realized /\ next.unmatched = books.unmatched
  BY <1>7 DEF Books
<1>9. QED
  BY <1>1, <1>3, <1>5, <1>6, <1>7, <1>8

\* A sell takes these units, the ones bought first, and so much of it finds no lot.
Takes(books, next, fill, a, front, left) ==
  /\ OpenUnits(books.lots[a]) = front \o OpenUnits(next.lots[a])
  /\ Len(front) + left = fill.quantity
  /\ left > 0 => next.lots[a] = <<>>
  /\ next.disposed[a] = books.disposed[a] + Len(front)
  /\ next.realized[a] = books.realized[a] + Len(front) * fill.price - Total(front)
  /\ next.unmatched[a] = books.unmatched[a] + left

\* A sell takes units of its own asset only.
LEMMA SellIs ==
  ASSUME NEW books \in Books, NEW fill \in Fill
  PROVE  /\ Sell(books, fill) \in Books
         /\ \A a \in Assets \ {fill.asset} :
              /\ Sell(books, fill).lots[a] = books.lots[a]
              /\ Sell(books, fill).disposed[a] = books.disposed[a]
              /\ Sell(books, fill).realized[a] = books.realized[a]
              /\ Sell(books, fill).unmatched[a] = books.unmatched[a]
         /\ \E front \in Seq(Nat), left \in Nat :
              Takes(books, Sell(books, fill), fill, fill.asset, front, left)
<1>1. PICK asset : asset = fill.asset
  OBVIOUS
<1>2. PICK lots \in [Assets -> Seq(TaxLot)], disposed \in [Assets -> Nat],
           realized \in [Assets -> Int], unmatched \in [Assets -> Nat] :
        /\ lots = books.lots /\ disposed = books.disposed /\ realized = books.realized
        /\ unmatched = books.unmatched
        /\ books = [lots |-> lots, disposed |-> disposed, realized |-> realized,
                    unmatched |-> unmatched]
  BY DEF Books
<1>3. PICK q \in Nat, p \in Nat : q = fill.quantity /\ p = fill.price /\ asset \in Assets
  BY <1>1, FillIs
<1>4. lots[asset] \in Seq(TaxLot)
  BY <1>2, <1>3
<1>5. PICK match \in Matches :
        match = Match(lots[asset], q) /\ TakesFrom(OpenUnits(lots[asset]), q, match)
  BY <1>4, MatchTakes
<1>6. PICK front \in Seq(Nat) :
        /\ OpenUnits(lots[asset]) = front \o OpenUnits(match.lots)
        /\ Len(front) + match.left = q
        /\ Total(front) = match.basis
        /\ match.left > 0 => match.lots = <<>>
  BY <1>5 DEF TakesFrom
<1>7. PICK left \in Nat, basis \in Nat, kept \in Seq(TaxLot) :
        left = match.left /\ basis = match.basis /\ kept = match.lots
  BY DEF Matches
<1>8. PICK consumed \in Nat : consumed = Len(front) /\ consumed = q - left
  BY <1>6, <1>7
<1>9. PICK gain \in Int : gain = realized[asset] + consumed * p - basis
  <2>1. consumed * p \in Nat
    BY TimesIs
  <2>2. realized[asset] \in Int
    BY <1>3
  <2>3. realized[asset] + consumed * p - basis \in Int
    BY <2>1, <2>2
  <2>4. QED
    BY <2>3
<1>10. PICK gone \in Nat, missed \in Nat :
        gone = disposed[asset] + consumed /\ missed = unmatched[asset] + left
  <2>1. disposed[asset] \in Nat /\ unmatched[asset] \in Nat
    BY <1>3
  <2>2. disposed[asset] + consumed \in Nat /\ unmatched[asset] + left \in Nat
    BY <2>1
  <2>3. QED
    BY <2>2
<1>11. PICK next :
         next = [lots      |-> [lots EXCEPT ![asset] = kept],
                 disposed  |-> [disposed EXCEPT ![asset] = gone],
                 realized  |-> [realized EXCEPT ![asset] = gain],
                 unmatched |-> [unmatched EXCEPT ![asset] = missed]]
  OBVIOUS
<1>12. Sell(books, fill) = next
  <2>1. PICK m : m = Match(books.lots[fill.asset], fill.quantity)
    OBVIOUS
  <2>2. m = match
    BY <1>2, <1>3, <1>5, <1>1, <2>1
  <2>3. fill.quantity - m.left = consumed
    BY <1>3, <1>7, <1>8, <2>2
  <2>4. Sell(books, fill)
          = [books EXCEPT !.lots[fill.asset] = m.lots,
                          !.disposed[fill.asset] = @ + consumed,
                          !.realized[fill.asset] = @ + consumed * fill.price - m.basis,
                          !.unmatched[fill.asset] = @ + m.left]
    BY <2>1, <2>3 DEF Sell
  <2>5. Sell(books, fill)
          = [books EXCEPT !.lots[asset] = kept,
                          !.disposed[asset] = @ + consumed,
                          !.realized[asset] = @ + consumed * p - basis,
                          !.unmatched[asset] = @ + left]
    BY <1>3, <1>7, <1>1, <2>2, <2>4
  <2>6. QED
    BY <1>2, <1>9, <1>10, <1>11, <2>5
<1>13. /\ next.lots \in [Assets -> Seq(TaxLot)] /\ next.disposed \in [Assets -> Nat]
       /\ next.realized \in [Assets -> Int] /\ next.unmatched \in [Assets -> Nat]
  BY <1>11
<1>14. next \in Books
  BY <1>11, <1>13 DEF Books
<1>15. \A a \in Assets \ {asset} :
         /\ next.lots[a] = lots[a] /\ next.disposed[a] = disposed[a]
         /\ next.realized[a] = realized[a] /\ next.unmatched[a] = unmatched[a]
  BY <1>11
<1>16. /\ next.lots[asset] = kept /\ next.disposed[asset] = gone
       /\ next.realized[asset] = gain /\ next.unmatched[asset] = missed
  BY <1>3, <1>11
<1>17. /\ OpenUnits(lots[asset]) = front \o OpenUnits(next.lots[asset])
       /\ Len(front) + left = q
       /\ left > 0 => next.lots[asset] = <<>>
       /\ next.disposed[asset] = disposed[asset] + Len(front)
       /\ next.realized[asset] = realized[asset] + Len(front) * p - Total(front)
       /\ next.unmatched[asset] = unmatched[asset] + left
  BY <1>6, <1>7, <1>8, <1>9, <1>10, <1>16
<1>18. \A a \in Assets \ {asset} :
         /\ next.lots[a] = books.lots[a] /\ next.disposed[a] = books.disposed[a]
         /\ next.realized[a] = books.realized[a] /\ next.unmatched[a] = books.unmatched[a]
  BY <1>2, <1>15
<1>19. Takes(books, next, fill, asset, front, left)
  <2>1. /\ OpenUnits(books.lots[asset]) = front \o OpenUnits(next.lots[asset])
        /\ Len(front) + left = fill.quantity
        /\ left > 0 => next.lots[asset] = <<>>
        /\ next.disposed[asset] = books.disposed[asset] + Len(front)
        /\ next.realized[asset] = books.realized[asset] + Len(front) * fill.price - Total(front)
        /\ next.unmatched[asset] = books.unmatched[asset] + left
    BY <1>2, <1>3, <1>17
  <2>2. QED
    BY <2>1 DEF Takes
<1>20. QED
  BY <1>12, <1>14, <1>18, <1>19, <1>1

\* An execution is booked.
LEMMA BookIs ==
  ASSUME NEW books \in Books, NEW fill \in Fill
  PROVE  Book(books, fill) \in Books
<1>1. Buy(books, fill) \in Books
  BY BuyIs
<1>2. Sell(books, fill) \in Books
  BY SellIs
<1>3. QED
  BY <1>1, <1>2 DEF Book

\* Before the first execution.
LEMMA EmptyBooksAre == EmptyBooks \in Books
<1>1. [a \in Assets |-> <<>>] \in [Assets -> Seq(TaxLot)]
  OBVIOUS
<1>2. Nil \in [Assets -> Nat] /\ Nil \in [Assets -> Int]
  BY DEF Nil
<1>3. QED
  BY <1>1, <1>2 DEF EmptyBooks, Books

\* The books go through the history.
LEMMA BooksRun ==
  ASSUME NEW w \in Seq(Fill)
  PROVE  \E f \in [0 .. Len(w) -> Books] :
           /\ f[0] = EmptyBooks /\ computeCostBasis(w) = f[Len(w)]
           /\ \A n \in 1 .. Len(w) : f[n] = Book(f[n - 1], w[n])
<1> DEFINE Op(x, e) == Book(x, e)
<1>1. PICK N \in Nat : N = Len(w) /\ DOMAIN w = 1 .. N
  OBVIOUS
<1>2. ASSUME NEW n \in 1 .. N, NEW x \in Books PROVE Op(x, w[n]) \in Books
  BY <1>1, BookIs
<1> DEFINE step == [p \in Books \X (1 .. N) |-> Op(p[1], w[p[2]])]
<1>3. step \in [Books \X (1 .. N) -> Books]
  BY <1>2
<1>4. \A x \in Books, n \in 1 .. N : step[<<x, n>>] = Op(x, w[n])
  OBVIOUS
<1>5. PICK base \in Books : base = EmptyBooks
  BY EmptyBooksAre
<1> HIDE DEF step
<1>6. PICK g \in [SUBSET (1 .. N) -> Books] : FoldsBy(base, step, N, g)
  BY <1>3, FoldExists
<1>7. IsFold(Op, base, w, g)
  <2>1. ASSUME NEW s \in SUBSET (1 .. N), s # {}
        PROVE  g[s] = Op(g[s \ {Max(s)}], w[Max(s)])
    <3>1. Max(s) \in 1 .. N /\ g[s \ {Max(s)}] \in Books
      BY <2>1, MaxIsIn
    <3>2. g[s] = step[<<g[s \ {Max(s)}], Max(s)>>]
      BY <2>1, <1>6 DEF FoldsBy
    <3>3. QED
      BY <1>4, <3>1, <3>2
  <2>2. g[{}] = base
    BY <1>6 DEF FoldsBy
  <2>3. QED
    BY <1>1, <2>1, <2>2 DEF IsFold, FoldStep
<1>8. PICK h : h = CHOOSE y : IsFold(Op, base, w, y)
  OBVIOUS
<1>9. IsFold(Op, base, w, h)
  BY <1>7, <1>8
<1>10. computeCostBasis(w) = h[1 .. N]
  BY <1>1, <1>5, <1>8 DEF computeCostBasis, FoldLeft, MapThenFoldSet, IsFold, FoldStep
<1>11. ASSUME NEW s \in SUBSET (1 .. N)
       PROVE  h[s] = IF s = {} THEN base ELSE Op(h[s \ {Max(s)}], w[Max(s)])
  BY <1>1, <1>9 DEF IsFold, FoldStep
<1>12. Unfolds(Books, base, step, N, h)
  BY <1>4, <1>11, MaxIsIn DEF Unfolds
<1>13. RunsTo(Books, base, step, N, h[1 .. N])
  BY <1>3, <1>12, UnfoldedRuns
<1>14. PICK f \in [0 .. N -> Books] :
         /\ f[0] = base /\ h[1 .. N] = f[N]
         /\ \A n \in 1 .. N : f[n] = step[<<f[n - 1], n>>]
  BY <1>13 DEF RunsTo
<1>15. ASSUME NEW n \in 1 .. N PROVE f[n] = Op(f[n - 1], w[n])
  <2>1. f[n - 1] \in Books
    BY <1>14
  <2>2. QED
    BY <1>4, <1>14, <2>1
<1>16. QED
  BY <1>1, <1>5, <1>10, <1>14, <1>15

\* The units of an asset bought, or sold, are those of its executions.
LEMMA UnitsOfIs ==
  ASSUME NEW units \in Seq(Nat), NEW fill \in Fill, NEW asset, NEW side
  PROVE  UnitsOf(asset, side, units, fill) \in Seq(Nat)
BY FillIs, AddUnitsIs DEF UnitsOf

\* Units grow from none, execution by execution.
UnitsGoOn(w, asset, side, N) ==
  \E f \in [0 .. N -> Seq(Nat)] :
    /\ f[0] = <<>> /\ Units(w, asset, side) = f[N]
    /\ \A n \in 1 .. N : f[n] = UnitsOf(asset, side, f[n - 1], w[n])

\* The units go through the history.
LEMMA UnitsRun ==
  ASSUME NEW w \in Seq(Fill),
         NEW asset,
         NEW side
  PROVE  UnitsGoOn(w, asset, side, Len(w))
<1> DEFINE Op(x, e) == UnitsOf(asset, side, x, e)
<1>1. PICK N \in Nat : N = Len(w) /\ DOMAIN w = 1 .. N
  OBVIOUS
<1>2. ASSUME NEW n \in 1 .. N, NEW x \in Seq(Nat) PROVE Op(x, w[n]) \in Seq(Nat)
  BY <1>1, UnitsOfIs
<1> DEFINE step == [p \in Seq(Nat) \X (1 .. N) |-> Op(p[1], w[p[2]])]
<1>3. step \in [Seq(Nat) \X (1 .. N) -> Seq(Nat)]
  BY <1>2
<1>4. \A x \in Seq(Nat), n \in 1 .. N : step[<<x, n>>] = Op(x, w[n])
  OBVIOUS
<1>5. PICK base \in Seq(Nat) : base = <<>>
  <2>1. <<>> \in Seq(Nat)
    OBVIOUS
  <2>2. QED
    BY <2>1
<1> HIDE DEF step
<1>6. PICK g \in [SUBSET (1 .. N) -> Seq(Nat)] : FoldsBy(base, step, N, g)
  BY <1>3, FoldExists
<1>7. IsFold(Op, base, w, g)
  <2>1. ASSUME NEW s \in SUBSET (1 .. N), s # {}
        PROVE  g[s] = Op(g[s \ {Max(s)}], w[Max(s)])
    <3>1. Max(s) \in 1 .. N /\ g[s \ {Max(s)}] \in Seq(Nat)
      BY <2>1, MaxIsIn
    <3>2. g[s] = step[<<g[s \ {Max(s)}], Max(s)>>]
      BY <2>1, <1>6 DEF FoldsBy
    <3>3. QED
      BY <1>4, <3>1, <3>2
  <2>2. g[{}] = base
    BY <1>6 DEF FoldsBy
  <2>3. QED
    BY <1>1, <2>1, <2>2 DEF IsFold, FoldStep
<1>8. PICK h : h = CHOOSE y : IsFold(Op, base, w, y)
  OBVIOUS
<1>9. IsFold(Op, base, w, h)
  BY <1>7, <1>8
<1>10. Units(w, asset, side) = h[1 .. N]
  BY <1>1, <1>5, <1>8 DEF Units, FoldLeft, MapThenFoldSet, IsFold, FoldStep
<1>11. ASSUME NEW s \in SUBSET (1 .. N)
       PROVE  h[s] = IF s = {} THEN base ELSE Op(h[s \ {Max(s)}], w[Max(s)])
  BY <1>1, <1>9 DEF IsFold, FoldStep
<1>12. Unfolds(Seq(Nat), base, step, N, h)
  BY <1>4, <1>11, MaxIsIn DEF Unfolds
<1>13. RunsTo(Seq(Nat), base, step, N, h[1 .. N])
  BY <1>3, <1>12, UnfoldedRuns
<1>14. PICK f \in [0 .. N -> Seq(Nat)] :
         /\ f[0] = base /\ h[1 .. N] = f[N]
         /\ \A n \in 1 .. N : f[n] = step[<<f[n - 1], n>>]
  BY <1>13 DEF RunsTo
<1>15. ASSUME NEW n \in 1 .. N PROVE f[n] = Op(f[n - 1], w[n])
  <2>1. f[n - 1] \in Seq(Nat)
    BY <1>14
  <2>2. QED
    BY <1>4, <1>14, <2>1
<1>16. QED
  BY <1>1, <1>5, <1>10, <1>14, <1>15 DEF UnitsGoOn

\* The units of an asset so far: those disposed of are the ones bought first, the open lots
\* are the others, and each unit sold was disposed of or had no lot.
Fifo(a, bought, sold, books) ==
  \E head \in Seq(Nat) :
    /\ bought = head \o OpenUnits(books.lots[a])
    /\ Len(head) = books.disposed[a]
    /\ books.disposed[a] + books.unmatched[a] = Len(sold)
    /\ books.unmatched[a] = 0 => books.realized[a] = Total(sold) - Total(head)

\* What the books of an asset hold.
LEMMA BookOf ==
  ASSUME NEW books \in Books, NEW a \in Assets
  PROVE  /\ books.lots[a] \in Seq(TaxLot) /\ books.disposed[a] \in Nat
         /\ books.realized[a] \in Int /\ books.unmatched[a] \in Nat
         /\ OpenUnits(books.lots[a]) \in Seq(Nat)
<1>1. /\ books.lots \in [Assets -> Seq(TaxLot)] /\ books.disposed \in [Assets -> Nat]
      /\ books.realized \in [Assets -> Int] /\ books.unmatched \in [Assets -> Nat]
  BY DEF Books
<1>2. books.lots[a] \in Seq(TaxLot)
  BY <1>1
<1>3. QED
  BY <1>1, <1>2, OpenUnitsSnoc

\* A buy keeps it.
LEMMA FifoBuy ==
  ASSUME NEW a \in Assets, NEW bought \in Seq(Nat), NEW sold \in Seq(Nat), NEW books \in Books,
         NEW fill \in Fill, fill.asset = a, fill.side = "buy", Fifo(a, bought, sold, books)
  PROVE  Fifo(a, AddUnits(bought, fill), sold, Buy(books, fill))
<1>1. PICK next \in Books : next = Buy(books, fill)
  BY BuyIs
<1>2. /\ next.disposed = books.disposed /\ next.realized = books.realized
      /\ next.unmatched = books.unmatched
      /\ next.lots[a] = Append(books.lots[a], Lot(fill))
  BY <1>1, BuyIs
<1>3. PICK head \in Seq(Nat) :
        /\ bought = head \o OpenUnits(books.lots[a])
        /\ Len(head) = books.disposed[a]
        /\ books.disposed[a] + books.unmatched[a] = Len(sold)
        /\ books.unmatched[a] = 0 => books.realized[a] = Total(sold) - Total(head)
  BY DEF Fifo
<1>4. PICK open \in Seq(Nat) : open = OpenUnits(books.lots[a])
  BY BookOf
<1>5. PICK s \in Seq(Nat) : s = Same(fill.quantity, fill.price)
  BY FillIs, SameIs
<1>6. AddUnits(bought, fill) = And(bought, s)
  BY <1>5, FillIs, AddUnitsIs DEF And
<1>7. OpenUnits(next.lots[a]) = And(open, s)
  <2>1. OpenUnits(next.lots[a]) = AddUnits(open, Lot(fill))
    BY <1>2, <1>4, BookOf, FillIs, OpenUnitsSnoc
  <2>2. QED
    BY <1>5, <2>1, FillIs, AddUnitsIs, ZenonT(40) DEF And
<1>8. bought = And(head, open)
  BY <1>3, <1>4 DEF And
<1>9. AddUnits(bought, fill) = And(head, And(open, s))
  BY <1>6, <1>8, Joined
<1>10. AddUnits(bought, fill) = head \o OpenUnits(next.lots[a])
  BY <1>7, <1>9 DEF And
<1>11. QED
  BY <1>1, <1>2, <1>3, <1>10 DEF Fifo

\* A sell keeps it.
LEMMA FifoSell ==
  ASSUME NEW a \in Assets, NEW bought \in Seq(Nat), NEW sold \in Seq(Nat), NEW books \in Books,
         NEW fill \in Fill, fill.asset = a, Fifo(a, bought, sold, books)
  PROVE  Fifo(a, bought, AddUnits(sold, fill), Sell(books, fill))
<1>1. PICK next \in Books : next = Sell(books, fill)
  BY SellIs
<1>2. PICK front \in Seq(Nat), left \in Nat : Takes(books, next, fill, a, front, left)
  BY <1>1, SellIs
<1>3. /\ OpenUnits(books.lots[a]) = front \o OpenUnits(next.lots[a])
      /\ Len(front) + left = fill.quantity
      /\ next.disposed[a] = books.disposed[a] + Len(front)
      /\ next.realized[a] = books.realized[a] + Len(front) * fill.price - Total(front)
      /\ next.unmatched[a] = books.unmatched[a] + left
  BY <1>2 DEF Takes
<1>4. PICK head \in Seq(Nat) :
        /\ bought = head \o OpenUnits(books.lots[a])
        /\ Len(head) = books.disposed[a]
        /\ books.disposed[a] + books.unmatched[a] = Len(sold)
        /\ books.unmatched[a] = 0 => books.realized[a] = Total(sold) - Total(head)
  BY DEF Fifo
<1>5. PICK open \in Seq(Nat), rest \in Seq(Nat) :
        open = OpenUnits(books.lots[a]) /\ rest = OpenUnits(next.lots[a])
  BY BookOf
<1>6. PICK gone \in Seq(Nat) : gone = And(head, front)
  BY Joined
<1>7. bought = gone \o OpenUnits(next.lots[a])
  <2>1. bought = And(head, open) /\ open = And(front, rest)
    BY <1>3, <1>4, <1>5 DEF And
  <2>2. bought = And(gone, rest)
    BY <1>6, <2>1, Joined
  <2>3. QED
    BY <1>5, <2>2 DEF And
<1>8. PICK m \in Nat, k \in Nat : m = Len(head) /\ k = Len(front)
  OBVIOUS
<1>9. Len(gone) = m + k
  BY <1>6, <1>8, ConcatProperties DEF And
<1>10. PICK d \in Nat, u \in Nat, r \in Int :
        d = books.disposed[a] /\ u = books.unmatched[a] /\ r = books.realized[a]
  BY BookOf
<1>11. PICK q \in Nat, p \in Nat : q = fill.quantity /\ p = fill.price
  BY FillIs
<1>12. PICK t \in Nat, h \in Nat, f \in Nat :
         t = Total(sold) /\ h = Total(head) /\ f = Total(front)
  BY TotalSnoc
<1>13. Len(gone) = next.disposed[a]
  BY <1>3, <1>4, <1>8, <1>9, <1>10
<1>14. next.disposed[a] + next.unmatched[a] = Len(AddUnits(sold, fill))
  <2>1. PICK l \in Nat : l = Len(sold)
    OBVIOUS
  <2>2. Len(AddUnits(sold, fill)) = l + q
    BY <1>11, <2>1, AddUnitsIs
  <2>3. next.disposed[a] + next.unmatched[a] = (d + k) + (u + left)
    BY <1>3, <1>8, <1>10
  <2>4. d + u = l /\ k + left = q
    BY <1>3, <1>4, <1>8, <1>10, <1>11, <2>1
  <2>5. (d + k) + (u + left) = (d + u) + (k + left)
    OBVIOUS
  <2>6. QED
    BY <2>2, <2>3, <2>4, <2>5
<1>15. ASSUME next.unmatched[a] = 0
       PROVE  next.realized[a] = Total(AddUnits(sold, fill)) - Total(gone)
  <2>1. u + left = 0
    BY <1>3, <1>10, <1>15
  <2>2. u = 0 /\ left = 0
    BY <2>1
  <2>3. r = t - h
    BY <1>4, <1>10, <1>12, <2>2
  <2>4. k = q
    BY <1>3, <1>8, <1>11, <2>2
  <2>5. PICK n \in Nat : n = q * p
    BY TimesIs
  <2>6. next.realized[a] = r + n - f
    BY <1>3, <1>8, <1>10, <1>11, <1>12, <2>4, <2>5
  <2>7. Total(AddUnits(sold, fill)) = t + n
    <3>1. AddUnits(sold, fill) = sold \o Same(q, p)
      BY <1>11, AddUnitsIs
    <3>2. QED
      BY <1>12, <2>5, <3>1, TotalOfSame, SMTT(30)
  <2>8. Total(gone) = h + f
    BY <1>6, <1>12, TotalOfBoth DEF And
  <2>9. r + n - f = (t + n) - (h + f)
    BY <2>3
  <2>10. QED
    BY <2>6, <2>7, <2>8, <2>9
<1>16. QED
  BY <1>1, <1>7, <1>13, <1>14, <1>15 DEF Fifo

\* The books of an asset are its own.
LEMMA BookOther ==
  ASSUME NEW a \in Assets, NEW books \in Books, NEW fill \in Fill, fill.asset # a
  PROVE  /\ Book(books, fill).lots[a] = books.lots[a]
         /\ Book(books, fill).disposed[a] = books.disposed[a]
         /\ Book(books, fill).realized[a] = books.realized[a]
         /\ Book(books, fill).unmatched[a] = books.unmatched[a]
<1>1. CASE fill.side = "buy"
  BY <1>1, BuyIs DEF Book
<1>2. CASE fill.side # "buy"
  <2>1. Book(books, fill) = Sell(books, fill) /\ a \in Assets \ {fill.asset}
    BY <1>2 DEF Book
  <2>2. QED
    BY <2>1, SellIs
<1>3. QED
  BY <1>1, <1>2

\* Executions of another asset have nothing to do with it.
LEMMA FifoOther ==
  ASSUME NEW a \in Assets, NEW bought, NEW sold, NEW books \in Books,
         NEW fill \in Fill, fill.asset # a, Fifo(a, bought, sold, books)
  PROVE  Fifo(a, bought, sold, Book(books, fill))
BY BookOther DEF Fifo

\* One execution more keeps it.
LEMMA FifoKept ==
  ASSUME NEW a \in Assets, NEW bought \in Seq(Nat), NEW sold \in Seq(Nat), NEW books \in Books,
         NEW fill \in Fill, Fifo(a, bought, sold, books)
  PROVE  Fifo(a, UnitsOf(a, "buy", bought, fill), UnitsOf(a, "sell", sold, fill),
              Book(books, fill))
<1>1. CASE fill.asset # a
  <2>1. UnitsOf(a, "buy", bought, fill) = bought /\ UnitsOf(a, "sell", sold, fill) = sold
    BY <1>1 DEF UnitsOf
  <2>2. QED
    BY <1>1, <2>1, FifoOther
<1>2. CASE fill.asset = a /\ fill.side = "buy"
  <2>1. /\ UnitsOf(a, "buy", bought, fill) = AddUnits(bought, fill)
        /\ UnitsOf(a, "sell", sold, fill) = sold /\ Book(books, fill) = Buy(books, fill)
    BY <1>2 DEF UnitsOf, Book
  <2>2. QED
    BY <1>2, <2>1, FifoBuy
<1>3. CASE fill.asset = a /\ fill.side # "buy"
  <2>1. fill.side = "sell"
    BY <1>3, FillIs
  <2>2. /\ UnitsOf(a, "buy", bought, fill) = bought
        /\ UnitsOf(a, "sell", sold, fill) = AddUnits(sold, fill)
        /\ Book(books, fill) = Sell(books, fill)
    BY <1>3, <2>1 DEF UnitsOf, Book
  <2>3. QED
    BY <1>3, <2>2, FifoSell
<1>4. QED
  BY <1>1, <1>2, <1>3

\* It holds before the first execution.
LEMMA FifoStart == ASSUME NEW a \in Assets PROVE Fifo(a, <<>>, <<>>, EmptyBooks)
<1>1. PICK none \in Seq(Nat) : none = <<>>
  <2>1. <<>> \in Seq(Nat)
    OBVIOUS
  <2>2. QED
    BY <2>1
<1>2. OpenUnits(<<>>) = <<>> /\ Total(<<>>) = 0
  BY OpenUnitsSnoc, TotalSnoc
<1>3. none \o none = none /\ Len(none) = 0
  BY <1>1
<1>4. PICK books : books = EmptyBooks
  OBVIOUS
<1>5. /\ books.lots[a] = <<>> /\ books.disposed[a] = 0 /\ books.realized[a] = 0
      /\ books.unmatched[a] = 0
  BY <1>4 DEF EmptyBooks, Nil
<1>6. /\ none = none \o OpenUnits(books.lots[a])
      /\ Len(none) = books.disposed[a]
      /\ books.disposed[a] + books.unmatched[a] = Len(none)
      /\ books.realized[a] = Total(none) - Total(none)
  BY <1>1, <1>2, <1>3, <1>5
<1>7. Fifo(a, none, none, books)
  BY <1>6 DEF Fifo
<1>8. QED
  BY <1>1, <1>4, <1>7

\* So it is kept all along a history.
LEMMA FifoAlong ==
  ASSUME NEW fills \in Seq(Fill), NEW a \in Assets
  PROVE  /\ computeCostBasis(fills) \in Books
         /\ Units(fills, a, "buy") \in Seq(Nat) /\ Units(fills, a, "sell") \in Seq(Nat)
         /\ Fifo(a, Units(fills, a, "buy"), Units(fills, a, "sell"), computeCostBasis(fills))
<1>1. PICK N \in Nat : N = Len(fills)
  OBVIOUS
<1>2. PICK b \in [0 .. N -> Seq(Nat)] :
        /\ b[0] = <<>> /\ Units(fills, a, "buy") = b[N]
        /\ \A n \in 1 .. N : b[n] = UnitsOf(a, "buy", b[n - 1], fills[n])
  <2>1. PICK side : side = "buy"
    OBVIOUS
  <2>2. UnitsGoOn(fills, a, side, N)
    BY <1>1, UnitsRun
  <2>3. QED
    BY <2>1, <2>2 DEF UnitsGoOn
<1>3. PICK s \in [0 .. N -> Seq(Nat)] :
        /\ s[0] = <<>> /\ Units(fills, a, "sell") = s[N]
        /\ \A n \in 1 .. N : s[n] = UnitsOf(a, "sell", s[n - 1], fills[n])
  <2>1. PICK side : side = "sell"
    OBVIOUS
  <2>2. UnitsGoOn(fills, a, side, N)
    BY <1>1, UnitsRun
  <2>3. QED
    BY <2>1, <2>2 DEF UnitsGoOn
<1>4. PICK k \in [0 .. N -> Books] :
        /\ k[0] = EmptyBooks /\ computeCostBasis(fills) = k[N]
        /\ \A n \in 1 .. N : k[n] = Book(k[n - 1], fills[n])
  BY <1>1, BooksRun
<1> DEFINE T == {n \in 0 .. N : Fifo(a, b[n], s[n], k[n])}
<1>5. 0 \in T
  BY <1>2, <1>3, <1>4, FifoStart
<1>6. ASSUME NEW n \in 1 .. N, n - 1 \in T PROVE n \in T
  <2>1. n - 1 \in 0 .. N /\ n \in 1 .. Len(fills)
    BY <1>1
  <2>2. /\ b[n - 1] \in Seq(Nat) /\ s[n - 1] \in Seq(Nat) /\ k[n - 1] \in Books
        /\ fills[n] \in Fill
    BY <2>1
  <2>3. /\ b[n] = UnitsOf(a, "buy", b[n - 1], fills[n])
        /\ s[n] = UnitsOf(a, "sell", s[n - 1], fills[n])
        /\ k[n] = Book(k[n - 1], fills[n])
    BY <1>2, <1>3, <1>4
  <2>4. Fifo(a, b[n - 1], s[n - 1], k[n - 1])
    BY <1>6
  <2>5. Fifo(a, b[n], s[n], k[n])
    BY <2>2, <2>3, <2>4, FifoKept
  <2>6. QED
    BY <2>5
<1> HIDE DEF T
<1>7. \A n \in 0 .. N : n \in T
  BY <1>5, <1>6, Induct
<1>8. N \in T
  BY <1>7
<1>9. QED
  BY <1>2, <1>3, <1>4, <1>8 DEF T

\* Units that are the same, one by one.
LEMMA OneByOne ==
  ASSUME NEW m \in Nat, NEW s \in Seq(Nat), NEW t \in Seq(Nat), Len(s) = m, Len(t) = m,
         \A i \in 1 .. m : s[i] = t[i]
  PROVE  s = t
OBVIOUS

\* Two parts of a sequence.
CutInto(w, s, t) == SubSeq(w, 1, Len(s)) = s /\ SubSeq(w, Len(s) + 1, Len(w)) = t

\* Two parts of a sequence, cut where they were put together.
LEMMA CutApart ==
  ASSUME NEW s \in Seq(Nat), NEW t \in Seq(Nat), NEW w, w = And(s, t)
  PROVE  CutInto(w, s, t)
<1>1. PICK m \in Nat, n \in Nat : m = Len(s) /\ n = Len(t)
  OBVIOUS
<1>2. /\ w \in Seq(Nat) /\ Len(w) = m + n
      /\ \A i \in 1 .. m + n : w[i] = IF i <= m THEN s[i] ELSE t[i - m]
  BY <1>1, ConcatProperties DEF And
<1>3. \A i \in 1 .. m + n : w[i] \in Nat
  BY <1>2
<1>4. PICK u \in Seq(Nat) : u = SubSeq(w, 1, m) /\ Len(u) = m /\ \A i \in 1 .. m : u[i] = w[i]
  <2>1. \A i \in 1 .. m : w[i] \in Nat
    BY <1>3
  <2>2. SubSeq(w, 1, m) \in Seq(Nat)
    BY <2>1, SubSeqProperties
  <2>3. Len(SubSeq(w, 1, m)) = m /\ \A i \in 1 .. m : SubSeq(w, 1, m)[i] = w[i]
    BY <1>2, <2>1
  <2>4. QED
    BY <2>2, <2>3
<1>5. PICK v \in Seq(Nat) :
        v = SubSeq(w, m + 1, m + n) /\ Len(v) = n /\ \A i \in 1 .. n : v[i] = w[m + i]
  <2>1. \A i \in m + 1 .. m + n : w[i] \in Nat
    BY <1>3
  <2>2. SubSeq(w, m + 1, m + n) \in Seq(Nat)
    BY <2>1, SubSeqProperties
  <2>3. Len(SubSeq(w, m + 1, m + n)) = n
    BY <1>2
  <2>4. \A i \in 1 .. n : SubSeq(w, m + 1, m + n)[i] = w[m + i]
    BY <1>2
  <2>5. QED
    BY <2>2, <2>3, <2>4
<1>6. \A i \in 1 .. m : u[i] = s[i]
  BY <1>2, <1>4
<1>7. \A i \in 1 .. n : v[i] = t[i]
  BY <1>2, <1>5, SMTT(30)
<1>8. u = s
  BY <1>1, <1>4, <1>6, OneByOne
<1>9. v = t
  BY <1>1, <1>5, <1>7, OneByOne
<1>10. QED
  BY <1>1, <1>2, <1>4, <1>5, <1>8, <1>9 DEF CutInto

\* The open lots are the units bought last, and the profit is over the units bought first.
LEMMA FirstInFirstOut == ASSUME history \in Seq(Fill) PROVE LotsAreFirstInFirstOut
<1>1. PICK fills \in Seq(Fill) : fills = Chronological
  BY ChronologicalIs
<1>2. PICK books : books = computeCostBasis(fills)
  OBVIOUS
<1>3. ASSUME NEW a \in Assets,
             NEW bought, bought = Units(fills, a, "buy"),
             NEW sold, sold = Units(fills, a, "sell"),
             NEW disposed, disposed = books.disposed[a]
      PROVE  /\ disposed + books.unmatched[a] = Len(sold)
             /\ OpenUnits(books.lots[a]) = SubSeq(bought, disposed + 1, Len(bought))
             /\ books.unmatched[a] = 0 =>
                  books.realized[a] = Total(sold) - Total(SubSeq(bought, 1, disposed))
  <2>1. Fifo(a, bought, sold, books) /\ books \in Books
    BY <1>2, <1>3, FifoAlong
  <2>2. PICK head \in Seq(Nat) :
          /\ bought = head \o OpenUnits(books.lots[a])
          /\ Len(head) = disposed
          /\ disposed + books.unmatched[a] = Len(sold)
          /\ books.unmatched[a] = 0 => books.realized[a] = Total(sold) - Total(head)
    BY <1>3, <2>1 DEF Fifo
  <2>3. OpenUnits(books.lots[a]) \in Seq(Nat)
    BY <2>1, BookOf
  <2>4. /\ SubSeq(bought, 1, disposed) = head
        /\ SubSeq(bought, disposed + 1, Len(bought)) = OpenUnits(books.lots[a])
    <3>1. PICK open \in Seq(Nat) : open = OpenUnits(books.lots[a])
      BY <2>3
    <3>2. bought = And(head, open)
      BY <2>2, <3>1 DEF And
    <3>3. CutInto(bought, head, open)
      BY <3>2, CutApart
    <3>4. QED
      BY <2>2, <3>1, <3>3 DEF CutInto
  <2>5. QED
    BY <2>2, <2>4
<1>4. QED
  BY <1>1, <1>2, <1>3 DEF LotsAreFirstInFirstOut

-----------------------------------------------------------------------------
(***************************************************************************)
(* The journal beside the books.                                           *)
(***************************************************************************)
Trade == [paid : Nat, received : Nat, position : Int, fills : Nat, incomplete : BOOLEAN]

Journals == [open : Trade, closed : Seq(Trade)]

\* What an execution makes of a trade.
LEMMA CountedIs ==
  ASSUME NEW trade \in Trade, NEW fill \in Fill
  PROVE  /\ Counted(trade, fill) \in Trade
         /\ Counted(trade, fill).fills > 0
         /\ Counted(trade, fill).incomplete
              <=> trade.incomplete \/ Counted(trade, fill).position < 0
         /\ fill.side = "buy" =>
              /\ Counted(trade, fill).position = trade.position + fill.quantity
              /\ Counted(trade, fill).paid = trade.paid + fill.quantity * fill.price
              /\ Counted(trade, fill).received = trade.received
         /\ fill.side = "sell" =>
              /\ Counted(trade, fill).position = trade.position - fill.quantity
              /\ Counted(trade, fill).received = trade.received + fill.quantity * fill.price
              /\ Counted(trade, fill).paid = trade.paid
<1>1. PICK paid \in Nat, received \in Nat, position \in Int, fills \in Nat, incomplete \in BOOLEAN :
        /\ paid = trade.paid /\ received = trade.received /\ position = trade.position
        /\ fills = trade.fills /\ incomplete = trade.incomplete
  BY DEF Trade
<1>2. PICK q \in Nat, p \in Nat : q = fill.quantity /\ p = fill.price
  BY FillIs
<1>3. PICK n \in Nat : n = q * p
  BY TimesIs
<1>4. PICK now \in Int : now = position + (IF fill.side = "buy" THEN q ELSE -q)
  OBVIOUS
<1>5. PICK out \in Nat, in \in Nat :
        /\ out = paid + (IF fill.side = "buy" THEN n ELSE 0)
        /\ in = received + (IF fill.side = "sell" THEN n ELSE 0)
  <2>1. paid + n \in Nat /\ received + n \in Nat /\ paid + 0 = paid /\ received + 0 = received
    OBVIOUS
  <2>2. QED
    BY <2>1
<1>6. PICK next :
        next = [paid |-> out, received |-> in, position |-> now, fills |-> fills + 1,
                incomplete |-> incomplete \/ now < 0]
  OBVIOUS
<1>7. Counted(trade, fill) = next
  BY <1>1, <1>2, <1>3, <1>4, <1>5, <1>6 DEF Counted
<1>8. next \in Trade
  BY <1>6 DEF Trade
<1>9. /\ next.fills = fills + 1 /\ next.position = now /\ next.paid = out /\ next.received = in
      /\ next.incomplete <=> incomplete \/ now < 0
  BY <1>6
<1>10. fill.side = "buy" => now = position + q /\ out = paid + n /\ in = received
  BY <1>4, <1>5
<1>11. fill.side = "sell" => now = position - q /\ in = received + n /\ out = paid
  BY <1>4, <1>5
<1>12. next.fills > 0
  BY <1>9
<1>13. QED
  BY <1>1, <1>2, <1>3, <1>7, <1>8, <1>9, <1>10, <1>11, <1>12

\* A new trade is one.
LEMMA NewTradeIs ==
  /\ NewTrade \in Trade /\ NewTrade.position = 0 /\ NewTrade.received = 0
  /\ NewTrade.paid = 0 /\ NewTrade.incomplete = FALSE
BY DEF NewTrade, Trade

\* An execution is reviewed.
LEMMA ReviewOfIs ==
  ASSUME NEW journal \in Journals, NEW fill \in Fill, NEW asset
  PROVE  ReviewOf(asset, journal, fill) \in Journals
<1>1. PICK trade \in Trade : trade = Counted(journal.open, fill)
  <2>1. journal.open \in Trade
    BY DEF Journals
  <2>2. QED
    BY <2>1, CountedIs
<1>2. Append(journal.closed, trade) \in Seq(Trade)
  <2>1. journal.closed \in Seq(Trade)
    BY DEF Journals
  <2>2. QED
    BY <2>1
<1>3. [open |-> NewTrade, closed |-> Append(journal.closed, trade)] \in Journals
  BY <1>2, NewTradeIs DEF Journals
<1>4. [journal EXCEPT !.open = trade] \in Journals
  BY DEF Journals
<1>5. QED
  BY <1>1, <1>3, <1>4 DEF ReviewOf, Review

\* The journal grows execution by execution.
JournalGoesOn(w, asset, N) ==
  \E f \in [0 .. N -> Journals] :
    /\ f[0] = EmptyJournal /\ buildRoundTrips(w, asset) = f[N]
    /\ \A n \in 1 .. N : f[n] = ReviewOf(asset, f[n - 1], w[n])

\* The journal goes through the history.
LEMMA JournalRuns ==
  ASSUME NEW w \in Seq(Fill),
         NEW asset
  PROVE  JournalGoesOn(w, asset, Len(w))
<1> DEFINE Op(x, e) == ReviewOf(asset, x, e)
<1>1. PICK N \in Nat : N = Len(w) /\ DOMAIN w = 1 .. N
  OBVIOUS
<1>2. ASSUME NEW n \in 1 .. N, NEW x \in Journals PROVE Op(x, w[n]) \in Journals
  BY <1>1, ReviewOfIs
<1> DEFINE step == [p \in Journals \X (1 .. N) |-> Op(p[1], w[p[2]])]
<1>3. step \in [Journals \X (1 .. N) -> Journals]
  BY <1>2
<1>4. \A x \in Journals, n \in 1 .. N : step[<<x, n>>] = Op(x, w[n])
  OBVIOUS
<1>5. PICK base \in Journals : base = EmptyJournal
  <2>1. <<>> \in Seq(Trade)
    OBVIOUS
  <2>2. QED
    BY <2>1, NewTradeIs DEF EmptyJournal, Journals
<1> HIDE DEF step
<1>6. PICK g \in [SUBSET (1 .. N) -> Journals] : FoldsBy(base, step, N, g)
  BY <1>3, FoldExists
<1>7. IsFold(Op, base, w, g)
  <2>1. ASSUME NEW s \in SUBSET (1 .. N), s # {}
        PROVE  g[s] = Op(g[s \ {Max(s)}], w[Max(s)])
    <3>1. Max(s) \in 1 .. N /\ g[s \ {Max(s)}] \in Journals
      BY <2>1, MaxIsIn
    <3>2. g[s] = step[<<g[s \ {Max(s)}], Max(s)>>]
      BY <2>1, <1>6 DEF FoldsBy
    <3>3. QED
      BY <1>4, <3>1, <3>2
  <2>2. g[{}] = base
    BY <1>6 DEF FoldsBy
  <2>3. QED
    BY <1>1, <2>1, <2>2 DEF IsFold, FoldStep
<1>8. PICK h : h = CHOOSE y : IsFold(Op, base, w, y)
  OBVIOUS
<1>9. IsFold(Op, base, w, h)
  BY <1>7, <1>8
<1>10. buildRoundTrips(w, asset) = h[1 .. N]
  BY <1>1, <1>5, <1>8 DEF buildRoundTrips, FoldLeft, MapThenFoldSet, IsFold, FoldStep
<1>11. ASSUME NEW s \in SUBSET (1 .. N)
       PROVE  h[s] = IF s = {} THEN base ELSE Op(h[s \ {Max(s)}], w[Max(s)])
  BY <1>1, <1>9 DEF IsFold, FoldStep
<1>12. Unfolds(Journals, base, step, N, h)
  BY <1>4, <1>11, MaxIsIn DEF Unfolds
<1>13. RunsTo(Journals, base, step, N, h[1 .. N])
  BY <1>3, <1>12, UnfoldedRuns
<1>14. PICK f \in [0 .. N -> Journals] :
         /\ f[0] = base /\ h[1 .. N] = f[N]
         /\ \A n \in 1 .. N : f[n] = step[<<f[n - 1], n>>]
  BY <1>13 DEF RunsTo
<1>15. ASSUME NEW n \in 1 .. N PROVE f[n] = Op(f[n - 1], w[n])
  <2>1. f[n - 1] \in Journals
    BY <1>14
  <2>2. QED
    BY <1>4, <1>14, <2>1
<1>16. QED
  BY <1>1, <1>5, <1>10, <1>14, <1>15 DEF JournalGoesOn

\* What trades made, one after the other.
PnlOf(trades) == FoldLeft(AddPnl, 0, trades)

\* What a trade made.
LEMMA AddPnlIs ==
  ASSUME NEW sum \in Int, NEW trade \in Trade
  PROVE  AddPnl(sum, trade) \in Int /\ AddPnl(sum, trade) = sum + trade.received - trade.paid
BY DEF AddPnl, Trade

\* It is added one trade after the other.
LEMMA PnlRuns ==
  ASSUME NEW w \in Seq(Trade)
  PROVE  \E f \in [0 .. Len(w) -> Int] :
           /\ f[0] = 0 /\ PnlOf(w) = f[Len(w)]
           /\ \A n \in 1 .. Len(w) : f[n] = AddPnl(f[n - 1], w[n])
<1> DEFINE Op(x, e) == AddPnl(x, e)
<1>1. PICK N \in Nat : N = Len(w) /\ DOMAIN w = 1 .. N
  OBVIOUS
<1>2. ASSUME NEW n \in 1 .. N, NEW x \in Int PROVE Op(x, w[n]) \in Int
  BY <1>1, AddPnlIs
<1> DEFINE step == [p \in Int \X (1 .. N) |-> Op(p[1], w[p[2]])]
<1>3. step \in [Int \X (1 .. N) -> Int]
  BY <1>2
<1>4. \A x \in Int, n \in 1 .. N : step[<<x, n>>] = Op(x, w[n])
  OBVIOUS
<1>5. PICK base \in Int : base = 0
  OBVIOUS
<1> HIDE DEF step
<1>6. PICK g \in [SUBSET (1 .. N) -> Int] : FoldsBy(base, step, N, g)
  BY <1>3, FoldExists
<1>7. IsFold(Op, base, w, g)
  <2>1. ASSUME NEW s \in SUBSET (1 .. N), s # {}
        PROVE  g[s] = Op(g[s \ {Max(s)}], w[Max(s)])
    <3>1. Max(s) \in 1 .. N /\ g[s \ {Max(s)}] \in Int
      BY <2>1, MaxIsIn
    <3>2. g[s] = step[<<g[s \ {Max(s)}], Max(s)>>]
      BY <2>1, <1>6 DEF FoldsBy
    <3>3. QED
      BY <1>4, <3>1, <3>2
  <2>2. g[{}] = base
    BY <1>6 DEF FoldsBy
  <2>3. QED
    BY <1>1, <2>1, <2>2 DEF IsFold, FoldStep
<1>8. PICK h : h = CHOOSE y : IsFold(Op, base, w, y)
  OBVIOUS
<1>9. IsFold(Op, base, w, h)
  BY <1>7, <1>8
<1>10. PnlOf(w) = h[1 .. N]
  BY <1>1, <1>5, <1>8 DEF PnlOf, FoldLeft, MapThenFoldSet, IsFold, FoldStep
<1>11. ASSUME NEW s \in SUBSET (1 .. N)
       PROVE  h[s] = IF s = {} THEN base ELSE Op(h[s \ {Max(s)}], w[Max(s)])
  BY <1>1, <1>9 DEF IsFold, FoldStep
<1>12. Unfolds(Int, base, step, N, h)
  BY <1>4, <1>11, MaxIsIn DEF Unfolds
<1>13. RunsTo(Int, base, step, N, h[1 .. N])
  BY <1>3, <1>12, UnfoldedRuns
<1>14. PICK f \in [0 .. N -> Int] :
         /\ f[0] = base /\ h[1 .. N] = f[N]
         /\ \A n \in 1 .. N : f[n] = step[<<f[n - 1], n>>]
  BY <1>13 DEF RunsTo
<1>15. ASSUME NEW n \in 1 .. N PROVE f[n] = Op(f[n - 1], w[n])
  <2>1. f[n - 1] \in Int
    BY <1>14
  <2>2. QED
    BY <1>4, <1>14, <2>1
<1>16. QED
  BY <1>1, <1>5, <1>10, <1>14, <1>15

\* One trade more adds what it made.
LEMMA PnlSnoc ==
  /\ PnlOf(<<>>) = 0
  /\ \A w \in Seq(Trade) : PnlOf(w) \in Int
  /\ \A w \in Seq(Trade), e \in Trade : PnlOf(Append(w, e)) = AddPnl(PnlOf(w), e)
<1>1. ASSUME NEW w \in Seq(Trade) PROVE PnlOf(w) \in Int
  <2>1. PICK f \in [0 .. Len(w) -> Int] : PnlOf(w) = f[Len(w)]
    BY PnlRuns
  <2>2. QED
    BY <2>1
<1>2. PnlOf(<<>>) = 0
  <2>1. PICK w \in Seq(Trade) : w = <<>>
    <3>1. <<>> \in Seq(Trade)
      OBVIOUS
    <3>2. QED
      BY <3>1
  <2>2. PICK f \in [0 .. Len(w) -> Int] : f[0] = 0 /\ PnlOf(w) = f[Len(w)]
    BY PnlRuns
  <2>3. QED
    BY <2>1, <2>2
<1>3. ASSUME NEW w \in Seq(Trade), NEW e \in Trade
      PROVE  PnlOf(Append(w, e)) = AddPnl(PnlOf(w), e)
  <2>1. PICK v \in Seq(Trade) : v = Append(w, e)
    BY AppendProperties
  <2>2. PICK N \in Nat : N = Len(w)
    OBVIOUS
  <2>3. Len(v) = N + 1 /\ v[N + 1] = e /\ \A n \in 1 .. N : v[n] = w[n]
    BY <2>1, <2>2, AppendProperties
  <2>4. PICK f \in [0 .. N -> Int] :
          /\ f[0] = 0 /\ PnlOf(w) = f[N]
          /\ \A n \in 1 .. N : f[n] = AddPnl(f[n - 1], w[n])
    BY <2>2, PnlRuns
  <2>5. PICK M \in Nat : M = N + 1 /\ M = Len(v)
    BY <2>3
  <2>6. PICK g \in [0 .. M -> Int] :
          /\ g[0] = 0 /\ PnlOf(v) = g[M]
          /\ \A n \in 1 .. M : g[n] = AddPnl(g[n - 1], v[n])
    BY <2>5, PnlRuns, ZenonT(40)
  <2>7. ASSUME NEW n \in 1 .. N, f[n - 1] = g[n - 1] PROVE f[n] = g[n]
    <3>1. n \in 1 .. M /\ v[n] = w[n]
      BY <2>3, <2>5
    <3>2. QED
      BY <2>4, <2>6, <2>7, <3>1
  <2>8. f[0] = g[0]
    BY <2>4, <2>6
  <2>9. f[N] = g[N]
    BY <2>7, <2>8, RunsAgree
  <2>10. M \in 1 .. M /\ M - 1 = N
    BY <2>5
  <2>11. g[M] = AddPnl(g[M - 1], v[M])
    BY <2>6, <2>10
  <2>12. QED
    BY <2>1, <2>3, <2>4, <2>6, <2>9, <2>10, <2>11, <2>5
<1>4. QED
  BY <1>1, <1>2, <1>3

\* The open lots cost what their units do.
LEMMA CostOfUnits ==
  ASSUME NEW lots \in Seq(TaxLot)
  PROVE  CostBasis(lots) \in Nat /\ Total(OpenUnits(lots)) = CostBasis(lots)
<1>1. PICK N \in Nat : N = Len(lots)
  OBVIOUS
<1>2. PICK f \in [0 .. N -> Seq(Nat)] :
        /\ f[0] = <<>> /\ OpenUnits(lots) = f[N]
        /\ \A n \in 1 .. N : f[n] = AddUnits(f[n - 1], lots[n])
  BY <1>1, OpenUnitsRun
<1>3. PICK g \in [0 .. N -> Nat] :
        /\ g[0] = 0 /\ CostBasis(lots) = g[N]
        /\ \A n \in 1 .. N : g[n] = AddCost(g[n - 1], lots[n])
  BY <1>1, CostRuns
<1> DEFINE T == {n \in 0 .. N : Total(f[n]) = g[n]}
<1>4. 0 \in T
  BY <1>2, <1>3, TotalSnoc
<1>5. ASSUME NEW n \in 1 .. N, n - 1 \in T PROVE n \in T
  <2>1. n - 1 \in 0 .. N /\ n \in 1 .. Len(lots)
    BY <1>1
  <2>2. f[n - 1] \in Seq(Nat) /\ g[n - 1] \in Nat /\ lots[n] \in TaxLot
    BY <2>1
  <2>3. PICK units \in Seq(Nat), cost \in Nat, q \in Nat, p \in Nat :
          /\ units = f[n - 1] /\ cost = g[n - 1]
          /\ q = lots[n].quantity /\ p = lots[n].price
    BY <2>2, LotIs
  <2>4. f[n] = units \o Same(q, p)
    BY <1>2, <2>3, AddUnitsIs
  <2>5. g[n] = cost + q * p
    BY <1>3, <2>3 DEF AddCost
  <2>6. Total(units) = cost
    BY <1>5, <2>3
  <2>7. Total(f[n]) = g[n]
    BY <2>4, <2>5, <2>6, TotalOfSame
  <2>8. QED
    BY <2>7
<1> HIDE DEF T
<1>6. \A n \in 0 .. N : n \in T
  BY <1>4, <1>5, Induct
<1>7. N \in T
  BY <1>6
<1>8. QED
  BY <1>2, <1>3, <1>7 DEF T

\* A sale of the journal had no lot.
Missed(journal) ==
  journal.open.incomplete \/ \E i \in 1 .. Len(journal.closed) : journal.closed[i].incomplete

\* The trades of an asset so far beside its units and its books: the open trade holds what is
\* bought and not sold, the trades made what the units sold for less what those bought
\* cost, and one is incomplete exactly when a sale had no lot.
Tallies(a, bought, sold, books, journal) ==
  /\ journal.open.position = Len(bought) - Len(sold)
  /\ PnlOf(journal.closed) + journal.open.received - journal.open.paid
       = Total(sold) - Total(bought)
  /\ journal.open.fills = 0 => ~journal.open.incomplete
  /\ Missed(journal) <=> books.unmatched[a] > 0

\* An execution of the asset closes the open trade or goes on with it.
LEMMA ReviewIs ==
  ASSUME NEW journal \in Journals, NEW fill \in Fill, NEW trade \in Trade,
         trade = Counted(journal.open, fill)
  PROVE  /\ Review(journal, fill) \in Journals
         /\ Review(journal, fill).open.position = trade.position
         /\ PnlOf(Review(journal, fill).closed) + Review(journal, fill).open.received
              - Review(journal, fill).open.paid
              = PnlOf(journal.closed) + trade.received - trade.paid
         /\ Review(journal, fill).open.fills = 0 => ~Review(journal, fill).open.incomplete
         /\ Missed(Review(journal, fill)) <=> Missed(journal) \/ trade.position < 0
<1>1. PICK open \in Trade, closed \in Seq(Trade) :
        /\ open = journal.open /\ closed = journal.closed
        /\ journal = [open |-> open, closed |-> closed]
  BY DEF Journals
<1>2. /\ trade.fills > 0 /\ trade.incomplete \in BOOLEAN /\ open.incomplete \in BOOLEAN
      /\ trade.incomplete <=> open.incomplete \/ trade.position < 0
      /\ trade.position \in Int /\ trade.received \in Nat /\ trade.paid \in Nat
      /\ trade.fills \in Nat
  BY <1>1, CountedIs DEF Trade
<1>3. PICK next : next = Review(journal, fill)
  OBVIOUS
<1>4. CASE trade.position = 0
  <2>1. PICK more \in Seq(Trade) : more = Append(closed, trade)
    BY AppendProperties
  <2>2. next = [open |-> NewTrade, closed |-> more]
    BY <1>1, <1>3, <1>4, <2>1 DEF Review, IsFlat
  <2>3. next \in Journals
    BY <2>2, NewTradeIs DEF Journals
  <2>4. PnlOf(more) = PnlOf(closed) + trade.received - trade.paid /\ PnlOf(more) \in Int
    <3>1. PnlOf(more) = AddPnl(PnlOf(closed), trade) /\ PnlOf(closed) \in Int
      BY <2>1, PnlSnoc
    <3>2. QED
      BY <2>1, <3>1, AddPnlIs
  <2>5. next.open = NewTrade /\ next.closed = more
    BY <2>2
  <2>6. PnlOf(more) + 0 - 0 = PnlOf(more)
    BY <2>4
  <2>7. PICK N \in Nat : N = Len(closed)
    OBVIOUS
  <2>8. Len(more) = N + 1 /\ more[N + 1] = trade /\ \A i \in 1 .. N : more[i] = closed[i]
    BY <2>1, <2>7, AppendProperties
  <2>9. (\E i \in 1 .. Len(more) : more[i].incomplete)
          <=> trade.incomplete \/ \E i \in 1 .. N : closed[i].incomplete
    <3>1. \A i \in 1 .. N + 1 : i = N + 1 \/ i \in 1 .. N
      OBVIOUS
    <3>2. N + 1 \in 1 .. N + 1 /\ \A i \in 1 .. N : i \in 1 .. N + 1
      OBVIOUS
    <3>3. QED
      BY <2>8, <3>1, <3>2
  <2>10. Missed(next) <=> trade.incomplete \/ \E i \in 1 .. N : closed[i].incomplete
    BY <2>5, <2>9, NewTradeIs DEF Missed
  <2>11. Missed(next) <=> Missed(journal) \/ trade.position < 0
    BY <1>1, <1>2, <2>7, <2>10 DEF Missed
  <2>12. next.open.position = trade.position
    BY <1>4, <2>5, NewTradeIs
  <2>13. PnlOf(next.closed) + next.open.received - next.open.paid
           = PnlOf(journal.closed) + trade.received - trade.paid
    BY <1>1, <2>4, <2>5, <2>6, NewTradeIs
  <2>14. ~next.open.incomplete
    BY <2>5, NewTradeIs
  <2>15. QED
    BY <1>3, <2>3, <2>11, <2>12, <2>13, <2>14
<1>5. CASE trade.position # 0
  <2>1. next = [open |-> trade, closed |-> closed]
    BY <1>1, <1>3, <1>5 DEF Review, IsFlat
  <2>2. next \in Journals
    BY <2>1 DEF Journals
  <2>3. next.open = trade /\ next.closed = closed
    BY <2>1
  <2>4. Missed(next) <=> Missed(journal) \/ trade.position < 0
    BY <1>1, <1>2, <2>3 DEF Missed
  <2>5. next.open.fills # 0
    BY <1>2, <2>3
  <2>6. QED
    BY <1>1, <1>3, <2>2, <2>3, <2>4, <2>5
<1>6. QED
  BY <1>4, <1>5

\* What is bought and not sold is what is open, less what had no lot.
LEMMA PositionIs ==
  ASSUME NEW a \in Assets, NEW bought \in Seq(Nat), NEW sold \in Seq(Nat), NEW books \in Books,
         Fifo(a, bought, sold, books)
  PROVE  Len(bought) - Len(sold) = Len(OpenUnits(books.lots[a])) - books.unmatched[a]
<1>1. PICK head \in Seq(Nat) :
        /\ bought = head \o OpenUnits(books.lots[a])
        /\ Len(head) = books.disposed[a]
        /\ books.disposed[a] + books.unmatched[a] = Len(sold)
  BY DEF Fifo
<1>2. PICK open \in Seq(Nat) : open = OpenUnits(books.lots[a])
  BY BookOf
<1>3. PICK m \in Nat, k \in Nat, u \in Nat :
        m = Len(head) /\ k = Len(open) /\ u = books.unmatched[a]
  <2>1. books.unmatched[a] \in Nat
    BY BookOf
  <2>2. Len(head) \in Nat /\ Len(open) \in Nat
    OBVIOUS
  <2>3. QED
    BY <2>1, <2>2
<1>4. Len(bought) = m + k
  <2>1. Len(head \o open) = m + k
    BY <1>3, ConcatProperties
  <2>2. QED
    BY <1>1, <1>2, <2>1
<1>5. Len(sold) = m + u
  BY <1>1, <1>3
<1>6. (m + k) - (m + u) = k - u
  OBVIOUS
<1>7. QED
  BY <1>2, <1>3, <1>4, <1>5, <1>6

\* A sale finds no lot only after the last one is gone.
LEMMA UnmatchedGrows ==
  ASSUME NEW books \in Books, NEW fill \in Fill, NEW next \in Books, next = Book(books, fill)
  PROVE  /\ next.unmatched[fill.asset] >= books.unmatched[fill.asset]
         /\ next.unmatched[fill.asset] > books.unmatched[fill.asset]
              => next.lots[fill.asset] = <<>>
<1>1. PICK u \in Nat, v \in Nat : u = books.unmatched[fill.asset] /\ v = next.unmatched[fill.asset]
  BY FillIs, BookOf
<1>2. CASE fill.side = "buy"
  <2>1. v = u
    BY <1>1, <1>2, BuyIs DEF Book
  <2>2. v >= u /\ ~(v > u)
    BY <2>1
  <2>3. QED
    BY <1>1, <2>2
<1>3. CASE fill.side # "buy"
  <2>1. next = Sell(books, fill)
    BY <1>3 DEF Book
  <2>2. PICK front \in Seq(Nat), left \in Nat :
          Takes(books, next, fill, fill.asset, front, left)
    BY <2>1, SellIs
  <2>3. v = u + left /\ (left > 0 => next.lots[fill.asset] = <<>>)
    BY <1>1, <2>2 DEF Takes
  <2>4. v >= u /\ (v > u => left > 0)
    BY <2>3
  <2>5. QED
    BY <1>1, <2>3, <2>4
<1>4. QED
  BY <1>2, <1>3

\* One execution more of the asset keeps the tally.
LEMMA TallyOwn ==
  ASSUME NEW a \in Assets, NEW bought \in Seq(Nat), NEW sold \in Seq(Nat), NEW books \in Books,
         NEW fill \in Fill, NEW journal \in Journals, fill.asset = a,
         Fifo(a, UnitsOf(a, "buy", bought, fill), UnitsOf(a, "sell", sold, fill),
              Book(books, fill)),
         Tallies(a, bought, sold, books, journal)
  PROVE  Tallies(a, UnitsOf(a, "buy", bought, fill), UnitsOf(a, "sell", sold, fill),
                 Book(books, fill), Review(journal, fill))
<1>1. PICK more \in Seq(Nat), gone \in Seq(Nat), next \in Books :
        /\ more = UnitsOf(a, "buy", bought, fill) /\ gone = UnitsOf(a, "sell", sold, fill)
        /\ next = Book(books, fill)
  BY UnitsOfIs, BookIs
<1>2. PICK open \in Trade, trade \in Trade :
        open = journal.open /\ trade = Counted(open, fill) /\ trade = Counted(journal.open, fill)
  <2>1. journal.open \in Trade
    BY DEF Journals
  <2>2. QED
    BY <2>1, CountedIs
<1>3. PICK reviewed \in Journals : reviewed = Review(journal, fill)
  BY <1>2, ReviewIs
<1>4. /\ reviewed.open.position = trade.position
      /\ PnlOf(reviewed.closed) + reviewed.open.received - reviewed.open.paid
           = PnlOf(journal.closed) + trade.received - trade.paid
      /\ reviewed.open.fills = 0 => ~reviewed.open.incomplete
      /\ Missed(reviewed) <=> Missed(journal) \/ trade.position < 0
  BY <1>2, <1>3, ReviewIs
<1>5. PICK q \in Nat, p \in Nat, n \in Nat :
        q = fill.quantity /\ p = fill.price /\ n = q * p
  <2>1. fill.quantity * fill.price \in Nat /\ fill.quantity \in Nat /\ fill.price \in Nat
    BY FillIs, TimesIs
  <2>2. QED
    BY <2>1
<1>6. PICK x \in Int, r \in Nat, o \in Nat :
        x = open.position /\ r = open.received /\ o = open.paid
  BY DEF Trade
<1>7. PICK pnl \in Int : pnl = PnlOf(journal.closed)
  <2>1. journal.closed \in Seq(Trade)
    BY DEF Journals
  <2>2. QED
    BY <2>1, PnlSnoc
<1>8. PICK b \in Nat, s \in Nat, tb \in Nat, ts \in Nat :
        b = Len(bought) /\ s = Len(sold) /\ tb = Total(bought) /\ ts = Total(sold)
  BY TotalSnoc
<1>9. x = b - s /\ pnl + r - o = ts - tb /\ (Missed(journal) <=> books.unmatched[a] > 0)
  BY <1>2, <1>6, <1>7, <1>8 DEF Tallies
<1>10. /\ trade.position = Len(more) - Len(gone)
      /\ pnl + trade.received - trade.paid = Total(gone) - Total(more)
  <2>1. CASE fill.side = "buy"
    <3>1. more = AddUnits(bought, fill) /\ gone = sold
      BY <1>1, <2>1 DEF UnitsOf
    <3>2. trade.position = x + q /\ trade.paid = o + n /\ trade.received = r
      <4>1. /\ trade.position = open.position + fill.quantity
            /\ trade.paid = open.paid + fill.quantity * fill.price
            /\ trade.received = open.received
        BY <1>2, <2>1, CountedIs
      <4>2. QED
        BY <1>5, <1>6, <4>1
    <3>3. Len(more) = b + q /\ Total(more) = tb + n
      <4>1. more = bought \o Same(q, p) /\ Len(more) = b + q
        BY <1>5, <1>8, <3>1, FillIs, AddUnitsIs
      <4>2. Total(bought \o Same(q, p)) = Total(bought) + q * p
        BY TotalOfSame
      <4>3. QED
        BY <1>5, <1>8, <4>1, <4>2
    <3>4. x + q = (b + q) - s /\ pnl + r - (o + n) = ts - (tb + n)
      BY <1>9
    <3>5. QED
      BY <1>8, <3>1, <3>2, <3>3, <3>4
  <2>2. CASE fill.side # "buy"
    <3>1. fill.side = "sell"
      BY <2>2, FillIs
    <3>2. gone = AddUnits(sold, fill) /\ more = bought
      BY <1>1, <3>1 DEF UnitsOf
    <3>3. trade.position = x - q /\ trade.received = r + n /\ trade.paid = o
      <4>1. /\ trade.position = open.position - fill.quantity
            /\ trade.received = open.received + fill.quantity * fill.price
            /\ trade.paid = open.paid
        BY <1>2, <3>1, CountedIs
      <4>2. QED
        BY <1>5, <1>6, <4>1
    <3>4. Len(gone) = s + q /\ Total(gone) = ts + n
      <4>1. gone = sold \o Same(q, p) /\ Len(gone) = s + q
        BY <1>5, <1>8, <3>2, FillIs, AddUnitsIs
      <4>2. Total(sold \o Same(q, p)) = Total(sold) + q * p
        BY TotalOfSame
      <4>3. QED
        BY <1>5, <1>8, <4>1, <4>2
    <3>5. x - q = b - (s + q) /\ pnl + (r + n) - o = (ts + n) - tb
      BY <1>9
    <3>6. QED
      BY <1>8, <3>2, <3>3, <3>4, <3>5
  <2>3. QED
    BY <2>1, <2>2
<1>11. PICK u \in Nat, v \in Nat, k \in Nat :
         /\ u = books.unmatched[a] /\ v = next.unmatched[a]
         /\ k = Len(OpenUnits(next.lots[a]))
  <2>1. OpenUnits(next.lots[a]) \in Seq(Nat)
    BY BookOf
  <2>2. Len(OpenUnits(next.lots[a])) \in Nat
    BY <2>1
  <2>3. QED
    BY <2>2, BookOf
<1>12. trade.position = k - v
  <2>1. Len(more) - Len(gone) = k - v
    <3>1. Len(more) - Len(gone) = Len(OpenUnits(next.lots[a])) - next.unmatched[a]
      <4>1. Fifo(a, more, gone, next)
        BY <1>1
      <4>2. QED
        BY <4>1, PositionIs
    <3>2. QED
      BY <1>11, <3>1
  <2>2. QED
    BY <1>10, <2>1
<1>13. v >= u /\ (v > u => k = 0)
  <2>1. v >= u /\ (v > u => next.lots[a] = <<>>)
    BY <1>11, <1>1, UnmatchedGrows
  <2>2. next.lots[a] = <<>> => k = 0
    <3>1. OpenUnits(<<>>) = <<>> /\ Len(<<>>) = 0
      BY OpenUnitsSnoc
    <3>2. QED
      BY <1>11, <3>1
  <2>3. QED
    BY <2>1, <2>2
<1>14. Missed(reviewed) <=> v > 0
  <2>1. u > 0 \/ k - v < 0 <=> v > 0
    BY <1>13
  <2>2. Missed(reviewed) <=> u > 0 \/ k - v < 0
    BY <1>4, <1>9, <1>11, <1>12
  <2>3. QED
    BY <2>1, <2>2
<1>15. QED
  BY <1>3, <1>4, <1>7, <1>10, <1>11, <1>14, <1>1 DEF Tallies

\* One execution more keeps the tally.
LEMMA TallyKept ==
  ASSUME NEW a \in Assets, NEW bought \in Seq(Nat), NEW sold \in Seq(Nat), NEW books \in Books,
         NEW fill \in Fill, NEW journal \in Journals, fill.dated,
         Fifo(a, bought, sold, books), Tallies(a, bought, sold, books, journal)
  PROVE  Tallies(a, UnitsOf(a, "buy", bought, fill), UnitsOf(a, "sell", sold, fill),
                 Book(books, fill), ReviewOf(a, journal, fill))
<1>1. PICK more \in Seq(Nat), gone \in Seq(Nat), next \in Books :
        /\ more = UnitsOf(a, "buy", bought, fill) /\ gone = UnitsOf(a, "sell", sold, fill)
        /\ next = Book(books, fill)
  BY UnitsOfIs, BookIs
<1>2. Fifo(a, more, gone, next)
  BY <1>1, FifoKept
<1>3. CASE fill.asset = a
  <2>1. ReviewOf(a, journal, fill) = Review(journal, fill)
    BY <1>3 DEF ReviewOf
  <2>2. Tallies(a, more, gone, next, Review(journal, fill))
    BY <1>1, <1>2, <1>3, TallyOwn
  <2>3. QED
    BY <1>1, <2>1, <2>2
<1>4. CASE fill.asset # a
  <2>1. more = bought /\ gone = sold /\ ReviewOf(a, journal, fill) = journal
    BY <1>1, <1>4 DEF UnitsOf, ReviewOf
  <2>2. next.unmatched[a] = books.unmatched[a]
    BY <1>1, <1>4, BookOther
  <2>3. QED
    BY <1>1, <2>1, <2>2 DEF Tallies
<1>5. QED
  BY <1>3, <1>4

\* It holds before the first execution.
LEMMA TallyStart ==
  ASSUME NEW a \in Assets
  PROVE  Tallies(a, <<>>, <<>>, EmptyBooks, EmptyJournal)
<1>1. PICK none : none = <<>>
  OBVIOUS
<1>2. Len(none) = 0 /\ Total(none) = 0 /\ PnlOf(none) = 0
  BY <1>1, TotalSnoc, PnlSnoc
<1>3. PICK journal, books : journal = EmptyJournal /\ books = EmptyBooks
  OBVIOUS
<1>4. journal.open = NewTrade /\ journal.closed = none /\ books.unmatched[a] = 0
  BY <1>1, <1>3 DEF EmptyJournal, EmptyBooks, Nil
<1>5. ~Missed(journal)
  BY <1>2, <1>4, NewTradeIs DEF Missed
<1>6. Tallies(a, none, none, books, journal)
  BY <1>2, <1>4, <1>5, NewTradeIs DEF Tallies
<1>7. QED
  BY <1>1, <1>3, <1>6

\* So it is kept all along a history that has its times.
LEMMA TallyAlong ==
  ASSUME NEW fills \in Seq(Fill), NEW a \in Assets, \A i \in 1 .. Len(fills) : fills[i].dated
  PROVE  /\ buildRoundTrips(fills, a) \in Journals
         /\ Tallies(a, Units(fills, a, "buy"), Units(fills, a, "sell"),
                    computeCostBasis(fills), buildRoundTrips(fills, a))
<1>1. PICK N \in Nat : N = Len(fills)
  OBVIOUS
<1>2. PICK b \in [0 .. N -> Seq(Nat)] :
        /\ b[0] = <<>> /\ Units(fills, a, "buy") = b[N]
        /\ \A n \in 1 .. N : b[n] = UnitsOf(a, "buy", b[n - 1], fills[n])
  <2>1. PICK side : side = "buy"
    OBVIOUS
  <2>2. UnitsGoOn(fills, a, side, N)
    BY <1>1, UnitsRun
  <2>3. QED
    BY <2>1, <2>2 DEF UnitsGoOn
<1>3. PICK s \in [0 .. N -> Seq(Nat)] :
        /\ s[0] = <<>> /\ Units(fills, a, "sell") = s[N]
        /\ \A n \in 1 .. N : s[n] = UnitsOf(a, "sell", s[n - 1], fills[n])
  <2>1. PICK side : side = "sell"
    OBVIOUS
  <2>2. UnitsGoOn(fills, a, side, N)
    BY <1>1, UnitsRun
  <2>3. QED
    BY <2>1, <2>2 DEF UnitsGoOn
<1>4. PICK k \in [0 .. N -> Books] :
        /\ k[0] = EmptyBooks /\ computeCostBasis(fills) = k[N]
        /\ \A n \in 1 .. N : k[n] = Book(k[n - 1], fills[n])
  BY <1>1, BooksRun
<1>5. PICK j \in [0 .. N -> Journals] :
        /\ j[0] = EmptyJournal /\ buildRoundTrips(fills, a) = j[N]
        /\ \A n \in 1 .. N : j[n] = ReviewOf(a, j[n - 1], fills[n])
  <2>1. JournalGoesOn(fills, a, N)
    BY <1>1, JournalRuns
  <2>2. QED
    BY <2>1 DEF JournalGoesOn
<1> DEFINE T == {n \in 0 .. N : Fifo(a, b[n], s[n], k[n]) /\ Tallies(a, b[n], s[n], k[n], j[n])}
<1>6. 0 \in T
  BY <1>2, <1>3, <1>4, <1>5, FifoStart, TallyStart
<1>7. ASSUME NEW n \in 1 .. N, n - 1 \in T PROVE n \in T
  <2>1. n - 1 \in 0 .. N /\ n \in 1 .. Len(fills)
    BY <1>1
  <2>2. /\ b[n - 1] \in Seq(Nat) /\ s[n - 1] \in Seq(Nat) /\ k[n - 1] \in Books
        /\ j[n - 1] \in Journals /\ fills[n] \in Fill /\ fills[n].dated
    BY <2>1
  <2>3. /\ b[n] = UnitsOf(a, "buy", b[n - 1], fills[n])
        /\ s[n] = UnitsOf(a, "sell", s[n - 1], fills[n])
        /\ k[n] = Book(k[n - 1], fills[n])
        /\ j[n] = ReviewOf(a, j[n - 1], fills[n])
    BY <1>2, <1>3, <1>4, <1>5
  <2>4. /\ Fifo(a, b[n - 1], s[n - 1], k[n - 1])
        /\ Tallies(a, b[n - 1], s[n - 1], k[n - 1], j[n - 1])
    BY <1>7
  <2>5. Fifo(a, b[n], s[n], k[n])
    BY <2>2, <2>3, <2>4, FifoKept
  <2>6. Tallies(a, b[n], s[n], k[n], j[n])
    BY <2>2, <2>3, <2>4, TallyKept
  <2>7. QED
    BY <2>5, <2>6
<1> HIDE DEF T
<1>8. \A n \in 0 .. N : n \in T
  BY <1>6, <1>7, Induct
<1>9. N \in T
  BY <1>8
<1>10. QED
  BY <1>2, <1>3, <1>4, <1>5, <1>9 DEF T

\* The executions that have a time.
Dated == {fill \in Fill : fill.dated}

\* When all have a time, so have the sorted ones.
LEMMA DatedAreSorted ==
  ASSUME history \in Seq(Fill), \A i \in DOMAIN history : history[i].dated
  PROVE  Chronological \in Seq(Dated)
<1>1. PICK w \in Seq(Fill) : w = history
  OBVIOUS
<1>2. PICK N \in Nat : N = Len(w) /\ DOMAIN w = 1 .. N
  OBVIOUS
<1>3. PICK f \in [0 .. N -> Seq(Fill)] :
        /\ f[0] = <<>> /\ Chronological = f[N]
        /\ \A n \in 1 .. N : f[n] = Sorted(f[n - 1], w[n])
  <2>1. \E f \in [0 .. Len(w) -> Seq(Fill)] :
          /\ f[0] = <<>> /\ Chronological = f[Len(w)]
          /\ \A n \in 1 .. Len(w) : f[n] = Sorted(f[n - 1], w[n])
    BY <1>1, SortingRuns
  <2>2. QED
    BY <1>2, <2>1
<1> DEFINE T == {n \in 0 .. N : f[n] \in Seq(Dated)}
<1>4. 0 \in T
  <2>1. <<>> \in Seq(Dated)
    OBVIOUS
  <2>2. QED
    BY <1>3, <2>1
<1>5. ASSUME NEW n \in 1 .. N, n - 1 \in T PROVE n \in T
  <2>1. PICK fill \in Dated : fill = w[n]
    BY <1>1, <1>2 DEF Dated
  <2>2. fill.dated
    BY DEF Dated
  <2>3. f[n] = Append(f[n - 1], fill)
    BY <1>3, <2>1, <2>2 DEF Sorted
  <2>4. f[n - 1] \in Seq(Dated)
    BY <1>5
  <2>5. f[n] \in Seq(Dated)
    BY <2>3, <2>4, AppendProperties
  <2>6. QED
    BY <2>5
<1> HIDE DEF T
<1>6. \A n \in 0 .. N : n \in T
  BY <1>4, <1>5, Induct
<1>7. N \in T
  BY <1>6
<1>8. QED
  BY <1>3, <1>7 DEF T

\* A trade that is called incomplete is one of those the journal shows.
LEMMA MissedIsShown ==
  ASSUME NEW journal \in Journals, journal.open.fills = 0 => ~journal.open.incomplete
  PROVE  (\E trade \in Trades(journal) : trade.incomplete) <=> Missed(journal)
<1>1. PICK closed \in Seq(Trade) : closed = journal.closed
  BY DEF Journals
<1>2. ToSet(closed) = {closed[i] : i \in 1 .. Len(closed)}
  BY DEF ToSet
<1>3. QED
  BY <1>1, <1>2 DEF Trades, Missed

\* The journal and the books agree.
LEMMA JournalAgrees == ASSUME history \in Seq(Fill) PROVE JournalAgreesWithLots
<1>1. SUFFICES ASSUME \A i \in DOMAIN history : history[i].dated
      PROVE  JournalAgreesWithLots
  BY DEF JournalAgreesWithLots
<1>2. PICK fills \in Seq(Fill) :
        fills = Chronological /\ \A i \in 1 .. Len(fills) : fills[i].dated
  <2>1. PICK fills \in Seq(Dated) : fills = Chronological
    BY <1>1, DatedAreSorted
  <2>2. \A i \in 1 .. Len(fills) : fills[i] \in Dated
    OBVIOUS
  <2>3. \A i \in 1 .. Len(fills) : fills[i].dated
    BY <2>2 DEF Dated
  <2>4. Chronological \in Seq(Fill)
    BY ChronologicalIs
  <2>5. QED
    BY <2>1, <2>3, <2>4
<1>3. PICK books : books = computeCostBasis(fills)
  OBVIOUS
<1>4. ASSUME NEW a \in Assets, NEW journal, journal = buildRoundTrips(fills, a),
             NEW open, open = journal.open
      PROVE  /\ (\E trade \in Trades(journal) : trade.incomplete) <=> books.unmatched[a] > 0
             /\ books.unmatched[a] = 0 =>
                  books.realized[a]
                    = ClosedPnl(journal) + open.received - open.paid + CostBasis(books.lots[a])
  <2>1. PICK bought \in Seq(Nat), sold \in Seq(Nat) :
          bought = Units(fills, a, "buy") /\ sold = Units(fills, a, "sell")
    BY FifoAlong
  <2>2. Fifo(a, bought, sold, books) /\ books \in Books
    BY <1>3, <2>1, FifoAlong
  <2>3. Tallies(a, bought, sold, books, journal) /\ journal \in Journals
    BY <1>2, <1>3, <1>4, <2>1, TallyAlong
  <2>4. (\E trade \in Trades(journal) : trade.incomplete) <=> books.unmatched[a] > 0
    <3>1. /\ journal.open.fills = 0 => ~journal.open.incomplete
          /\ Missed(journal) <=> books.unmatched[a] > 0
      BY <2>3 DEF Tallies
    <3>2. (\E trade \in Trades(journal) : trade.incomplete) <=> Missed(journal)
      BY <2>3, <3>1, MissedIsShown
    <3>3. QED
      BY <3>1, <3>2
  <2>5. ASSUME books.unmatched[a] = 0
        PROVE  books.realized[a]
                 = ClosedPnl(journal) + open.received - open.paid + CostBasis(books.lots[a])
    <3>1. PICK head \in Seq(Nat) :
            /\ bought = head \o OpenUnits(books.lots[a])
            /\ books.realized[a] = Total(sold) - Total(head)
      BY <2>2, <2>5 DEF Fifo
    <3>2. PICK held \in Seq(Nat) : held = OpenUnits(books.lots[a])
      BY <2>2, BookOf
    <3>3. PICK c \in Nat : c = CostBasis(books.lots[a]) /\ Total(held) = c
      BY <2>2, <3>2, BookOf, CostOfUnits
    <3>4. PICK h \in Nat, t \in Nat : h = Total(head) /\ t = Total(sold)
      BY TotalSnoc
    <3>5. Total(bought) = h + c
      <4>1. Total(head \o held) = h + c
        BY <3>3, <3>4, TotalOfBoth
      <4>2. QED
        BY <3>1, <3>2, <4>1
    <3>6. PICK made \in Int : made = ClosedPnl(journal) /\ made = PnlOf(journal.closed)
      <4>1. journal.closed \in Seq(Trade)
        BY <2>3 DEF Journals
      <4>2. ClosedPnl(journal) = PnlOf(journal.closed)
        BY DEF ClosedPnl, PnlOf
      <4>3. QED
        BY <4>1, <4>2, PnlSnoc
    <3>7. PICK r \in Nat, o \in Nat : r = open.received /\ o = open.paid
      BY <1>4, <2>3 DEF Journals, Trade
    <3>8. made + r - o = t - (h + c)
      BY <1>4, <2>3, <3>4, <3>5, <3>6, <3>7 DEF Tallies
    <3>9. made + r - o + c = t - h
      BY <3>8
    <3>10. QED
      BY <3>1, <3>3, <3>4, <3>6, <3>7, <3>9
  <2>6. QED
    BY <2>4, <2>5
<1>5. QED
  BY <1>2, <1>3, <1>4 DEF JournalAgreesWithLots

-----------------------------------------------------------------------------
(***************************************************************************)
(* The curve of the books.                                                 *)
(***************************************************************************)
Curves == [books : Books, prices : [Assets -> Nat], points : Seq(Int)]

\* What an asset would gain at a price.
LEMMA GainIs ==
  ASSUME NEW lots \in Seq(TaxLot), NEW price \in Nat
  PROVE  Quantity(lots) * price - CostBasis(lots) \in Int
<1>1. PICK m \in Nat, c \in Nat : m = Quantity(lots) /\ c = CostBasis(lots)
  BY QuantitySnoc, CostSnoc
<1>2. m * price \in Nat
  BY TimesIs
<1>3. QED
  BY <1>1, <1>2

\* The worth of the books is a number.
LEMMA WorthIs ==
  ASSUME NEW books \in Books, NEW prices \in [Assets -> Nat]
  PROVE  Worth(books, prices) \in Int
<1>1. IsFiniteSet(Assets)
  BY FillsAssumption
<1>2. SumFunctionOnSet(books.realized, Assets) \in Int
  <2>1. \A a \in Assets : books.realized[a] \in Int
    BY BookOf
  <2>2. QED
    BY <1>1, <2>1, SumWhole
<1>3. unrealized(books.lots, prices) \in Int
  <2>1. PICK gain : gain = [a \in Assets |->
                              Quantity(books.lots[a]) * prices[a] - CostBasis(books.lots[a])]
    OBVIOUS
  <2>2. ASSUME NEW a \in Assets PROVE gain[a] \in Int
    <3>1. books.lots[a] \in Seq(TaxLot) /\ prices[a] \in Nat
      BY BookOf
    <3>2. Quantity(books.lots[a]) * prices[a] - CostBasis(books.lots[a]) \in Int
      BY <3>1, GainIs
    <3>3. QED
      BY <2>1, <3>2
  <2>3. SumFunctionOnSet(gain, Assets) \in Int
    BY <1>1, <2>2, SumWhole
  <2>4. QED
    BY <2>1, <2>3 DEF unrealized
<1>4. QED
  BY <1>2, <1>3 DEF Worth

\* One point more of the curve.
LEMMA CurvePointIs ==
  ASSUME NEW curve \in Curves, NEW fill \in Fill
  PROVE  CurvePoint(curve, fill) \in Curves
<1>1. PICK books \in Books : books = Book(curve.books, fill)
  <2>1. curve.books \in Books
    BY DEF Curves
  <2>2. QED
    BY <2>1, BookIs
<1>2. PICK prices \in [Assets -> Nat] : prices = [curve.prices EXCEPT ![fill.asset] = fill.price]
  <2>1. curve.prices \in [Assets -> Nat]
    BY DEF Curves
  <2>2. QED
    BY <2>1, FillIs
<1>3. PICK points \in Seq(Int) : points = Append(curve.points, Worth(books, prices))
  <2>1. curve.points \in Seq(Int)
    BY DEF Curves
  <2>2. Worth(books, prices) \in Int
    BY WorthIs
  <2>3. QED
    BY <2>1, <2>2, AppendProperties
<1>4. CurvePoint(curve, fill) = [books |-> books, prices |-> prices, points |-> points]
  BY <1>1, <1>2, <1>3 DEF CurvePoint
<1>5. QED
  BY <1>4 DEF Curves

\* The curve goes through the history.
LEMMA CurveRuns ==
  ASSUME NEW w \in Seq(Fill)
  PROVE  \E f \in [0 .. Len(w) -> Curves] :
           /\ f[0] = [books |-> EmptyBooks, prices |-> Nil, points |-> <<>>]
           /\ buildPnlCurve(w) = f[Len(w)]
           /\ \A n \in 1 .. Len(w) : f[n] = CurvePoint(f[n - 1], w[n])
<1> DEFINE Op(x, e) == CurvePoint(x, e)
<1>1. PICK N \in Nat : N = Len(w) /\ DOMAIN w = 1 .. N
  OBVIOUS
<1>2. ASSUME NEW n \in 1 .. N, NEW x \in Curves PROVE Op(x, w[n]) \in Curves
  BY <1>1, CurvePointIs
<1> DEFINE step == [p \in Curves \X (1 .. N) |-> Op(p[1], w[p[2]])]
<1>3. step \in [Curves \X (1 .. N) -> Curves]
  BY <1>2
<1>4. \A x \in Curves, n \in 1 .. N : step[<<x, n>>] = Op(x, w[n])
  OBVIOUS
<1>5. PICK base \in Curves : base = [books |-> EmptyBooks, prices |-> Nil, points |-> <<>>]
  <2>1. <<>> \in Seq(Int) /\ Nil \in [Assets -> Nat]
    BY DEF Nil
  <2>2. QED
    BY <2>1, EmptyBooksAre DEF Curves
<1> HIDE DEF step
<1>6. PICK g \in [SUBSET (1 .. N) -> Curves] : FoldsBy(base, step, N, g)
  BY <1>3, FoldExists
<1>7. IsFold(Op, base, w, g)
  <2>1. ASSUME NEW s \in SUBSET (1 .. N), s # {}
        PROVE  g[s] = Op(g[s \ {Max(s)}], w[Max(s)])
    <3>1. Max(s) \in 1 .. N /\ g[s \ {Max(s)}] \in Curves
      BY <2>1, MaxIsIn
    <3>2. g[s] = step[<<g[s \ {Max(s)}], Max(s)>>]
      BY <2>1, <1>6 DEF FoldsBy
    <3>3. QED
      BY <1>4, <3>1, <3>2
  <2>2. g[{}] = base
    BY <1>6 DEF FoldsBy
  <2>3. QED
    BY <1>1, <2>1, <2>2 DEF IsFold, FoldStep
<1>8. PICK h : h = CHOOSE y : IsFold(Op, base, w, y)
  OBVIOUS
<1>9. IsFold(Op, base, w, h)
  BY <1>7, <1>8
<1>10. buildPnlCurve(w) = h[1 .. N]
  BY <1>1, <1>5, <1>8 DEF buildPnlCurve, FoldLeft, MapThenFoldSet, IsFold, FoldStep
<1>11. ASSUME NEW s \in SUBSET (1 .. N)
       PROVE  h[s] = IF s = {} THEN base ELSE Op(h[s \ {Max(s)}], w[Max(s)])
  BY <1>1, <1>9 DEF IsFold, FoldStep
<1>12. Unfolds(Curves, base, step, N, h)
  BY <1>4, <1>11, MaxIsIn DEF Unfolds
<1>13. RunsTo(Curves, base, step, N, h[1 .. N])
  BY <1>3, <1>12, UnfoldedRuns
<1>14. PICK f \in [0 .. N -> Curves] :
         /\ f[0] = base /\ h[1 .. N] = f[N]
         /\ \A n \in 1 .. N : f[n] = step[<<f[n - 1], n>>]
  BY <1>13 DEF RunsTo
<1>15. ASSUME NEW n \in 1 .. N PROVE f[n] = Op(f[n - 1], w[n])
  <2>1. f[n - 1] \in Curves
    BY <1>14
  <2>2. QED
    BY <1>4, <1>14, <2>1
<1>16. QED
  BY <1>1, <1>5, <1>10, <1>14, <1>15

\* The largest of some numbers.
LEMMA LargestIs ==
  ASSUME NEW S \in SUBSET Int, NEW d \in S, \A y \in S : d >= y
  PROVE  Max(S) = d
<1>1. PICK max : max = CHOOSE x \in S : \A y \in S : x >= y
  OBVIOUS
<1>2. max \in S /\ \A y \in S : max >= y
  BY <1>1
<1>3. max = d
  BY <1>2
<1>4. QED
  BY <1>1, <1>3 DEF Max

\* The decline that is reported is the worst of the curve, at any live prices.
LEMMA WorstDecline == ASSUME history \in Seq(Fill) PROVE DeclineIsTheWorst
<1>1. PICK curve \in Curves : curve = buildPnlCurve(Chronological)
  <2>1. PICK fills \in Seq(Fill) : fills = Chronological
    BY ChronologicalIs
  <2>2. PICK f \in [0 .. Len(fills) -> Curves] : buildPnlCurve(fills) = f[Len(fills)]
    BY CurveRuns
  <2>3. QED
    BY <2>1, <2>2
<1>2. ASSUME NEW prices \in [Assets -> Marks]
      PROVE  MarkedToLive(curve, prices) \in Seq(Int)
  <2>1. prices \in [Assets -> Nat]
    BY FillsAssumption
  <2>2. curve.books \in Books /\ curve.points \in Seq(Int)
    BY DEF Curves
  <2>3. Worth(curve.books, prices) \in Int
    BY <2>1, <2>2, WorthIs
  <2>4. QED
    BY <2>2, <2>3, AppendProperties DEF MarkedToLive
<1>3. ASSUME NEW values \in Seq(Int), NEW worst, worst = peakToTrough(values),
             NEW n, n = Len(values)
      PROVE  /\ worst.decline =
                  Max({0} \cup {values[p[1]] - values[p[2]] :
                                  p \in {q \in (1 .. n) \X (1 .. n) : q[1] < q[2]}})
             /\ worst.decline > 0 =>
                  /\ worst.peak < worst.trough
                  /\ values[worst.peak] - values[worst.trough] = worst.decline
  <2>1. /\ worst.decline \in Nat
        /\ \A i, j \in 1 .. n : i < j => values[i] - values[j] <= worst.decline
        /\ worst.decline > 0 =>
             /\ worst.peak \in 1 .. n /\ worst.trough \in 1 .. n
             /\ worst.peak < worst.trough
             /\ values[worst.peak] - values[worst.trough] = worst.decline
    BY <1>3, OnePassIsEnough
  <2> DEFINE S == {0} \cup {values[p[1]] - values[p[2]] :
                               p \in {q \in (1 .. n) \X (1 .. n) : q[1] < q[2]}}
  <2>2. \A i \in 1 .. n : values[i] \in Int
    BY <1>3
  <2>3. S \in SUBSET Int
    BY <2>2
  <2>4. PICK d \in Nat : d = worst.decline
    BY <2>1
  <2>5. d \in S
    <3>1. CASE d = 0
      BY <3>1
    <3>2. CASE d # 0
      <4>1. PICK i \in 1 .. n, j \in 1 .. n : i < j /\ values[i] - values[j] = d
        BY <2>1, <2>4, <3>2
      <4>2. <<i, j>> \in {q \in (1 .. n) \X (1 .. n) : q[1] < q[2]}
        BY <4>1
      <4>3. QED
        BY <4>1, <4>2, SMTT(30)
    <3>3. QED
      BY <3>1, <3>2
  <2>6. ASSUME NEW y \in S PROVE d >= y
    <3>1. CASE y = 0
      BY <3>1
    <3>2. CASE y # 0
      <4>1. PICK p \in {q \in (1 .. n) \X (1 .. n) : q[1] < q[2]} : y = values[p[1]] - values[p[2]]
        BY <3>2
      <4>2. PICK i \in 1 .. n, j \in 1 .. n : i = p[1] /\ j = p[2] /\ i < j
        OBVIOUS
      <4>3. y <= d
        BY <2>1, <2>4, <4>1, <4>2
      <4>4. y \in Int
        BY <2>3
      <4>5. QED
        BY <4>3, <4>4
    <3>3. QED
      BY <3>1, <3>2
  <2> HIDE DEF S
  <2>7. Max(S) = d
    BY <2>3, <2>5, <2>6, LargestIs
  <2>8. QED
    BY <2>1, <2>4, <2>7 DEF S
<1>4. QED
  BY <1>1, <1>2, <1>3 DEF DeclineIsTheWorst

-----------------------------------------------------------------------------
(***************************************************************************)
(* The theorems.                                                           *)
(***************************************************************************)
\* The history is one of executions.
LEMMA HistoryIs == Spec => [](history \in Seq(Fill))
<1>1. Init => history \in Seq(Fill)
  BY DEF Init
<1>2. history \in Seq(Fill) /\ [Next]_history => (history \in Seq(Fill))'
  <2>1. SUFFICES ASSUME history \in Seq(Fill), [Next]_history
        PROVE  history' \in Seq(Fill)
    OBVIOUS
  <2>2. CASE Next
    <3>1. PICK fill \in Fills : history' = Append(history, fill)
      BY <2>2 DEF Next
    <3>2. fill \in Fill
      BY FillsAssumption
    <3>3. QED
      BY <2>1, <3>1, <3>2, AppendProperties
  <2>3. CASE UNCHANGED history
    BY <2>1, <2>3
  <2>4. QED
    BY <2>1, <2>2, <2>3
<1>3. QED
  BY <1>1, <1>2, PTL DEF Spec

\* Lots are matched first in first out, whatever is bought and sold in whatever order.
THEOREM FirstInFirstOutAlways == Spec => []LotsAreFirstInFirstOut
<1>1. history \in Seq(Fill) => LotsAreFirstInFirstOut
  BY FirstInFirstOut
<1>2. QED
  BY <1>1, HistoryIs, PTL

\* The journal's trades and the tax lots make the same of every history that has its times.
THEOREM JournalAndLotsAgree == Spec => []JournalAgreesWithLots
<1>1. history \in Seq(Fill) => JournalAgreesWithLots
  BY JournalAgrees
<1>2. QED
  BY <1>1, HistoryIs, PTL

\* One pass over the profit curve finds its worst decline, at any live prices.
THEOREM OnePassFindsTheWorst == Spec => []DeclineIsTheWorst
<1>1. history \in Seq(Fill) => DeclineIsTheWorst
  BY WorstDecline
<1>2. QED
  BY <1>1, HistoryIs, PTL
=============================================================================
