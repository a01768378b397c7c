-------------------------- MODULE DashboardProofs --------------------------
(***************************************************************************)
(* Proofs about the two parts of the dashboard that keep a state of their  *)
(* own: Heatmap, for any focus windows whose columns divide them, any      *)
(* latency bands, any traces and any clock, and ChatPage, for any number   *)
(* of tool rounds, questions and visits.                                   *)
(***************************************************************************)
EXTENDS Heatmap, ChatPage, SequenceTheorems, Induction, TLAPS

-----------------------------------------------------------------------------
(* Division.                                                               *)

LEMMA Quotient ==
    ASSUME NEW a \in Int, NEW b \in Nat \ {0}
    PROVE  /\ a \div b \in Int /\ a = (a \div b) * b + (a % b)
           /\ a % b \in 0..(b - 1)
BY SMT

LEMMA QuotientUnique ==
    ASSUME NEW a \in Int, NEW b \in Nat \ {0}, NEW d \in Int, d * b <= a, a < d * b + b
    PROVE  a \div b = d
BY SMT

LEMMA Multiples ==
    ASSUME NEW d \in Int, NEW q \in Int, NEW b \in Nat \ {0}
    PROVE  /\ d <= q <=> d * b <= q * b
           /\ d < q <=> d * b < q * b
           /\ d < q <=> d * b + b <= q * b
BY SMT

\* Math.round of a whole number of buckets is that number.
LEMMA RoundedMultiple ==
    ASSUME NEW d \in Int, NEW b \in Nat \ {0}
    PROVE  (2 * (d * b) + b) \div (2 * b) = d
<1>1. 2 * b \in Nat \ {0} /\ d * b \in Int /\ d * (2 * b) = 2 * (d * b)
  BY SMT
<1>2. d * (2 * b) <= 2 * (d * b) + b /\ 2 * (d * b) + b < d * (2 * b) + 2 * b
  BY <1>1
<1> QED
  BY <1>1, <1>2, QuotientUnique

LEMMA BucketFacts ==
    ASSUME NEW p \in Presets
    PROVE  BucketMs(p) \in Nat \ {0} /\ p.cols \in Nat \ {0}
<1>1. p.ms \in Nat \ {0} /\ p.cols \in Nat \ {0} /\ p.ms % p.cols = 0
  BY PresetAssumption
<1>2. p.ms \in Int
  BY <1>1
<1>3. /\ p.ms \div p.cols \in Int
      /\ p.ms = (p.ms \div p.cols) * p.cols + (p.ms % p.cols)
  BY <1>1, <1>2, Quotient, Zenon
<1> PICK k, c, m : k = p.ms \div p.cols /\ c = p.cols /\ m = p.ms
  OBVIOUS
<1>4. k \in Int /\ c \in Nat \ {0} /\ m \in Nat \ {0} /\ m = k * c + 0
  BY <1>1, <1>3
<1>5. k > 0
  BY <1>4
<1> QED
  BY <1>1, <1>4, <1>5 DEF BucketMs

-----------------------------------------------------------------------------
(* The grid and the column of a selected bucket.                           *)

\* The number of the bucket that holds the time a.
Nr(a, b) == a \div b

LEMMA GridFacts ==
    ASSUME NEW n \in Nat, NEW p \in Presets
    PROVE  LET b == BucketMs(p)
               q == Nr(n, b)
               g == GridWindow(n, p)
           IN /\ q \in Int /\ q * b <= n /\ n < (q + 1) * b
              /\ g.bucket = b /\ g.cols = p.cols
              /\ g.to = (q + 1) * b /\ EndOfGrid(n, p) = (q + 1) * b
              /\ g.from = (q + 1 - p.cols) * b
<1> DEFINE b == BucketMs(p)
           q == Nr(n, b)
<1>1. b \in Nat \ {0} /\ p.cols \in Nat \ {0}
  BY BucketFacts
<1>2. q \in Int /\ n = q * b + (n % b) /\ n % b \in 0..(b - 1)
  <2>1. n \in Int
    OBVIOUS
  <2> QED
    BY <1>1, <2>1, Quotient, Zenon DEF Nr
<1>3. EndOfGrid(n, p) = q * b + b
  BY DEF EndOfGrid, Nr
<1>4. GridWindow(n, p) = [from |-> EndOfGrid(n, p) - p.cols * b, to |-> EndOfGrid(n, p),
                          bucket |-> b, cols |-> p.cols]
  BY DEF GridWindow
<1> HIDE DEF b, q
<1>5. q * b \in Int /\ (q + 1) * b = q * b + b
  BY <1>1, <1>2
<1>6. q * b + b - p.cols * b = (q + 1 - p.cols) * b
  BY <1>1, <1>2
<1>7. q * b <= n /\ n < q * b + b
  BY <1>1, <1>2, <1>5
<1>8. /\ q \in Int /\ q * b <= n /\ n < (q + 1) * b
      /\ GridWindow(n, p).bucket = b /\ GridWindow(n, p).cols = p.cols
      /\ GridWindow(n, p).to = (q + 1) * b /\ EndOfGrid(n, p) = (q + 1) * b
      /\ GridWindow(n, p).from = (q + 1 - p.cols) * b
  <2>1. /\ GridWindow(n, p).bucket = b /\ GridWindow(n, p).cols = p.cols
        /\ GridWindow(n, p).to = EndOfGrid(n, p)
        /\ GridWindow(n, p).from = EndOfGrid(n, p) - p.cols * b
    BY <1>4
  <2>2. EndOfGrid(n, p) = (q + 1) * b
    BY <1>3, <1>5
  <2>3. EndOfGrid(n, p) - p.cols * b = (q + 1 - p.cols) * b
    BY <1>1, <1>2, <1>3, <1>5
  <2> QED
    BY <1>2, <1>5, <1>7, <2>1, <2>2, <2>3
<1> QED
  BY <1>8, Zenon DEF b, q

\* A bucket on the grid's raster that is not after the last column is in the
\* column that lies as far from the left edge as it does, or left of it.
LEMMA ColumnOf ==
    ASSUME NEW n \in Nat, NEW p \in Presets, NEW sel, sel.bucket \in Int,
           sel.bucket % BucketMs(p) = 0, sel.bucket < EndOfGrid(n, p)
    PROVE  LET b == BucketMs(p)
               g == GridWindow(n, p)
           IN \E d \in Int :
                /\ sel.bucket = g.from + d * b /\ d < p.cols
                /\ SelectionCol(sel, g) = IF 0 <= d THEN d ELSE -1
<1> DEFINE b == BucketMs(p)
           q == Nr(n, b)
           g == GridWindow(n, p)
           k == sel.bucket \div b
           d == k - (q + 1 - p.cols)
<1>1. b \in Nat \ {0} /\ p.cols \in Nat \ {0}
  BY BucketFacts
<1>2. /\ q \in Int /\ g.bucket = b /\ g.cols = p.cols
      /\ EndOfGrid(n, p) = (q + 1) * b /\ g.from = (q + 1 - p.cols) * b
  BY GridFacts
<1>3. k \in Int /\ sel.bucket = k * b
  <2>1. k \in Int /\ sel.bucket = k * b + (sel.bucket % b)
    BY <1>1, Quotient, Zenon
  <2>2. sel.bucket % b = 0
    OBVIOUS
  <2> HIDE DEF k, b
  <2> QED
    BY <1>1, <2>1, <2>2
<1>4. SelectionCol(sel, g) =
        LET col == (2 * (sel.bucket - g.from) + g.bucket) \div (2 * g.bucket)
        IN IF 0 <= col /\ col < g.cols THEN col ELSE -1
  BY DEF SelectionCol
<1>5. d = k - (q + 1 - p.cols)
  OBVIOUS
<1>6. sel.bucket < EndOfGrid(n, p) /\ sel.bucket \in Int
  OBVIOUS
<1> HIDE DEF b, q, g, k, d
<1>7. d \in Int /\ k = (q + 1 - p.cols) + d
  BY <1>1, <1>2, <1>3, <1>5
<1>8. k * b = (q + 1 - p.cols) * b + d * b /\ (q + 1 - p.cols) * b \in Int /\ d * b \in Int
  BY <1>1, <1>2, <1>7
<1>9. sel.bucket = g.from + d * b /\ g.from \in Int
  BY <1>2, <1>3, <1>8
<1>10. d < p.cols
  <2>1. k * b < (q + 1) * b
    BY <1>2, <1>3, <1>6
  <2>2. k < q + 1
    BY <1>1, <1>2, <1>3, <2>1, Multiples
  <2> QED
    BY <1>1, <1>2, <1>3, <1>5, <2>2
<1>11. (2 * (sel.bucket - g.from) + g.bucket) \div (2 * g.bucket) = d
  <2>1. sel.bucket - g.from = d * b
    BY <1>6, <1>8, <1>9
  <2> QED
    BY <1>1, <1>2, <1>7, <2>1, RoundedMultiple
<1>12. SelectionCol(sel, g) = IF 0 <= d THEN d ELSE -1
  BY <1>1, <1>2, <1>4, <1>7, <1>10, <1>11
<1> QED
  BY <1>7, <1>9, <1>10, <1>12 DEF b, g

\* A time is in column d exactly when it lies in the d-th bucket of the grid.
LEMMA TimeColOf ==
    ASSUME NEW n \in Nat, NEW p \in Presets, NEW start \in Nat, NEW d \in Nat, d < p.cols
    PROVE  LET b == BucketMs(p)
               g == GridWindow(n, p)
               since == g.from + d * b
           IN /\ TimeCol(start, g) = d <=> since <= start /\ start < since + b
              /\ since <= start /\ start < since + b => g.from <= start /\ start < g.to
<1> DEFINE b == BucketMs(p)
           g == GridWindow(n, p)
           q == Nr(n, b)
<1>1. b \in Nat \ {0} /\ p.cols \in Nat \ {0}
  BY BucketFacts
<1>2. /\ q \in Int /\ g.bucket = b /\ g.to = (q + 1) * b
      /\ g.from = (q + 1 - p.cols) * b
  BY GridFacts
<1>3. TimeCol(start, g) =
        IF start < g.from \/ start >= g.to THEN -1 ELSE (start - g.from) \div g.bucket
  BY DEF TimeCol
<1> HIDE DEF b, g, q
<1>4. g.from \in Int /\ g.to \in Int /\ g.to = g.from + p.cols * b /\ p.cols * b \in Int
  <2>1. (q + 1) * b = (q + 1 - p.cols) * b + p.cols * b
    BY <1>1, <1>2
  <2> QED
    BY <1>1, <1>2, <2>1
<1>5. d * b \in Int /\ 0 <= d * b /\ d * b + b <= p.cols * b
  <2>1. d * b + b <= p.cols * b
    <3>1. p.cols \in Int /\ d \in Int
      BY <1>1
    <3>2. d < p.cols <=> d * b + b <= p.cols * b
      BY <1>1, <3>1, Multiples, Zenon
    <3> QED
      BY <3>2
  <2> QED
    BY <1>1, <2>1
<1>6. g.from + d * b <= start /\ start < g.from + d * b + b => g.from <= start /\ start < g.to
  <2> PICK x, y, z, f : x = d * b /\ y = p.cols * b /\ z = b /\ f = g.from
    OBVIOUS
  <2>1. x \in Int /\ y \in Int /\ z \in Nat /\ f \in Int /\ 0 <= x /\ x + z <= y /\ g.to = f + y
    BY <1>1, <1>4, <1>5
  <2>2. f + x <= start /\ start < f + x + z => f <= start /\ start < g.to
    BY <2>1
  <2> QED
    BY <2>2
<1>7. ASSUME g.from + d * b <= start, start < g.from + d * b + b
      PROVE  TimeCol(start, g) = d
  <2>1. d * b <= start - g.from /\ start - g.from < d * b + b /\ start - g.from \in Int
    BY <1>1, <1>4, <1>5, <1>7
  <2>2. (start - g.from) \div b = d
    <3>1. d \in Int
      OBVIOUS
    <3> QED
      BY <1>1, <2>1, <3>1, QuotientUnique, Zenon
  <2>3. ~(start < g.from \/ start >= g.to)
    BY <1>4, <1>6, <1>7
  <2> QED
    BY <1>2, <1>3, <2>2, <2>3, Zenon
<1>8. ASSUME TimeCol(start, g) = d
      PROVE  g.from + d * b <= start /\ start < g.from + d * b + b
  <2>1. (start - g.from) \div b = d
    BY <1>2, <1>3, <1>8
  <2>2. /\ start - g.from \in Int /\ (start - g.from) % b \in 0..(b - 1)
        /\ start - g.from = d * b + ((start - g.from) % b)
    <3>1. start - g.from \in Int
      BY <1>4
    <3>2. /\ (start - g.from) % b \in 0..(b - 1)
          /\ start - g.from = ((start - g.from) \div b) * b + ((start - g.from) % b)
      BY <1>1, <3>1, Quotient, Zenon
    <3> QED
      BY <2>1, <3>1, <3>2, Zenon
  <2> PICK r, x : r = (start - g.from) % b /\ x = d * b
    OBVIOUS
  <2>3. r \in 0..(b - 1) /\ start - g.from = x + r /\ x \in Int
    BY <1>5, <2>2
  <2>4. g.from + x <= start /\ start < g.from + x + b
    BY <1>1, <1>4, <2>3
  <2> QED
    BY <2>4
<1> QED
  BY <1>6, <1>7, <1>8 DEF b, g

-----------------------------------------------------------------------------
(* The theorems.                                                           *)

LEMMA NoneIsNoCell == \A sel \in [bucket : Int, band : Bands] : sel # NoSelection
<1>1. Len(LatencyBounds) \in Nat
  BY DataAssumption
<1> QED
  BY <1>1 DEF Bands, NoSelection

LEMMA HeatStart == HeatInit => HeatInv
BY PresetAssumption, DataAssumption DEF HeatInit, HeatInv

\* A click selects a bucket of the raster that the grid has.
LEMMA ClickKeeps ==
    ASSUME HeatInv, Click
    PROVE  HeatInv'
<1>1. now' = now /\ preset' = preset /\ now \in Nat /\ preset \in Presets
  BY DEF Click, HeatInv
<1>2. PICK band \in Bands, col \in 0..(Grid.cols - 1) :
        selection' = NoSelection
        \/ selection' = [bucket |-> Grid.from + col * Grid.bucket, band |-> band]
  BY DEF Click
<1>3. PICK b \in Nat \ {0}, c \in Nat \ {0} : b = BucketMs(preset) /\ c = preset.cols
  BY <1>1, BucketFacts
<1>4. PICK q \in Int : /\ Grid.bucket = b /\ Grid.cols = c
                       /\ Grid.from = (q + 1 - c) * b
                       /\ EndOfGrid(now, preset) = (q + 1) * b
  BY <1>1, <1>3, GridFacts, Zenon DEF Grid
<1>5. PICK k \in Int : k = q + 1 - c + col /\ k < q + 1
  BY <1>3, <1>4
<1>6. Grid.from + col * Grid.bucket = k * b
  BY <1>3, <1>4, <1>5
<1>7. k * b \in Int /\ (k * b) % b = 0 /\ k * b < (q + 1) * b
  BY <1>3, <1>4, <1>5, SMT
<1>8. CASE selection' = NoSelection
  BY <1>1, <1>8 DEF HeatInv
<1>9. CASE selection' = [bucket |-> Grid.from + col * Grid.bucket, band |-> band]
  <2>1. selection' = [bucket |-> k * b, band |-> band]
    BY <1>6, <1>9
  <2>2. /\ selection' \in [bucket : Int, band : Bands]
        /\ selection'.bucket % b = 0 /\ selection'.bucket < (q + 1) * b
    BY <1>7, <2>1
  <2>3. BucketMs(preset') = b /\ EndOfGrid(now', preset') = (q + 1) * b
    BY <1>1, <1>3, <1>4
  <2> QED
    BY <1>1, <2>2, <2>3 DEF HeatInv
<1> QED
  BY <1>2, <1>8, <1>9

\* The clock only moves the right edge of the grid on.
LEMMA TickKeeps ==
    ASSUME HeatInv, Tick
    PROVE  HeatInv'
<1>1. /\ preset' = preset /\ selection' = selection /\ preset \in Presets
      /\ now \in Nat /\ now' \in Nat /\ now < now'
  BY DataAssumption DEF Tick, HeatInv
<1>2. EndOfGrid(now, preset) <= EndOfGrid(now', preset)
  <2>1. PICK b \in Nat \ {0} : b = BucketMs(preset)
    BY <1>1, BucketFacts
  <2>2. PICK q \in Int : q * b <= now /\ EndOfGrid(now, preset) = (q + 1) * b
    BY <1>1, <2>1, GridFacts, Zenon
  <2>3. PICK r \in Int : now' < (r + 1) * b /\ EndOfGrid(now', preset) = (r + 1) * b
    BY <1>1, <2>1, GridFacts, Zenon
  <2>4. q * b < (r + 1) * b
    BY <1>1, <2>1, <2>2, <2>3
  <2>5. q < r + 1
    BY <2>1, <2>4, SMT
  <2>6. (q + 1) * b <= (r + 1) * b
    BY <2>1, <2>5, SMT
  <2> QED
    BY <2>2, <2>3, <2>6
<1>3. EndOfGrid(now, preset) \in Int /\ EndOfGrid(now', preset) \in Int
  BY <1>1, BucketFacts, GridFacts
<1>4. selection # NoSelection => selection.bucket < EndOfGrid(now', preset)
  BY <1>2, <1>3 DEF HeatInv
<1> QED
  BY <1>1, <1>4 DEF HeatInv

LEMMA HeatKeeps == HeatInv /\ [HeatNext]_heatVars => HeatInv'
<1> SUFFICES ASSUME HeatInv, [HeatNext]_heatVars PROVE HeatInv'
  OBVIOUS
<1>1. CASE Tick
  BY <1>1, TickKeeps
<1>2. CASE Click
  BY <1>2, ClickKeeps
<1>3. CASE ChangePreset
  BY <1>3 DEF ChangePreset, DroppedSelection, HeatInv
<1>4. CASE Clear
  BY <1>4 DEF Clear, HeatInv
<1>5. CASE UNCHANGED heatVars
  BY <1>5 DEF heatVars, HeatInv
<1> QED
  BY <1>1, <1>2, <1>3, <1>4, <1>5 DEF HeatNext

\* A selection keeps to the raster of its focus window (HomeClient.tsx).
THEOREM SelectionOnRaster == HeatSpec => []HeatInv
BY HeatStart, HeatKeeps, PTL DEF HeatSpec

\* The selected bucket, by the column it is in or its distance to the left edge.
LEMMA SelectedColumn ==
    ASSUME HeatInv, selection # NoSelection
    PROVE  \E d \in Int :
             /\ selection.bucket = Grid.from + d * Grid.bucket /\ d < preset.cols
             /\ SelectionCol(selection, Grid) = IF 0 <= d THEN d ELSE -1
<1>1. /\ now \in Nat /\ preset \in Presets /\ selection.bucket \in Int
      /\ selection.bucket % BucketMs(preset) = 0
      /\ selection.bucket < EndOfGrid(now, preset)
  BY DEF HeatInv
<1>2. Grid = GridWindow(now, preset) /\ Grid.bucket = BucketMs(preset)
  BY <1>1, GridFacts DEF Grid
<1> QED
  BY <1>1, <1>2, ColumnOf, Zenon

LEMMA GridNumbers ==
    ASSUME HeatInv
    PROVE  /\ Grid.from \in Int /\ Grid.bucket \in Nat \ {0}
           /\ Grid.bucket = BucketMs(preset)
<1>1. now \in Nat /\ preset \in Presets
  BY DEF HeatInv
<1>2. PICK b \in Nat \ {0}, c \in Nat \ {0} : b = BucketMs(preset) /\ c = preset.cols
  BY <1>1, BucketFacts
<1>3. PICK q \in Int : Grid.bucket = b /\ Grid.from = (q + 1 - c) * b
  BY <1>1, <1>2, GridFacts, Zenon DEF Grid
<1> QED
  BY <1>2, <1>3

LEMMA SelectionStays == HeatInv => SelectionStaysPut
<1> SUFFICES ASSUME HeatInv, selection # NoSelection, ~SelectionGone
             PROVE  LET col == SelectionCol(selection, Grid)
                    IN /\ TableTraces =
                            {t \in ClosedTraces :
                                /\ selection.bucket <= t.start
                                /\ t.start < selection.bucket + Grid.bucket
                                /\ LatencyBand(t.latency) = selection.band}
                       /\ TableTraces = {t \in ClosedTraces :
                                            /\ TimeCol(t.start, Grid) = col
                                            /\ LatencyBand(t.latency) = selection.band}
  BY DEF SelectionStaysPut
<1>1. now \in Nat /\ preset \in Presets
  BY DEF HeatInv
<1>2. PICK d \in Int :
        /\ selection.bucket = Grid.from + d * Grid.bucket /\ d < preset.cols
        /\ SelectionCol(selection, Grid) = IF 0 <= d THEN d ELSE -1
  BY SelectedColumn
<1>3. d \in Nat /\ SelectionCol(selection, Grid) = d
  BY <1>2 DEF SelectionGone
<1>4. \A t \in ClosedTraces :
        /\ \/ TimeCol(t.start, Grid) = d /\ selection.bucket <= t.start
             /\ t.start < selection.bucket + Grid.bucket
           \/ TimeCol(t.start, Grid) # d
             /\ ~(selection.bucket <= t.start /\ t.start < selection.bucket + Grid.bucket)
        /\ selection.bucket <= t.start /\ t.start < selection.bucket + Grid.bucket
             => Grid.from <= t.start /\ t.start < Grid.to
  <2> TAKE t \in ClosedTraces
  <2>1. t.start \in Nat
    BY DataAssumption
  <2>2. Grid = GridWindow(now, preset) /\ Grid.bucket = BucketMs(preset)
    BY GridNumbers DEF Grid
  <2>3. /\ TimeCol(t.start, GridWindow(now, preset)) = d <=>
             /\ GridWindow(now, preset).from + d * BucketMs(preset) <= t.start
             /\ t.start < GridWindow(now, preset).from + d * BucketMs(preset) + BucketMs(preset)
        /\ /\ GridWindow(now, preset).from + d * BucketMs(preset) <= t.start
           /\ t.start < GridWindow(now, preset).from + d * BucketMs(preset) + BucketMs(preset)
           => /\ GridWindow(now, preset).from <= t.start
              /\ t.start < GridWindow(now, preset).to
    BY <1>1, <1>2, <1>3, <2>1, TimeColOf, Zenon
  <2> QED
    BY <1>2, <2>2, <2>3, Zenon
<1>5. TableTraces = {t \in InWindow : TraceInCell(t, selection, Grid)}
  BY DEF TableTraces
<1>6. \A t \in ClosedTraces :
        t \in TableTraces <=> TimeCol(t.start, Grid) = d /\ LatencyBand(t.latency) = selection.band
  BY <1>3, <1>4, <1>5 DEF InWindow, TraceInCell
<1>7. TableTraces \subseteq ClosedTraces
  BY <1>5 DEF InWindow
<1> QED
  BY <1>3, <1>4, <1>6, <1>7

LEMMA GoneIsPast == HeatInv => GoneMeansScrolledOff
<1> SUFFICES ASSUME HeatInv, SelectionGone
             PROVE  selection.bucket + Grid.bucket <= Grid.from
  BY DEF GoneMeansScrolledOff
<1>1. PICK d \in Int :
        /\ selection.bucket = Grid.from + d * Grid.bucket /\ d < preset.cols
        /\ SelectionCol(selection, Grid) = IF 0 <= d THEN d ELSE -1
  BY SelectedColumn DEF SelectionGone
<1>2. d < 0
  BY <1>1 DEF SelectionGone
<1>3. PICK b \in Nat \ {0}, f \in Int : b = Grid.bucket /\ f = Grid.from
  BY GridNumbers
<1>4. f + d * b + b <= f
  BY <1>2, <1>3, SMT
<1> QED
  BY <1>1, <1>3, <1>4

\* As long as its cell is on the grid, a selection goes on showing the traces
\* of the bucket that was clicked, whatever the clock, the focus window and the
\* traces (buckets.ts, HomeClient.tsx).
THEOREM SelectedCellIsStable == HeatSpec => []SelectionStaysPut
BY SelectionOnRaster, SelectionStays, PTL

\* A selection is only called gone when its whole bucket is left of the grid.
THEOREM GoneBucketsArePast == HeatSpec => []GoneMeansScrolledOff
BY SelectionOnRaster, GoneIsPast, PTL

-----------------------------------------------------------------------------
(* The chat page.                                                            *)

USE ChatAssumption

-----------------------------------------------------------------------------
(* Sequences.                                                              *)

\* A history grows by one whatever is put into it.
LEMMA HistoryGrows ==
    ASSUME NEW s, s \in Seq(ToSet(s)), NEW x
    PROVE  /\ Append(s, x) \in Seq(ToSet(Append(s, x)))
           /\ Len(s) \in Nat /\ Len(Append(s, x)) = Len(s) + 1
<1> DEFINE S == ToSet(s) \cup {x}
           t == Append(s, x)
<1>1. s \in Seq(S)
  BY SeqMonotonic
<1>2. /\ t \in Seq(S) /\ Len(t) = Len(s) + 1 /\ Len(s) \in Nat
  BY <1>1, AppendProperties, LenProperties
<1>3. t \in [1..Len(t) -> S] /\ DOMAIN t = 1..Len(t)
  BY <1>2, LenProperties
<1> HIDE DEF t, S
<1>4. \A i \in 1..Len(t) : t[i] \in ToSet(t)
  BY <1>3 DEF ToSet
<1>5. Len(t) \in Nat /\ t = [i \in 1..Len(t) |-> t[i]]
  BY <1>2, <1>3
<1>6. t \in Seq(ToSet(t))
  <2>1. t \in [1..Len(t) -> ToSet(t)]
    BY <1>4, <1>5
  <2> QED
    BY <1>5, <2>1
<1> QED
  BY <1>2, <1>6 DEF t

LEMMA ThreadGrows ==
    ASSUME NEW s \in Seq(Entries), NEW e \in Entries
    PROVE  /\ Append(s, e) \in Seq(Entries) /\ Len(Append(s, e)) = Len(s) + 1
           /\ Append(s, e) # <<>>
           /\ \A i \in 1..Len(s) : Append(s, e)[i] = s[i]
           /\ Append(s, e)[Len(s) + 1] = e /\ Len(s) \in Nat
BY AppendProperties, LenProperties

LEMMA ThreadShrinks ==
    ASSUME NEW s \in Seq(Entries), s # <<>>
    PROVE  /\ Front(s) \in Seq(Entries) /\ Len(Front(s)) = Len(s) - 1
           /\ Len(s) \in Nat \ {0}
           /\ \A i \in 1..(Len(s) - 1) : Front(s)[i] = s[i]
<1>1. Len(s) \in Nat \ {0} /\ \A i \in 1..Len(s) : s[i] \in Entries
  BY EmptySeq, ElementOfSeq
<1> DEFINE m == Len(s) - 1
<1>2. m \in Int /\ \A i \in 1..m : s[i] \in Entries
  BY <1>1
<1>3. /\ SubSeq(s, 1, m) \in Seq(Entries)
      /\ Len(SubSeq(s, 1, m)) = IF 1 <= m THEN m - 1 + 1 ELSE 0
      /\ \A i \in 1..(m - 1 + 1) : SubSeq(s, 1, m)[i] = s[1 + i - 1]
  BY <1>2, SubSeqProperties
<1>4. Front(s) = SubSeq(s, 1, m)
  BY DEF Front
<1> HIDE DEF m
<1>5. m = Len(s) - 1 /\ m \in Nat /\ m - 1 + 1 = m
  BY <1>1 DEF m
<1>6. Len(Front(s)) = m /\ \A i \in 1..m : Front(s)[i] = s[1 + i - 1]
  BY <1>3, <1>4, <1>5
<1>7. \A i \in Int : 1 + i - 1 = i
  OBVIOUS
<1>8. \A i \in 1..m : Front(s)[i] = s[i]
  BY <1>5, <1>6, <1>7
<1> QED
  BY <1>1, <1>3, <1>4, <1>5, <1>6, <1>8

-----------------------------------------------------------------------------
(* The questions of a thread.                                              *)

\* Every question of the entries has its answer, is stopped or left, or is the
\* pending one.
Accounted(entries, gone, waiting) ==
    \A i \in 1..Len(entries) :
        entries[i].role = "user" =>
            \/ Followed(entries, i) \/ entries[i].stopped \/ entries[i].n \in gone
            \/ waiting /\ i = Len(entries)

LEMMA AskedAccounted ==
    ASSUME NEW s \in Seq(Entries), NEW gone, Accounted(s, gone, FALSE), NEW n \in Nat
    PROVE  Accounted(Append(s, Question(n)), gone, TRUE)
<1>1. Question(n) \in Entries
  BY DEF Question, Entries
<1> PICK t : t = Append(s, Question(n))
  OBVIOUS
<1>2. /\ t \in Seq(Entries) /\ Len(t) = Len(s) + 1 /\ Len(s) \in Nat
      /\ \A i \in 1..Len(s) : t[i] = s[i]
  BY <1>1, ThreadGrows
<1>3. \A i \in 1..Len(s) : Followed(s, i) => Followed(t, i)
  BY <1>2 DEF Followed
<1>4. \A i \in 1..Len(t) : i \in 1..Len(s) \/ i = Len(t)
  BY <1>2
<1> QED
  BY <1>2, <1>3, <1>4 DEF Accounted

LEMMA AnsweredAccounted ==
    ASSUME NEW s \in Seq(Entries), s # <<>>, NEW gone, NEW n \in Nat,
           Accounted(s, gone, TRUE), s[Len(s)] = Question(n)
    PROVE  Accounted(Append(s, Answer(n)), gone, FALSE)
<1>1. Answer(n) \in Entries /\ Answer(n).role = "assistant"
  BY DEF Answer, Entries
<1> PICK t : t = Append(s, Answer(n))
  OBVIOUS
<1>2. /\ t \in Seq(Entries) /\ Len(t) = Len(s) + 1 /\ Len(s) \in Nat
      /\ \A i \in 1..Len(s) : t[i] = s[i]
      /\ t[Len(s) + 1] = Answer(n)
  BY <1>1, ThreadGrows
<1>3. \A i \in 1..Len(s) : Followed(s, i) => Followed(t, i)
  BY <1>2 DEF Followed
<1>4. Len(s) \in 1..Len(s) /\ s[Len(s)].n = n
  BY EmptySeq DEF Question
<1>5. Followed(t, Len(s))
  BY <1>2, <1>4 DEF Followed
<1>6. \A i \in 1..Len(t) : i \in 1..Len(s) \/ i = Len(s) + 1
  BY <1>2
<1> QED
  BY <1>1, <1>2, <1>3, <1>5, <1>6 DEF Accounted

\* No question is followed by the last one.
LEMMA RolledBackAccounted ==
    ASSUME NEW s \in Seq(Entries), s # <<>>, NEW gone, NEW n \in Nat,
           Accounted(s, gone, TRUE), s[Len(s)] = Question(n)
    PROVE  Accounted(Front(s), gone, FALSE)
<1> PICK t : t = Front(s)
  OBVIOUS
<1>1. /\ t \in Seq(Entries) /\ Len(t) = Len(s) - 1 /\ Len(s) \in Nat \ {0}
      /\ \A i \in 1..(Len(s) - 1) : t[i] = s[i]
  BY ThreadShrinks
<1>2. ASSUME NEW i \in 1..Len(t), Followed(s, i) PROVE Followed(t, i)
  <2>1. s[i + 1].role = "assistant"
    BY <1>2 DEF Followed, Answer
  <2>2. i + 1 # Len(s)
    BY <2>1 DEF Question
  <2>3. i < Len(t) /\ i + 1 \in 1..(Len(s) - 1) /\ i \in 1..(Len(s) - 1)
    BY <1>1, <2>2
  <2> QED
    BY <1>1, <1>2, <2>3 DEF Followed
<1>3. \A i \in 1..Len(t) : i \in 1..Len(s) /\ i # Len(s) /\ t[i] = s[i]
  BY <1>1
<1> QED
  BY <1>2, <1>3 DEF Accounted

LEMMA StoppedAccounted ==
    ASSUME NEW s \in Seq(Entries), s # <<>>, NEW gone, NEW n \in Nat,
           Accounted(s, gone, TRUE), s[Len(s)] = Question(n),
           NEW t, t = [s EXCEPT ![Len(s)].stopped = TRUE]
    PROVE  t \in Seq(Entries) /\ Accounted(t, gone, FALSE)
<1>1. Len(s) \in Nat \ {0} /\ s \in [1..Len(s) -> Entries]
  BY EmptySeq, LenProperties
<1>2. \A e \in Entries : [e EXCEPT !.stopped = TRUE] \in Entries
  BY DEF Entries
<1>3. /\ t \in [1..Len(s) -> Entries]
      /\ \A i \in 1..(Len(s) - 1) : t[i] = s[i]
      /\ t[Len(s)] = [s[Len(s)] EXCEPT !.stopped = TRUE]
  BY <1>1, <1>2
<1>4. t \in Seq(Entries) /\ Len(t) = Len(s)
  BY <1>1, <1>3, LenProperties
<1>5. t[Len(s)].stopped
  BY <1>3 DEF Question
<1>6. ASSUME NEW i \in 1..(Len(s) - 1), Followed(s, i) PROVE Followed(t, i)
  <2>1. s[i + 1].role = "assistant"
    BY <1>6 DEF Followed, Answer
  <2>2. i + 1 # Len(s)
    BY <2>1 DEF Question
  <2>3. i + 1 \in 1..(Len(s) - 1) /\ i < Len(t)
    BY <1>1, <1>4, <2>2
  <2> QED
    BY <1>3, <1>6, <2>3 DEF Followed
<1>7. \A i \in 1..Len(t) : i = Len(s) \/ (i \in 1..(Len(s) - 1) /\ i \in 1..Len(s) /\ i # Len(s))
  BY <1>1, <1>4
<1> QED
  BY <1>3, <1>4, <1>5, <1>6, <1>7 DEF Accounted

-----------------------------------------------------------------------------
(* The invariant.                                                          *)

LEMMA SavedIsAccounted == ChatInv => Accounted(saved, left, pending)
BY DEF ChatInv, SavedInv, Accounted

\* What the page knows of a call it waits for.
LEMMA WantedCall ==
    ASSUME ChatInv, NEW c \in calls, Wanted(c)
    PROVE  /\ pending /\ mounted /\ saved = thread /\ thread # <<>>
           /\ c.n = Len(given) /\ c.n \in Nat /\ thread[Len(thread)] = Question(c.n)
           /\ Accounted(thread, left, TRUE)
<1>1. pending /\ c.n = Len(given) /\ c.n \in Nat
  BY DEF ChatInv, CallsInv
<1>2. mounted /\ thread # <<>> /\ thread[Len(thread)] = Question(Len(given))
  BY <1>1 DEF ChatInv, PendingInv
<1>3. saved = thread
  BY <1>2 DEF ChatInv, SavedInv
<1>4. pending = TRUE
  BY <1>1 DEF ChatInv
<1>5. Accounted(saved, left, pending)
  BY SavedIsAccounted
<1> QED
  BY <1>1, <1>2, <1>3, <1>4, <1>5

\* The call is over, and the page no longer waits.
LEMMA CallEnds ==
    ASSUME ChatInv, NEW c \in calls, calls' = calls \ {c},
           UNCHANGED <<activeReq, reqCounter, given>>,
           pending' = pending \/ Wanted(c)
    PROVE  CallsInv'
<1>1. /\ calls \subseteq [id : 1..reqCounter, n : 1..Len(given), round : Nat,
                          result : {"none", "reply", "error"}]
      /\ \A d, e \in calls : d.id = e.id => d = e
      /\ \A d \in calls : Wanted(d) => pending /\ d.n = Len(given)
  BY DEF ChatInv, CallsInv
<1>2. \A d \in calls' : Wanted(d)' => Wanted(d) /\ d.id # c.id
  BY <1>1 DEF Wanted
<1>3. \A d \in calls' : Wanted(d)' => ~Wanted(c)
  BY <1>2 DEF Wanted
<1>4. \A d \in calls' : Wanted(d)' => pending' /\ d.n = Len(given')
  BY <1>1, <1>2, <1>3
<1> QED
  BY <1>1, <1>4 DEF CallsInv

LEMMA SendKeeps ==
    ASSUME ChatInv, Send
    PROVE  ChatInv'
<1> PICK n, id : n = Len(given) + 1 /\ id = reqCounter + 1
  OBVIOUS
<1>1. /\ mounted /\ ~pending /\ thread' = Append(thread, Question(n)) /\ saved' = thread'
      /\ reqCounter' = id /\ activeReq' = id /\ pending' = TRUE
      /\ given' = Append(given, Append(Context(thread), Question(n)))
      /\ calls' = calls \cup {[id |-> id, n |-> n, round |-> 0, result |-> "none"]}
      /\ UNCHANGED <<visits, mounted, left>>
  BY DEF Send, Show
<1>2. /\ given' \in Seq(ToSet(given')) /\ Len(given) \in Nat /\ Len(given') = n /\ n \in Nat
  BY <1>1, HistoryGrows DEF ChatInv
<1>3. /\ thread \in Seq(Entries) /\ saved = thread /\ reqCounter \in Nat
      /\ id \in Nat \ {0} /\ Accounted(thread, left, FALSE)
  <2>1. pending = FALSE
    BY <1>1, Zenon DEF ChatInv
  <2>2. Accounted(thread, left, FALSE)
    BY <1>1, <2>1, SavedIsAccounted DEF ChatInv, SavedInv
  <2>3. saved = thread
    BY <1>1 DEF ChatInv, SavedInv
  <2>4. thread \in Seq(Entries) /\ reqCounter \in Nat
    BY DEF ChatInv
  <2>5. id \in Nat \ {0}
    BY <2>4
  <2> QED
    BY <2>2, <2>3, <2>4, <2>5, Zenon
<1>4. Question(n) \in Entries
  BY <1>2 DEF Question, Entries
<1>5. /\ thread' \in Seq(Entries) /\ thread' # <<>>
      /\ thread'[Len(thread')] = Question(n)
  BY <1>1, <1>3, <1>4, ThreadGrows
<1>6. CallsInv'
  <2>1. /\ calls \subseteq [id : 1..reqCounter, n : 1..Len(given), round : Nat,
                            result : {"none", "reply", "error"}]
        /\ \A d, e \in calls : d.id = e.id => d = e
    BY DEF ChatInv, CallsInv
  <2> PICK new : new = [id |-> id, n |-> n, round |-> 0, result |-> "none"]
    OBVIOUS
  <2>2. new.id = id /\ new.n = n /\ calls' = calls \cup {new}
    BY <1>1
  <2>3. \A d \in calls : d.id # id /\ d.id \in 1..id
    BY <1>3, <2>1
  <2>4. calls' \subseteq [id : 1..reqCounter', n : 1..Len(given'), round : Nat,
                         result : {"none", "reply", "error"}]
    BY <1>1, <1>2, <1>3, <2>1
  <2>5. \A d, e \in calls' : d.id = e.id => d = e
    BY <2>1, <2>2, <2>3
  <2>6. \A d \in calls' : Wanted(d)' => pending' /\ d.n = Len(given')
    BY <1>1, <1>2, <2>2, <2>3 DEF Wanted
  <2> QED
    BY <2>4, <2>5, <2>6 DEF CallsInv
<1>7. PendingInv'
  BY <1>1, <1>2, <1>3, <1>5 DEF PendingInv
<1>8. SavedInv'
  <2>1. Accounted(thread', left, TRUE)
    BY <1>1, <1>2, <1>3, AskedAccounted
  <2> QED
    BY <1>1, <2>1 DEF SavedInv, Accounted
<1> QED
  BY <1>1, <1>2, <1>3, <1>5, <1>6, <1>7, <1>8 DEF ChatInv

LEMMA ReplyKeeps ==
    ASSUME ChatInv, NEW c \in calls, ReplyArrives(c)
    PROVE  ChatInv'
<1>1. /\ calls' = calls \ {c}
      /\ UNCHANGED <<activeReq, reqCounter, visits, mounted, given, left>>
  BY DEF ReplyArrives
<1>2. CASE Wanted(c)
  <2>1. /\ pending /\ mounted /\ saved = thread /\ thread # <<>>
        /\ c.n \in Nat /\ thread[Len(thread)] = Question(c.n)
        /\ Accounted(thread, left, TRUE)
    BY <1>2, WantedCall
  <2>2. thread' = Append(thread, Answer(c.n)) /\ saved' = thread' /\ pending' = FALSE
    BY <1>2 DEF ReplyArrives, Show
  <2>3. Answer(c.n) \in Entries /\ thread \in Seq(Entries)
    BY <2>1 DEF Answer, Entries, ChatInv
  <2>4. thread' \in Seq(Entries)
    BY <2>2, <2>3, ThreadGrows
  <2>5. Accounted(thread', left, FALSE)
    BY <2>1, <2>2, <2>3, AnsweredAccounted
  <2>6. CallsInv'
    BY <1>1, <1>2, CallEnds
  <2>7. SavedInv'
    BY <1>1, <2>1, <2>2, <2>5 DEF SavedInv, Accounted
  <2>8. PendingInv'
    BY <2>2 DEF PendingInv
  <2> QED
    BY <1>1, <2>2, <2>4, <2>6, <2>7, <2>8 DEF ChatInv
<1>3. CASE ~Wanted(c)
  <2>1. UNCHANGED <<thread, saved, pending>>
    BY <1>3 DEF ReplyArrives
  <2>2. CallsInv'
    BY <1>1, <2>1, CallEnds
  <2>3. PendingInv' /\ SavedInv'
    BY <1>1, <2>1 DEF ChatInv, PendingInv, SavedInv
  <2> QED
    BY <1>1, <2>1, <2>2, <2>3 DEF ChatInv
<1> QED
  BY <1>2, <1>3

LEMMA FailureKeeps ==
    ASSUME ChatInv, NEW c \in calls, FailureArrives(c)
    PROVE  ChatInv'
<1>1. /\ calls' = calls \ {c}
      /\ UNCHANGED <<activeReq, reqCounter, visits, mounted, given, left>>
  BY DEF FailureArrives
<1>2. CASE Wanted(c)
  <2>1. /\ pending /\ mounted /\ saved = thread /\ thread # <<>>
        /\ c.n \in Nat /\ thread[Len(thread)] = Question(c.n)
        /\ Accounted(thread, left, TRUE)
    BY <1>2, WantedCall
  <2>2. thread' = Front(thread) /\ saved' = thread' /\ pending' = FALSE
    BY <1>2 DEF FailureArrives, Show, RollBack
  <2>3. thread \in Seq(Entries)
    BY DEF ChatInv
  <2>4. thread' \in Seq(Entries)
    BY <2>1, <2>2, <2>3, ThreadShrinks
  <2>5. Accounted(thread', left, FALSE)
    BY <2>1, <2>2, <2>3, RolledBackAccounted
  <2>6. CallsInv'
    BY <1>1, <1>2, CallEnds
  <2>7. SavedInv'
    BY <1>1, <2>1, <2>2, <2>5 DEF SavedInv, Accounted
  <2>8. PendingInv'
    BY <2>2 DEF PendingInv
  <2> QED
    BY <1>1, <2>2, <2>4, <2>6, <2>7, <2>8 DEF ChatInv
<1>3. CASE ~Wanted(c)
  <2>1. UNCHANGED <<thread, saved, pending>>
    BY <1>3 DEF FailureArrives
  <2>2. CallsInv'
    BY <1>1, <2>1, CallEnds
  <2>3. PendingInv' /\ SavedInv'
    BY <1>1, <2>1 DEF ChatInv, PendingInv, SavedInv
  <2> QED
    BY <1>1, <2>1, <2>2, <2>3 DEF ChatInv
<1> QED
  BY <1>2, <1>3

\* Nothing is wanted any more once the page has set activeReq to null.
LEMMA NoneWanted ==
    ASSUME ChatInv, activeReq' = 0, UNCHANGED <<calls, reqCounter, given>>
    PROVE  CallsInv'
BY DEF ChatInv, CallsInv, Wanted

LEMMA StopKeeps ==
    ASSUME ChatInv, Stop
    PROVE  ChatInv'
<1>1. /\ mounted /\ pending /\ activeReq' = 0 /\ pending' = FALSE /\ saved' = thread'
      /\ UNCHANGED <<reqCounter, visits, mounted, calls, given, left>>
  BY DEF Stop, Show
<1>2. /\ thread \in Seq(Entries) /\ saved = thread /\ thread # <<>>
      /\ thread[Len(thread)] = Question(Len(given)) /\ Len(given) \in Nat
  BY <1>1, LenProperties DEF ChatInv, SavedInv, PendingInv
<1>3. Accounted(thread, left, TRUE)
  <2>1. pending = TRUE
    BY <1>1 DEF ChatInv
  <2> QED
    BY <1>2, <2>1, SavedIsAccounted
<1>4. thread' = [thread EXCEPT ![Len(thread)].stopped = TRUE]
  <2>1. thread' = [thread EXCEPT ![Len(thread)].stopped =
                        (thread[Len(thread)].stopped \/ thread[Len(thread)].role = "user")]
    BY DEF Stop, Show
  <2>2. thread[Len(thread)].role = "user" /\ thread[Len(thread)].stopped = FALSE
    BY <1>2 DEF Question
  <2> QED
    BY <2>1, <2>2
<1>5. thread' \in Seq(Entries) /\ Accounted(thread', left, FALSE)
  BY <1>2, <1>3, <1>4, StoppedAccounted
<1>6. CallsInv'
  BY <1>1, NoneWanted
<1>7. SavedInv'
  BY <1>1, <1>5 DEF SavedInv, Accounted
<1>8. PendingInv'
  BY <1>1 DEF PendingInv
<1>9. pending' \in BOOLEAN /\ mounted' \in BOOLEAN
  BY <1>1, Zenon DEF ChatInv
<1>10. reqCounter' \in Nat /\ activeReq' \in 0..reqCounter' /\ given' \in Seq(ToSet(given'))
  BY <1>1 DEF ChatInv
<1> QED
  BY <1>1, <1>5, <1>6, <1>7, <1>8, <1>9, <1>10 DEF ChatInv

LEMMA NewChatKeeps ==
    ASSUME ChatInv, NewChat
    PROVE  ChatInv'
<1>1. /\ mounted /\ activeReq' = 0 /\ pending' = FALSE /\ thread' = <<>> /\ saved' = <<>>
      /\ UNCHANGED <<reqCounter, visits, mounted, calls, given, left>>
  BY DEF NewChat, Show
<1>2. <<>> \in Seq(Entries) /\ Len(<<>>) = 0
  BY EmptySeq
<1>3. CallsInv'
  BY <1>1, NoneWanted
<1>4. SavedInv' /\ PendingInv'
  BY <1>1, <1>2 DEF SavedInv, PendingInv
<1>5. pending' \in BOOLEAN /\ mounted' \in BOOLEAN
  BY <1>1, Zenon DEF ChatInv
<1>6. reqCounter' \in Nat /\ activeReq' \in 0..reqCounter' /\ given' \in Seq(ToSet(given'))
  BY <1>1 DEF ChatInv
<1> QED
  BY <1>1, <1>2, <1>3, <1>4, <1>5, <1>6 DEF ChatInv

LEMMA LeaveKeeps ==
    ASSUME ChatInv, Leave
    PROVE  ChatInv'
<1>1. /\ mounted /\ mounted' = FALSE /\ thread' = <<>> /\ pending' = FALSE
      /\ activeReq' = 0 /\ reqCounter' = 0 /\ calls' = {}
      /\ left' = IF pending THEN left \cup {Len(given)} ELSE left
      /\ UNCHANGED <<saved, visits, given>>
  BY DEF Leave
<1>2. <<>> \in Seq(Entries)
  BY EmptySeq
<1>3. CallsInv' /\ PendingInv'
  BY <1>1 DEF CallsInv, PendingInv
<1>4. Accounted(saved, left', FALSE)
  <2>1. saved = thread /\ Accounted(saved, left, pending) /\ left \subseteq left'
    BY <1>1, SavedIsAccounted DEF ChatInv, SavedInv
  <2>2. CASE pending
    <3>1. saved[Len(saved)].n \in left'
      BY <1>1, <2>1, <2>2 DEF ChatInv, PendingInv, Question
    <3> QED
      BY <2>1, <3>1 DEF Accounted
  <2>3. CASE ~pending
    BY <2>1, <2>3 DEF Accounted
  <2> QED
    BY <2>2, <2>3
<1>5. SavedInv'
  BY <1>1, <1>4 DEF SavedInv, Accounted
<1>6. pending' \in BOOLEAN /\ mounted' \in BOOLEAN
  BY <1>1, Zenon DEF ChatInv
<1>7. reqCounter' \in Nat /\ activeReq' \in 0..reqCounter' /\ given' \in Seq(ToSet(given'))
  BY <1>1 DEF ChatInv
<1> QED
  BY <1>1, <1>2, <1>3, <1>5, <1>6, <1>7 DEF ChatInv

LEMMA MountKeeps ==
    ASSUME ChatInv, Mount
    PROVE  ChatInv'
<1>1. /\ ~mounted /\ mounted' = TRUE /\ thread' = saved
      /\ UNCHANGED <<saved, pending, activeReq, reqCounter, calls, given, left>>
  BY DEF Mount
<1>2. ~pending /\ calls = {}
  BY <1>1 DEF ChatInv, SavedInv
<1>3. CallsInv' /\ PendingInv'
  BY <1>1, <1>2 DEF CallsInv, PendingInv
<1>4. SavedInv'
  BY <1>1 DEF ChatInv, SavedInv
<1> QED
  BY <1>1, <1>3, <1>4 DEF ChatInv

\* The answer takes shape on the server: the call keeps its id and its question.
LEMMA BecomesKeeps ==
    ASSUME ChatInv, NEW c \in calls, NEW d, Becomes(c, d), d.id = c.id, d.n = c.n,
           d \in [id : 1..reqCounter, n : 1..Len(given), round : Nat,
                  result : {"none", "reply", "error"}]
    PROVE  ChatInv'
<1>1. /\ calls' = (calls \ {c}) \cup {d}
      /\ UNCHANGED <<thread, saved, pending, activeReq, reqCounter, mounted, given, left>>
  BY DEF Becomes, pageVars
<1>2. /\ calls \subseteq [id : 1..reqCounter, n : 1..Len(given), round : Nat,
                          result : {"none", "reply", "error"}]
      /\ \A e, f \in calls : e.id = f.id => e = f
      /\ \A e \in calls : Wanted(e) => pending /\ e.n = Len(given)
  BY DEF ChatInv, CallsInv
<1>3. calls' \subseteq [id : 1..reqCounter', n : 1..Len(given'), round : Nat,
                       result : {"none", "reply", "error"}]
  BY <1>1, <1>2
<1>4. \A e, f \in calls' : e.id = f.id => e = f
  BY <1>1, <1>2
<1>5. \A e \in calls' : Wanted(e)' => pending' /\ e.n = Len(given')
  BY <1>1, <1>2 DEF Wanted
<1>6. CallsInv'
  BY <1>3, <1>4, <1>5 DEF CallsInv
<1>7. PendingInv' /\ SavedInv'
  BY <1>1, <1>2 DEF ChatInv, PendingInv, SavedInv
<1> QED
  BY <1>1, <1>6, <1>7 DEF ChatInv

LEMMA ServeKeeps ==
    ASSUME ChatInv, Serve
    PROVE  ChatInv'
<1> PICK c \in calls : ModelAnswers(c) \/ ModelFails(c) \/ ModelCallsTools(c)
  BY DEF Serve
<1>1. c \in [id : 1..reqCounter, n : 1..Len(given), round : Nat,
             result : {"none", "reply", "error"}]
  BY DEF ChatInv, CallsInv
<1>2. CASE ModelAnswers(c)
  <2> PICK d : d = [c EXCEPT !.result = "reply"]
    OBVIOUS
  <2>1. Becomes(c, d)
    BY <1>2 DEF ModelAnswers
  <2> QED
    BY <1>1, <2>1, BecomesKeeps
<1>3. CASE ModelFails(c)
  <2> PICK d : d = [c EXCEPT !.result = "error"]
    OBVIOUS
  <2>1. Becomes(c, d)
    BY <1>3 DEF ModelFails
  <2> QED
    BY <1>1, <2>1, BecomesKeeps
<1>4. CASE ModelCallsTools(c)
  <2> PICK r : r = c.round + 1
    OBVIOUS
  <2> PICK d : d = [c EXCEPT !.round = r, !.result = IF r < MaxToolRounds THEN "none" ELSE "error"]
    OBVIOUS
  <2>1. Becomes(c, d)
    BY <1>4 DEF ModelCallsTools, NextRound
  <2>2. r \in Nat
    BY <1>1
  <2>3. d.id = c.id /\ d.n = c.n
    BY <1>1
  <2>4. d \in [id : 1..reqCounter, n : 1..Len(given), round : Nat,
               result : {"none", "reply", "error"}]
    BY <1>1, <2>2
  <2> QED
    BY <2>1, <2>3, <2>4, BecomesKeeps
<1> QED
  BY <1>2, <1>3, <1>4

LEMMA ChatStart == ChatInit => ChatInv
<1> SUFFICES ASSUME ChatInit PROVE ChatInv
  OBVIOUS
<1>1. \A S : <<>> \in Seq(S)
  BY EmptySeq
<1>2. Len(<<>>) = 0
  BY EmptySeq
<1>3. CallsInv /\ PendingInv /\ SavedInv
  BY <1>2 DEF ChatInit, CallsInv, PendingInv, SavedInv
<1>4. thread = <<>> /\ saved = <<>> /\ given = <<>>
  BY DEF ChatInit
<1>5. thread \in Seq(Entries) /\ saved \in Seq(Entries) /\ given \in Seq(ToSet(given))
  BY <1>1, <1>4
<1>6. pending \in BOOLEAN /\ mounted \in BOOLEAN
  BY Zenon DEF ChatInit
<1>7. reqCounter \in Nat /\ activeReq \in 0..reqCounter
  BY DEF ChatInit
<1> QED
  BY <1>3, <1>5, <1>6, <1>7 DEF ChatInv

LEMMA ChatKeeps == ChatInv /\ [ChatNext]_chatVars => ChatInv'
<1> SUFFICES ASSUME ChatInv, [ChatNext]_chatVars PROVE ChatInv'
  OBVIOUS
<1>1. CASE Send
  BY <1>1, SendKeeps
<1>2. CASE Stop
  BY <1>2, StopKeeps
<1>3. CASE NewChat
  BY <1>3, NewChatKeeps
<1>4. CASE Leave
  BY <1>4, LeaveKeeps
<1>5. CASE Mount
  BY <1>5, MountKeeps
<1>6. CASE \E c \in calls : ReplyArrives(c)
  BY <1>6, ReplyKeeps
<1>7. CASE \E c \in calls : FailureArrives(c)
  BY <1>7, FailureKeeps
<1>8. CASE Serve
  BY <1>8, ServeKeeps
<1>9. CASE UNCHANGED chatVars
  <2>1. UNCHANGED <<thread, saved, pending, activeReq, reqCounter, mounted, calls, given, left>>
    BY <1>9 DEF chatVars, pageVars
  <2> QED
    BY <2>1 DEF ChatInv, CallsInv, PendingInv, SavedInv, Wanted
<1> QED
  BY <1>1, <1>2, <1>3, <1>4, <1>5, <1>6, <1>7, <1>8, <1>9 DEF ChatNext

\* What the page keeps of its thread, its calls and the saved thread, whatever
\* is stopped, left, answered late or fails (ChatPageClient.tsx).
THEOREM ChatInvariant == ChatSpec => []ChatInv
BY ChatStart, ChatKeeps, PTL DEF ChatSpec

\* Every question in the thread is followed by its answer, marked as stopped,
\* pending, or was pending when the user left: a failure rolls back its own
\* question and no other entry, and a late answer appends nothing.
THEOREM NoQuestionUnaccounted == ChatSpec => []QuestionsAccounted
<1>1. ChatInv => QuestionsAccounted
  <2> SUFFICES ASSUME ChatInv PROVE QuestionsAccounted
    OBVIOUS
  <2>1. thread \in Seq(Entries) /\ DOMAIN thread = 1..Len(thread)
    BY LenProperties DEF ChatInv
  <2>2. CASE mounted
    <3>1. saved = thread
      BY <2>2 DEF ChatInv, SavedInv
    <3> QED
      BY <2>1, <3>1 DEF ChatInv, SavedInv, QuestionsAccounted
  <2>3. CASE ~mounted
    <3>1. thread = <<>>
      BY <2>3 DEF ChatInv, SavedInv
    <3> QED
      BY <3>1 DEF QuestionsAccounted
  <2> QED
    BY <2>2, <2>3
<1> QED
  BY <1>1, ChatInvariant, PTL

-----------------------------------------------------------------------------
(* The conversation of a thread.                                           *)

\* What the recursive definition computes: the entries that are not stopped, in
\* order.
LEMMA ConversationSteps ==
    ASSUME NEW s \in Seq(Entries)
    PROVE  /\ Len(s) \in Nat /\ Conversation(s)[0] = <<>>
           /\ \A i \in 1..Len(s) :
                 Conversation(s)[i] = IF s[i].stopped THEN Conversation(s)[i - 1]
                                      ELSE Append(Conversation(s)[i - 1], s[i])
           /\ \A i \in 0..Len(s) : Conversation(s)[i] \in Seq(Entries)
<1>1. Len(s) \in Nat /\ \A i \in 1..Len(s) : s[i] \in Entries
  BY LenProperties
<1> PICK N : N = Len(s)
  OBVIOUS
<1>2. N \in Nat /\ N = Len(s) /\ <<>> \in Seq(Entries)
  BY <1>1, EmptySeq
<1> PICK step : step = [i \in 1..N |-> [c \in Seq(Entries) |->
                           IF s[i].stopped THEN c ELSE Append(c, s[i])]]
  OBVIOUS
<1>3. \A i \in 1..N, c \in Seq(Entries) : Append(c, s[i]) \in Seq(Entries)
  BY <1>1, <1>2, AppendProperties
<1>4. step \in [1..N -> [Seq(Entries) -> Seq(Entries)]]
  BY <1>3
<1>5. PICK f \in [0..N -> Seq(Entries)] : Recursion(f, N, <<>>, step)
  BY <1>2, <1>4, RecursionExists
<1>6. f = [i \in 0..Len(s) |-> IF i = 0 THEN <<>> ELSE IF s[i].stopped THEN f[i - 1]
                               ELSE Append(f[i - 1], s[i])]
  <2>1. \A i \in 1..N, c \in Seq(Entries) :
           step[i][c] = IF s[i].stopped THEN c ELSE Append(c, s[i])
    OBVIOUS
  <2>2. \A i \in 1..N : f[i - 1] \in Seq(Entries)
    <3>1. \A i \in 1..N : i - 1 \in 0..N
      BY <1>2
    <3>2. \A j \in 0..N : f[j] \in Seq(Entries)
      BY <1>5
    <3> QED
      BY <3>1, <3>2, Zenon
  <2>3. f[0] = <<>> /\ \A i \in 1..N : f[i] = step[i][f[i - 1]]
    BY <1>5 DEF Recursion
  <2>4. \A i \in 1..N : f[i] = IF s[i].stopped THEN f[i - 1] ELSE Append(f[i - 1], s[i])
    BY <2>1, <2>2, <2>3
  <2>5. \A i \in 0..N : f[i] = IF i = 0 THEN <<>> ELSE IF s[i].stopped THEN f[i - 1]
                                ELSE Append(f[i - 1], s[i])
    <3>1. \A i \in 0..N : i = 0 \/ i \in 1..N
      BY <1>2
    <3>2. \A i \in 1..N : i # 0
      BY <1>2
    <3> QED
      BY <2>3, <2>4, <3>1, <3>2, Zenon
  <2> QED
    BY <1>2, <2>5
<1> PICK k : k = Conversation(s)
  OBVIOUS
<1>7. k = [i \in 0..Len(s) |-> IF i = 0 THEN <<>> ELSE IF s[i].stopped THEN k[i - 1]
                               ELSE Append(k[i - 1], s[i])]
  BY <1>6 DEF Conversation
<1>8. k[0] = <<>> /\ \A i \in 1..N : k[i] = IF s[i].stopped THEN k[i - 1] ELSE Append(k[i - 1], s[i])
  <2>1. \A i \in 0..N : k[i] = IF i = 0 THEN <<>> ELSE IF s[i].stopped THEN k[i - 1]
                                ELSE Append(k[i - 1], s[i])
    BY <1>2, <1>7, Zenon
  <2> QED
    BY <1>2, <2>1
<1> DEFINE T == {i \in Nat : k[i] \in Seq(Entries)}
<1>9. \A i \in 0..N : i \in T
  <2>1. 0 \in T
    BY <1>2, <1>8
  <2>2. ASSUME NEW i \in 1..N, i - 1 \in T PROVE i \in T
    <3>1. k[i - 1] \in Seq(Entries) /\ i \in Nat
      BY <2>2
    <3>2. k[i] \in Seq(Entries)
      BY <1>3, <1>8, <3>1
    <3> QED
      BY <3>1, <3>2
  <2> HIDE DEF T
  <2> QED
    BY <1>2, <2>1, <2>2, InductionUpTo
<1> QED
  BY <1>2, <1>8, <1>9

\* The conversation up to an entry depends on no later one.
LEMMA ConversationAgrees ==
    ASSUME NEW s \in Seq(Entries), NEW t \in Seq(Entries), NEW m \in Nat,
           m <= Len(s), m <= Len(t), \A i \in 1..m : s[i] = t[i]
    PROVE  \A i \in 0..m : Conversation(s)[i] = Conversation(t)[i]
<1> DEFINE T == {i \in Nat : Conversation(s)[i] = Conversation(t)[i]}
<1>1. 0 \in T
  BY ConversationSteps
<1>2. ASSUME NEW i \in 1..m, i - 1 \in T PROVE i \in T
  <2>1. i \in 1..Len(s) /\ i \in 1..Len(t)
    BY LenProperties
  <2> QED
    BY <1>2, <2>1, ConversationSteps
<1> HIDE DEF T
<1>3. \A i \in 0..m : i \in T
  BY <1>1, <1>2, InductionUpTo
<1> QED
  BY <1>3 DEF T

\* A thread that grows by one entry.
LEMMA ContextGrows ==
    ASSUME NEW s \in Seq(Entries), NEW e \in Entries
    PROVE  /\ Context(s) \in Seq(Entries)
           /\ Conversation(Append(s, e))[Len(s)] = Context(s)
           /\ Context(Append(s, e)) = IF e.stopped THEN Context(s) ELSE Append(Context(s), e)
<1> PICK t, m : t = Append(s, e) /\ m = Len(s)
  OBVIOUS
<1>1. /\ t \in Seq(Entries) /\ Len(t) = m + 1 /\ m \in Nat /\ m = Len(s)
      /\ t[m + 1] = e /\ \A i \in 1..m : s[i] = t[i]
  BY ThreadGrows
<1>2. \A i \in 0..m : Conversation(s)[i] = Conversation(t)[i]
  <2>1. m \in Nat /\ m <= Len(s) /\ m <= Len(t) /\ \A i \in 1..m : s[i] = t[i]
    BY <1>1
  <2> QED
    BY <1>1, <2>1, ConversationAgrees
<1>3. Conversation(t)[m] = Conversation(s)[m] /\ Conversation(s)[m] \in Seq(Entries)
  BY <1>1, <1>2, ConversationSteps
<1>4. Conversation(t)[m + 1] = IF e.stopped THEN Conversation(t)[m]
                               ELSE Append(Conversation(t)[m], e)
  <2>1. m + 1 \in 1..Len(t) /\ (m + 1) - 1 = m
    BY <1>1
  <2>2. Conversation(t)[m + 1] = IF t[m + 1].stopped THEN Conversation(t)[(m + 1) - 1]
                                 ELSE Append(Conversation(t)[(m + 1) - 1], t[m + 1])
    BY <1>1, <2>1, ConversationSteps
  <2> QED
    BY <1>1, <2>1, <2>2
<1> QED
  BY <1>1, <1>3, <1>4 DEF Context

\* The conversation above an entry.
LEMMA ContextAbove ==
    ASSUME NEW s \in Seq(Entries), NEW i \in 1..Len(s)
    PROVE  Context(SubSeq(s, 1, i - 1)) = Conversation(s)[i - 1]
<1>1. Len(s) \in Nat /\ \A j \in 1..Len(s) : s[j] \in Entries
  BY LenProperties
<1> PICK m : m = i - 1
  OBVIOUS
<1>2. m \in Nat /\ m <= Len(s) /\ m = i - 1 /\ \A j \in 1..m : s[j] \in Entries
  BY <1>1
<1> PICK t : t = SubSeq(s, 1, m)
  OBVIOUS
<1>3. /\ t \in Seq(Entries)
      /\ Len(t) = IF 1 <= m THEN m - 1 + 1 ELSE 0
      /\ \A j \in 1..(m - 1 + 1) : t[j] = s[1 + j - 1]
  BY <1>2, SubSeqProperties
<1>4. Len(t) = m /\ \A j \in 1..m : t[j] = s[j]
  <2>1. m - 1 + 1 = m /\ \A j \in Int : 1 + j - 1 = j
    BY <1>2
  <2> QED
    BY <1>2, <1>3, <2>1
<1>5. Conversation(t)[m] = Conversation(s)[m]
  <2>1. m \in 0..m /\ m <= Len(t) /\ \A j \in 1..m : t[j] = s[j]
    BY <1>2, <1>4
  <2>2. \A j \in 0..m : Conversation(t)[j] = Conversation(s)[j]
    BY <1>2, <1>3, <2>1, ConversationAgrees
  <2> QED
    BY <2>1, <2>2
<1> QED
  BY <1>2, <1>4, <1>5 DEF Context

\* In the conversation of a thread, every question is followed by its answer or
\* gone, or the last entry of the thread.
Answered(entries, gone, last) ==
    \A i \in 1..Len(entries) :
        entries[i].role = "user" =>
            \/ Followed(entries, i) \/ entries[i].n \in gone
            \/ i = Len(entries) /\ entries[i] = last /\ ~last.stopped

LEMMA AnsweredGrows ==
    ASSUME NEW c \in Seq(Entries), NEW e \in Entries, NEW gone, NEW last,
           Answered(c, gone, last), ~e.stopped,
           /\ c # <<>> /\ last.role = "user" /\ ~last.stopped /\ last.n \notin gone
              => e = Answer(last.n)
    PROVE  Answered(Append(c, e), gone, e)
<1> PICK t, m : t = Append(c, e) /\ m = Len(c)
  OBVIOUS
<1>1. /\ t \in Seq(Entries) /\ Len(t) = m + 1 /\ m \in Nat /\ m = Len(c)
      /\ t[m + 1] = e /\ \A i \in 1..m : t[i] = c[i]
  BY ThreadGrows
<1>2. ASSUME NEW i \in 1..m, c[i].role = "user"
      PROVE  Followed(t, i) \/ c[i].n \in gone
  <2>1. CASE Followed(c, i)
    <3>1. i < m /\ i + 1 \in 1..m /\ c[i + 1] = Answer(c[i].n)
      BY <1>1, <2>1 DEF Followed
    <3> QED
      BY <1>1, <3>1 DEF Followed
  <2>2. CASE c[i].n \notin gone /\ ~Followed(c, i)
    <3>1. i = m /\ c[i] = last /\ ~last.stopped
      BY <1>1, <1>2, <2>2 DEF Answered
    <3>2. c # <<>>
      BY <1>1, EmptySeq
    <3>3. t[i + 1] = Answer(t[i].n)
      BY <1>1, <1>2, <2>2, <3>1, <3>2
    <3> QED
      BY <1>1, <3>1, <3>3 DEF Followed
  <2> QED
    BY <2>1, <2>2
<1>3. \A i \in 1..Len(t) : i \in 1..m \/ i = m + 1
  BY <1>1
<1> QED
  BY <1>1, <1>2, <1>3 DEF Answered

\* If the questions of a thread are accounted for and none is pending, those in
\* its conversation are answered there, or were left.
LEMMA ContextAnswered ==
    ASSUME NEW s \in Seq(Entries), NEW gone, Accounted(s, gone, FALSE)
    PROVE  \A i \in 1..Len(Context(s)) :
              Context(s)[i].role = "user" =>
                  Followed(Context(s), i) \/ Context(s)[i].n \in gone
<1> DEFINE T == {k \in Nat : Answered(Conversation(s)[k], gone, s[k])}
<1>1. Len(s) \in Nat /\ \A k \in 1..Len(s) : s[k] \in Entries
  BY LenProperties
<1>2. 0 \in T
  BY ConversationSteps, EmptySeq DEF Answered
<1>3. ASSUME NEW k \in 1..Len(s), k - 1 \in T PROVE k \in T
  <2> PICK j : j = k - 1
    OBVIOUS
  <2> PICK c : c = Conversation(s)[j]
    OBVIOUS
  <2>1. j = k - 1 /\ j \in 0..Len(s) /\ k \in Nat
    BY <1>1
  <2>2. c \in Seq(Entries) /\ Answered(c, gone, s[j])
    BY <1>3, <2>1, ConversationSteps
  <2>3. c # <<>> => j \in 1..Len(s)
    BY <2>1, ConversationSteps
  <2>4. c # <<>> /\ s[j].role = "user" /\ ~s[j].stopped /\ s[j].n \notin gone
           => s[k] = Answer(s[j].n)
    BY <2>1, <2>3 DEF Accounted, Followed
  <2>5. CASE s[k].stopped
    <3>1. Conversation(s)[k] = c
      BY <2>1, <2>5, ConversationSteps
    <3>2. ASSUME NEW i \in 1..Len(c), c[i].role = "user"
          PROVE  Followed(c, i) \/ c[i].n \in gone
      <4>1. c # <<>>
        BY EmptySeq
      <4>2. s[k] # Answer(s[j].n)
        BY <2>5 DEF Answer
      <4> QED
        BY <2>2, <2>4, <3>2, <4>1, <4>2 DEF Answered
    <3> QED
      BY <2>1, <3>1, <3>2 DEF Answered
  <2>6. CASE ~s[k].stopped
    <3>1. Conversation(s)[k] = Append(c, s[k])
      BY <2>1, <2>6, ConversationSteps
    <3>2. Answered(Append(c, s[k]), gone, s[k])
      BY <1>1, <2>2, <2>4, <2>6, AnsweredGrows
    <3> QED
      BY <2>1, <3>1, <3>2
  <2> QED
    BY <2>5, <2>6
<1>4. Answered(Context(s), gone, s[Len(s)])
  <2> HIDE DEF T
  <2>1. \A k \in 0..Len(s) : k \in T
    BY <1>1, <1>2, <1>3, InductionUpTo
  <2>2. Len(s) \in T
    BY <1>1, <2>1
  <2> QED
    BY <2>2 DEF T, Context
<1>5. Context(s) \in Seq(Entries) /\ (Context(s) # <<>> => Len(s) \in 1..Len(s))
  BY <1>1, ConversationSteps DEF Context
<1>6. Context(s) # <<>> /\ s[Len(s)].role = "user" /\ ~s[Len(s)].stopped => s[Len(s)].n \in gone
  BY <1>1, <1>5 DEF Accounted, Followed
<1>7. \A i \in 1..Len(Context(s)) : Context(s) # <<>>
  BY <1>5, EmptySeq
<1> QED
  BY <1>4, <1>6, <1>7 DEF Answered

\* The answers among the entries were given to what stands above them.
Fits(entries, asked) ==
    \A i \in 1..Len(entries) :
        entries[i].role = "assistant" =>
            /\ entries[i].n \in 1..Len(asked)
            /\ asked[entries[i].n] = Conversation(entries)[i - 1]

\* They still do in a thread that begins with the same entries, if the rest of
\* its answers do.
LEMMA FitsAgain ==
    ASSUME NEW s \in Seq(Entries), NEW t \in Seq(Entries), NEW m \in Nat,
           m <= Len(s), m <= Len(t), \A i \in 1..m : s[i] = t[i],
           NEW asked, Fits(s, asked),
           \A i \in 1..Len(t) : i > m /\ t[i].role = "assistant" =>
               /\ t[i].n \in 1..Len(asked)
               /\ asked[t[i].n] = Conversation(t)[i - 1]
    PROVE  Fits(t, asked)
<1>1. \A i \in 0..m : Conversation(s)[i] = Conversation(t)[i]
  BY ConversationAgrees
<1>2. ASSUME NEW i \in 1..m, t[i].role = "assistant"
      PROVE  t[i].n \in 1..Len(asked) /\ asked[t[i].n] = Conversation(t)[i - 1]
  <2>1. i \in 1..Len(s) /\ i - 1 \in 0..m /\ s[i] = t[i]
    BY LenProperties
  <2> QED
    BY <1>1, <1>2, <2>1 DEF Fits
<1>3. \A i \in 1..Len(t) : i \in 1..m \/ i > m
  BY LenProperties
<1> QED
  BY <1>2, <1>3 DEF Fits

LEMMA SavedFits ==
    ASSUME ConversationInv
    PROVE  Fits(saved, given)
BY DEF ConversationInv, Fits

\* No step but Send adds to what was sent.
LEMMA NothingSent ==
    ASSUME ConversationInv, ChatInv, given' = given, left \subseteq left',
           pending' => pending /\ thread' = thread, Fits(saved', given)
    PROVE  ConversationInv'
<1>1. \A i \in 1..Len(saved') : saved'[i].role = "assistant" =>
          /\ saved'[i].n \in 1..Len(given')
          /\ given'[saved'[i].n] = Conversation(saved')[i - 1]
  BY DEF Fits
<1>2. /\ \A n \in 1..Len(given') : given'[n] \in Seq(Entries)
      /\ pending' => given'[Len(given')] = Context(thread')
  BY DEF ConversationInv
<1>3. ContextIsConversation'
  BY DEF ConversationInv, ContextIsConversation
<1> QED
  BY <1>1, <1>2, <1>3 DEF ConversationInv

LEMMA SendFits ==
    ASSUME ChatInv, ConversationInv, Send
    PROVE  ConversationInv'
<1> PICK n : n = Len(given) + 1
  OBVIOUS
<1> PICK x : x = Append(Context(thread), Question(n))
  OBVIOUS
<1>1. /\ mounted /\ ~pending /\ thread' = Append(thread, Question(n)) /\ saved' = thread'
      /\ given' = Append(given, x) /\ left' = left
  BY DEF Send, Show
<1>2. /\ given \in Seq(ToSet(given)) /\ Len(given) \in Nat /\ Len(given') = n /\ n \in Nat
      /\ given' \in Seq(ToSet(given'))
  BY <1>1, HistoryGrows DEF ChatInv
<1>3. Question(n) \in Entries /\ Question(n).role = "user" /\ ~Question(n).stopped
  BY <1>2 DEF Question, Entries
<1>4. /\ thread \in Seq(Entries) /\ Accounted(thread, left, FALSE) /\ Fits(thread, given)
  <2>1. pending = FALSE
    BY <1>1, Zenon DEF ChatInv
  <2>2. saved = thread
    BY <1>1 DEF ChatInv, SavedInv
  <2>3. Accounted(saved, left, pending)
    BY SavedIsAccounted
  <2> QED
    BY <2>1, <2>2, <2>3, SavedFits DEF ChatInv
<1>5. /\ Context(thread) \in Seq(Entries) /\ x \in Seq(Entries)
      /\ Context(thread') = x /\ Len(x) = Len(Context(thread)) + 1
      /\ Len(Context(thread)) \in Nat
      /\ \A i \in 1..Len(Context(thread)) : x[i] = Context(thread)[i]
  BY <1>1, <1>3, <1>4, ContextGrows, ThreadGrows
<1>6. given'[n] = x /\ \A k \in 1..Len(given) : given'[k] = given[k]
  BY <1>1, <1>2, AppendProperties
<1>7. \A k \in 1..Len(given') : k \in 1..Len(given) \/ k = n
  BY <1>2
<1>8. \A k \in 1..Len(given') : given'[k] \in Seq(Entries)
  BY <1>5, <1>6, <1>7 DEF ConversationInv
<1>9. Fits(saved', given')
  <2> PICK t, m : t = thread' /\ m = Len(thread)
    OBVIOUS
  <2>1. /\ t \in Seq(Entries) /\ m \in Nat /\ Len(t) = m + 1 /\ m = Len(thread)
        /\ \A i \in 1..m : thread[i] = t[i]
        /\ t[m + 1] = Question(n)
    BY <1>1, <1>3, <1>4, ThreadGrows
  <2>2. m <= Len(thread) /\ m <= Len(t)
    BY <2>1
  <2>3. \A i \in 1..Len(t) : i > m => i = m + 1
    BY <2>1
  <2>4. Fits(t, given)
    BY <1>3, <1>4, <2>1, <2>2, <2>3, FitsAgain
  <2>5. \A k \in 1..Len(given) : k \in 1..Len(given') /\ given'[k] = given[k]
    BY <1>2, <1>6
  <2>6. Fits(t, given')
    BY <2>4, <2>5, Zenon DEF Fits
  <2> QED
    BY <1>1, <2>6
<1>10. ContextIsConversation'
  <2>1. DOMAIN given = 1..Len(given) /\ DOMAIN given' = 1..Len(given')
    BY <1>2, LenProperties
  <2>2. ASSUME NEW i \in 1..(Len(x) - 1), x[i].role = "user"
        PROVE  Followed(x, i) \/ x[i].n \in left
    <3>1. i \in 1..Len(Context(thread)) /\ x[i] = Context(thread)[i]
      BY <1>5
    <3>2. Followed(Context(thread), i) \/ Context(thread)[i].n \in left
      BY <1>4, <2>2, <3>1, ContextAnswered
    <3>3. CASE Followed(Context(thread), i)
      <4>1. i + 1 \in 1..Len(Context(thread))
        BY <1>5, <3>1, <3>3 DEF Followed
      <4> QED
        BY <1>5, <3>1, <3>3, <4>1 DEF Followed
    <3> QED
      BY <3>1, <3>2, <3>3
  <2>3. \A k \in 1..Len(given) : \A i \in 1..(Len(given[k]) - 1) :
           given[k][i].role = "user" => Followed(given[k], i) \/ given[k][i].n \in left
    BY <2>1 DEF ConversationInv, ContextIsConversation
  <2>4. \A k \in 1..Len(given') : \A i \in 1..(Len(given'[k]) - 1) :
           given'[k][i].role = "user" => Followed(given'[k], i) \/ given'[k][i].n \in left'
    BY <1>1, <1>6, <1>7, <2>2, <2>3
  <2> QED
    BY <2>1, <2>4 DEF ContextIsConversation
<1> QED
  BY <1>1, <1>2, <1>5, <1>6, <1>8, <1>9, <1>10 DEF ConversationInv, Fits

LEMMA ReplyFits ==
    ASSUME ChatInv, ConversationInv, NEW c \in calls, ReplyArrives(c)
    PROVE  ConversationInv'
<1>1. CASE Wanted(c)
  <2>1. /\ saved = thread /\ thread # <<>> /\ pending
        /\ c.n = Len(given) /\ c.n \in Nat /\ thread[Len(thread)] = Question(c.n)
    BY <1>1, WantedCall
  <2>2. /\ saved' = Append(thread, Answer(c.n)) /\ pending' = FALSE
        /\ given' = given /\ left' = left
    BY <1>1 DEF ReplyArrives, Show
  <2>3. Answer(c.n) \in Entries /\ Answer(c.n).n = c.n
    BY <2>1 DEF Answer, Entries
  <2> PICK t, m : t = saved' /\ m = Len(thread)
    OBVIOUS
  <2>4. /\ thread \in Seq(Entries)
        /\ t \in Seq(Entries) /\ m \in Nat /\ Len(t) = m + 1 /\ m = Len(thread)
        /\ \A i \in 1..m : thread[i] = t[i]
        /\ t[m + 1] = Answer(c.n)
    BY <2>2, <2>3, ThreadGrows DEF ChatInv
  <2>5. m <= Len(thread) /\ m <= Len(t)
    BY <2>4
  <2>6. Conversation(t)[m] = Context(thread)
    BY <2>2, <2>3, <2>4, ContextGrows
  <2>7. given[c.n] = Context(thread) /\ c.n \in 1..Len(given)
    <3>1. Len(given) # 0
      <4>1. Len(thread) \in 1..Len(thread)
        BY <2>1, <2>4, EmptySeq
      <4>2. c.n \in 1..Len(given)
        BY DEF ChatInv, CallsInv
      <4> QED
        BY <2>1, <4>2
    <3> QED
      BY <2>1, <3>1 DEF ConversationInv
  <2>8. \A i \in 1..Len(t) : i > m => i = m + 1 /\ i - 1 = m
    BY <2>4
  <2>9. Fits(thread, given)
    BY <2>1, SavedFits
  <2>10. \A i \in 1..Len(t) : i > m /\ t[i].role = "assistant" =>
            t[i].n \in 1..Len(given) /\ given[t[i].n] = Conversation(t)[i - 1]
    BY <2>3, <2>4, <2>6, <2>7, <2>8
  <2>11. Fits(t, given)
    BY <2>4, <2>5, <2>9, <2>10, FitsAgain
  <2> QED
    BY <2>2, <2>11, NothingSent
<1>2. CASE ~Wanted(c)
  <2>1. UNCHANGED <<thread, saved, pending, given, left>>
    BY <1>2 DEF ReplyArrives
  <2> QED
    BY <2>1, SavedFits, NothingSent
<1> QED
  BY <1>1, <1>2

LEMMA FailureFits ==
    ASSUME ChatInv, ConversationInv, NEW c \in calls, FailureArrives(c)
    PROVE  ConversationInv'
<1>1. CASE Wanted(c)
  <2>1. saved = thread /\ thread # <<>> /\ thread \in Seq(Entries)
    BY <1>1, WantedCall DEF ChatInv
  <2>2. saved' = Front(thread) /\ pending' = FALSE /\ given' = given /\ left' = left
    BY <1>1 DEF FailureArrives, Show, RollBack
  <2> PICK t, m : t = saved' /\ m = Len(thread) - 1
    OBVIOUS
  <2>3. /\ t \in Seq(Entries) /\ m \in Nat /\ Len(t) = m /\ m <= Len(thread) /\ m <= Len(t)
        /\ \A i \in 1..m : thread[i] = t[i]
    BY <2>1, <2>2, ThreadShrinks
  <2>4. \A i \in 1..Len(t) : ~(i > m)
    BY <2>3
  <2>5. Fits(t, given)
    BY <2>1, <2>3, <2>4, SavedFits, FitsAgain
  <2> QED
    BY <2>2, <2>5, NothingSent
<1>2. CASE ~Wanted(c)
  <2>1. UNCHANGED <<thread, saved, pending, given, left>>
    BY <1>2 DEF FailureArrives
  <2> QED
    BY <2>1, SavedFits, NothingSent
<1> QED
  BY <1>1, <1>2

LEMMA StopFits ==
    ASSUME ChatInv, ConversationInv, Stop
    PROVE  ConversationInv'
<1>1. /\ mounted /\ pending /\ pending' = FALSE /\ saved' = thread'
      /\ given' = given /\ left' = left
  BY DEF Stop, Show
<1>2. /\ thread \in Seq(Entries) /\ saved = thread /\ thread # <<>>
      /\ thread[Len(thread)] = Question(Len(given)) /\ Len(given) \in Nat
  BY <1>1, LenProperties DEF ChatInv, SavedInv, PendingInv
<1>3. thread' = [thread EXCEPT ![Len(thread)].stopped =
                    (thread[Len(thread)].stopped \/ thread[Len(thread)].role = "user")]
  BY DEF Stop, Show
<1>4. saved' \in Seq(Entries)
  BY StopKeeps DEF ChatInv
<1> PICK t, m : t = saved' /\ m = Len(thread) - 1
  OBVIOUS
<1>5. Len(thread) \in Nat \ {0} /\ thread \in [1..Len(thread) -> Entries]
  BY <1>2, EmptySeq, LenProperties
<1>6. /\ t \in Seq(Entries) /\ DOMAIN t = 1..Len(thread) /\ m = Len(thread) - 1
      /\ \A i \in 1..m : thread[i] = t[i]
      /\ t[Len(thread)].role = "user"
  <2>1. thread[Len(thread)].role = "user"
    BY <1>2 DEF Question
  <2>2. thread[Len(thread)] \in Entries
    BY <1>5
  <2>3. t[Len(thread)].role = "user"
    BY <1>1, <1>3, <1>5, <2>1, <2>2 DEF Entries
  <2> QED
    BY <1>1, <1>3, <1>4, <1>5, <2>3
<1>7. Len(t) = Len(thread) /\ m \in Nat /\ m <= Len(thread) /\ m <= Len(t)
  <2>1. DOMAIN t = 1..Len(t) /\ Len(t) \in Nat
    BY <1>6, LenProperties
  <2> QED
    BY <1>5, <1>6, <2>1
<1>8. \A i \in 1..Len(t) : i > m => i = Len(thread)
  BY <1>5, <1>6, <1>7
<1>9. Fits(t, given)
  BY <1>2, <1>6, <1>7, <1>8, SavedFits, FitsAgain
<1> QED
  BY <1>1, <1>9, NothingSent

LEMMA ConversationKeeps == ChatInv /\ ConversationInv /\ [ChatNext]_chatVars => ConversationInv'
<1> SUFFICES ASSUME ChatInv, ConversationInv, [ChatNext]_chatVars PROVE ConversationInv'
  OBVIOUS
<1>1. CASE Send
  BY <1>1, SendFits
<1>2. CASE Stop
  BY <1>2, StopFits
<1>3. CASE NewChat
  <2>1. pending' = FALSE /\ saved' = <<>> /\ given' = given /\ left' = left
    BY <1>3 DEF NewChat, Show
  <2>2. Fits(<<>>, given)
    BY EmptySeq DEF Fits
  <2> QED
    BY <2>1, <2>2, NothingSent
<1>4. CASE Leave
  <2>1. pending' = FALSE /\ saved' = saved /\ given' = given /\ left \subseteq left'
    BY <1>4 DEF Leave
  <2> QED
    BY <2>1, SavedFits, NothingSent
<1>5. CASE Mount
  <2>1. ~pending /\ pending' = pending /\ saved' = saved /\ given' = given /\ left' = left
    BY <1>5 DEF Mount, ChatInv, SavedInv
  <2> QED
    BY <2>1, SavedFits, NothingSent
<1>6. CASE \E c \in calls : ReplyArrives(c)
  BY <1>6, ReplyFits
<1>7. CASE \E c \in calls : FailureArrives(c)
  BY <1>7, FailureFits
<1>8. CASE Serve
  <2>1. UNCHANGED <<thread, saved, pending, given, left>>
    BY <1>8 DEF Serve, ModelAnswers, ModelFails, ModelCallsTools, Becomes, pageVars
  <2> QED
    BY <2>1, SavedFits, NothingSent
<1>9. CASE UNCHANGED chatVars
  <2>1. UNCHANGED <<thread, saved, pending, given, left>>
    BY <1>9 DEF chatVars, pageVars
  <2> QED
    BY <2>1, SavedFits, NothingSent
<1> QED
  BY <1>1, <1>2, <1>3, <1>4, <1>5, <1>6, <1>7, <1>8, <1>9 DEF ChatNext

LEMMA ConversationStart == ChatInit => ConversationInv
<1> SUFFICES ASSUME ChatInit PROVE ConversationInv
  OBVIOUS
<1>1. given = <<>> /\ saved = <<>> /\ pending = FALSE
  BY DEF ChatInit
<1>2. Len(<<>>) = 0 /\ DOMAIN <<>> = {}
  BY EmptySeq
<1> QED
  BY <1>1, <1>2 DEF ConversationInv, ContextIsConversation

\* Every answer in the thread was given to exactly the conversation that stands
\* above it: late answers to stopped questions, to questions of an earlier chat
\* or of an earlier visit do not get in (reqCounter and activeReq).
THEOREM AnswersFit == ChatSpec => []AnswersFitThread
<1>1. ChatInv /\ ConversationInv => AnswersFitThread
  <2> SUFFICES ASSUME ChatInv, ConversationInv PROVE AnswersFitThread
    OBVIOUS
  <2>1. thread \in Seq(Entries) /\ DOMAIN thread = 1..Len(thread)
    BY LenProperties DEF ChatInv
  <2>2. CASE mounted
    <3>1. Fits(thread, given)
      BY <2>2, SavedFits DEF ChatInv, SavedInv
    <3> QED
      BY <2>1, <3>1, ContextAbove DEF AnswersFitThread, Fits
  <2>3. CASE ~mounted
    <3>1. thread = <<>>
      BY <2>3 DEF ChatInv, SavedInv
    <3> QED
      BY <3>1 DEF AnswersFitThread
  <2> QED
    BY <2>2, <2>3
<1> QED
  BY <1>1, ChatStart, ChatKeeps, ConversationStart, ConversationKeeps, PTL DEF ChatSpec

\* What is sent with a question is a conversation: every earlier question in it
\* has its answer, with the exception of one the user left the page on.
THEOREM SentConversations == ChatSpec => []ContextIsConversation
<1>1. ConversationInv => ContextIsConversation
  BY DEF ConversationInv
<1> QED
  BY <1>1, ChatStart, ChatKeeps, ConversationStart, ConversationKeeps, PTL DEF ChatSpec
=============================================================================
