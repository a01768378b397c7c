------------------------------ MODULE Heatmap ------------------------------
(***************************************************************************)
(* The heatmap of the home page: the grid of dashboard/lib/buckets.ts that *)
(* moves with the clock, and the cell a user has selected, which is kept   *)
(* as the absolute start of its time bucket.                               *)
(***************************************************************************)
EXTENDS Integers, Sequences, FiniteSets

CONSTANTS
    Presets,            \* focus windows: records of ms and cols
    DefaultPreset,
    LatencyBounds,      \* upper bounds of the latency bands but the last
    ClosedTraces,       \* closed traces: records of start and latency
    FirstNow, LastNow   \* bound: the clock

ASSUME PresetAssumption ==
    /\ DefaultPreset \in Presets
    /\ \A p \in Presets : /\ p.ms \in Nat \ {0} /\ p.cols \in Nat \ {0}
                          /\ p.ms % p.cols = 0
ASSUME DataAssumption ==
    /\ LatencyBounds \in Seq(Nat)
    /\ \A i, j \in DOMAIN LatencyBounds : i < j => LatencyBounds[i] < LatencyBounds[j]
    /\ \A t \in ClosedTraces : t.start \in Nat /\ t.latency \in Nat
    /\ FirstNow \in Nat /\ LastNow \in Nat

VARIABLES
    now,         \* nowMs
    preset,
    selection    \* a record of bucket (bucketStartMs) and band, or NoSelection
heatVars == <<now, preset, selection>>

NoSelection == [bucket |-> -1, band |-> -1]

-----------------------------------------------------------------------------
(* buckets.ts.                                                             *)

Bands == 0..Len(LatencyBounds)

LatencyBand(latency) == Cardinality({i \in DOMAIN LatencyBounds : LatencyBounds[i] <= latency})

BucketMs(p) == p.ms \div p.cols

\* The columns are aligned to multiples of the bucket, the last one holds now.
EndUnaligned(n, p) == n + BucketMs(p)
EndOfGrid(n, p) == (n \div BucketMs(p)) * BucketMs(p) + BucketMs(p)

GridWindow(n, p) ==
    [from |-> EndOfGrid(n, p) - p.cols * BucketMs(p), to |-> EndOfGrid(n, p),
     bucket |-> BucketMs(p), cols |-> p.cols]

TimeCol(start, grid) ==
    IF start < grid.from \/ start >= grid.to THEN -1
    ELSE (start - grid.from) \div grid.bucket

\* Math.round, and -1 off the grid.
SelectionCol(sel, grid) ==
    LET col == (2 * (sel.bucket - grid.from) + grid.bucket) \div (2 * grid.bucket)
    IN IF 0 <= col /\ col < grid.cols THEN col ELSE -1

TraceInCell(t, sel, grid) ==
    TimeCol(t.start, grid) = SelectionCol(sel, grid) /\ LatencyBand(t.latency) = sel.band

-----------------------------------------------------------------------------
(* The page.                                                               *)

Grid == GridWindow(now, preset)
SelectionGone == selection # NoSelection /\ SelectionCol(selection, Grid) = -1

HeatInit ==
    /\ now = FirstNow /\ preset = DefaultPreset /\ selection = NoSelection

\* The one-second ticker, which may be late.
Tick ==
    /\ \E n \in (now + 1)..LastNow : now' = n
    /\ UNCHANGED <<preset, selection>>

\* A click selects a cell, or clears the selection when it is on that cell.
Click ==
    \E band \in Bands, col \in 0..(Grid.cols - 1) :
        /\ selection' = IF /\ selection # NoSelection /\ selection.band = band
                           /\ SelectionCol(selection, Grid) = col
                          THEN NoSelection
                          ELSE [bucket |-> Grid.from + col * Grid.bucket, band |-> band]
        /\ UNCHANGED <<now, preset>>

\* Another focus window clears the selection, whose bucket it does not have.
KeptSelection == selection
DroppedSelection == NoSelection

ChangePreset ==
    /\ \E p \in Presets \ {preset} : preset' = p
    /\ selection' = DroppedSelection
    /\ UNCHANGED now

\* The effect that clears a selection that is gone, and the chip that clears
\* any.
Clear ==
    /\ selection # NoSelection /\ selection' = NoSelection
    /\ UNCHANGED <<now, preset>>

HeatNext == Tick \/ Click \/ ChangePreset \/ Clear

HeatSpec == HeatInit /\ [][HeatNext]_heatVars

\* The closed traces in the table: of the window, or of the selected cell.
InWindow == {t \in ClosedTraces : Grid.from <= t.start /\ t.start < Grid.to}
TableTraces ==
    IF selection = NoSelection \/ SelectionGone THEN InWindow
    ELSE {t \in InWindow : TraceInCell(t, selection, Grid)}

-----------------------------------------------------------------------------
(* Properties.                                                             *)

\* What is kept for the two properties below: a selected bucket is one of the
\* buckets of the focus window in force, and not after the one that holds now.
HeatInv ==
    /\ now \in Nat /\ preset \in Presets
    /\ selection # NoSelection =>
         /\ selection \in [bucket : Int, band : Bands]
         /\ selection.bucket % BucketMs(preset) = 0
         /\ selection.bucket < EndOfGrid(now, preset)

\* "cells are stable identities as the axis tracks now": as long as a selected
\* cell is on the grid, the table shows exactly the closed traces that started
\* in the bucket the user clicked, with the latency clicked, and the cell
\* marked on the heatmap counts the same ones.
SelectionStaysPut ==
    selection # NoSelection /\ ~SelectionGone =>
        LET col == SelectionCol(selection, Grid)
        IN /\ TableTraces =
                {t \in ClosedTraces :
                    /\ selection.bucket <= t.start /\ t.start < selection.bucket + Grid.bucket
                    /\ LatencyBand(t.latency) = selection.band}
           /\ TableTraces = {t \in ClosedTraces : /\ TimeCol(t.start, Grid) = col
                                                  /\ LatencyBand(t.latency) = selection.band}

\* "Clear a selection once its bucket scrolls off the left edge": a selection
\* is gone only when its whole bucket lies before the grid.
GoneMeansScrolledOff ==
    SelectionGone => selection.bucket + Grid.bucket <= Grid.from
=============================================================================
