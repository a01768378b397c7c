------------------------------- MODULE Storage -------------------------------
(***************************************************************************)
(* The rows of internal/store over their whole life: the processor that    *)
(* writes them (Processor), the retention goroutine that deletes old ones, *)
(* and a reader in the api process, GetTrace, which asks for the summary   *)
(* of a trace and then for its details.                                    *)
(*                                                                         *)
(* A deletion and a read are two statements each, and anything may happen  *)
(* between them.  The cutoff compares a trace's start, which comes from    *)
(* its first span: spans a proxy held back make old traces that are still  *)
(* being written.                                                          *)
(***************************************************************************)
EXTENDS Processor

CONSTANTS
    Keep,       \* AT_RETENTION, 24 h unless set
    Watched     \* bound: the traces the reader asks for

ASSUME KeepAssumption == Keep \in Nat \ {0} /\ Watched \subseteq Traces

VARIABLES
    deleting,    \* the retention goroutine is between its two statements
    cutoff,      \* start times before it are old, for the run under way
    page,        \* what the reader has so far
    fate         \* history: per trace, whether retention deleted it, or part
                 \* of it, and whether it was written to since
retentionVars == <<deleting, cutoff>>
allVars == <<vars, retentionVars, page, fate>>

NoPage == [trace |-> 0, status |-> "none", spans |-> {}, labels |-> {}, tree |-> FALSE]

StorageInit ==
    /\ Init
    /\ deleting = FALSE /\ cutoff = 0
    /\ page = NoPage
    /\ fate = [t \in Traces |-> "kept"]

HasRow(t) == row[t].status # "none"
Payload(t) == {s \in Spans : detailOf[s] = t}
Labels(t) == {s \in Spans : labelOf[s] = t}
RowsOf(t) == <<row[t], Payload(t), Labels(t), t \in tree>>

-----------------------------------------------------------------------------
(* The processor goes on beside them.  A crash takes the retention run with *)
(* it.                                                                      *)

ProcessorStep ==
    /\ Next
    /\ IF crashes' = crashes THEN UNCHANGED retentionVars
                            ELSE deleting' = FALSE /\ cutoff' = 0
    /\ fate' = [t \in Traces |->
                   IF RowsOf(t)' # RowsOf(t) /\ (fate[t] # "kept" \/ (deleting /\ start[t] < cutoff))
                   THEN "late" ELSE fate[t]]
    /\ UNCHANGED page

-----------------------------------------------------------------------------
(* DeleteTracesBefore.                                                     *)

\* Whatever its status: a row that never closes ages out as well.
ExpiredClosed(t, before) == row[t].status = "closed" /\ start[t] < before
Expired(t, before) == HasRow(t) /\ start[t] < before

WithoutDetails(gone) ==
    /\ detailOf' = [s \in Spans |-> IF detailOf[s] \in gone THEN 0 ELSE detailOf[s]]
    /\ labelOf' = [s \in Spans |-> IF labelOf[s] \in gone THEN 0 ELSE labelOf[s]]
    /\ tree' = tree \ gone
    /\ UNCHANGED row

WithoutSummaries(gone) ==
    /\ row' = [t \in Traces |-> IF t \in gone THEN NoRow ELSE row[t]]
    /\ UNCHANGED <<detailOf, labelOf, tree>>

\* The details are found through the summaries, so they go first.
SummariesFirst(statement, gone) ==
    IF statement = 1 THEN WithoutSummaries(gone) ELSE WithoutDetails(gone)
Statement(statement, gone) ==
    IF statement = 1 THEN WithoutDetails(gone) ELSE WithoutSummaries(gone)

Marked(gone) ==
    fate' = [t \in Traces |-> IF t \in gone /\ fate[t] = "kept" THEN "aged" ELSE fate[t]]

\* A statement fails: the run is over, and the statement may have taken effect.
\* The next run starts again from the first.
DeleteFails ==
    /\ storeFailures < MaxStoreFailures
    /\ storeFailures' = storeFailures + 1
    /\ deleting' = FALSE
    /\ UNCHANGED <<blip, crashes>>

Delete(statement) ==
    LET before == IF statement = 1 THEN now - Keep ELSE cutoff
        gone == {t \in Traces : Expired(t, before)}
    IN /\ deleting <=> (statement = 2)
       /\ \/ /\ Statement(statement, gone)
             /\ deleting' = (statement = 1)
             /\ UNCHANGED faultVars
          \/ /\ Statement(statement, gone) \/ UNCHANGED storeVars
             /\ DeleteFails
       /\ cutoff' = IF deleting' THEN before ELSE 0
       /\ Marked(gone)
       /\ UNCHANGED <<streamVars, traceVars, closeVars, handlerVars, dedupVars>>
       /\ UNCHANGED <<shown, lost, swept, page>>

-----------------------------------------------------------------------------
(* GetTrace.                                                               *)

DetailsThenSummary == <<"details", "summary">>
Queries == <<"summary", "details">>

\* p with the answer to one of the two queries.
Asked(p, query) ==
    IF query = "summary" THEN [p EXCEPT !.status = row[p.trace].status]
    ELSE [p EXCEPT !.spans = Payload(p.trace), !.labels = Labels(p.trace),
                   !.tree = p.trace \in tree]

\* A trace without a summary row is not found.
BeginRead ==
    /\ page = NoPage
    /\ \E t \in Watched : HasRow(t) /\ page' = Asked([NoPage EXCEPT !.trace = t], Queries[1])
    /\ UNCHANGED <<vars, retentionVars, fate>>

Answer == Asked(page, Queries[2])

EndRead ==
    /\ page # NoPage
    /\ page' = NoPage
    /\ UNCHANGED <<vars, retentionVars, fate>>

-----------------------------------------------------------------------------
Retain == Delete(1) \/ Delete(2)

StorageNext == ProcessorStep \/ Retain \/ BeginRead \/ EndRead

StorageSpec == StorageInit /\ [][StorageNext]_allVars

\* The retention ticker goes on as well as the processor.
StorageFairness ==
    /\ WF_allVars(Retain)
    /\ WF_allVars(Tick /\ ProcessorStep) /\ WF_allVars(Handler /\ ProcessorStep)
    /\ WF_allVars(Sweep /\ ProcessorStep)
    /\ \A t \in Traces : WF_allVars(Closer(t) /\ ProcessorStep)

FairStorageSpec == StorageSpec /\ StorageFairness

-----------------------------------------------------------------------------
(* Properties.                                                             *)

\* The store is consistent again once nothing works on a trace: the handler is
\* not on it and no goroutine is closing it.
AtRest(t) == ~(pc # "idle" /\ trace = t) /\ phase[t] \notin {"labels", "row"}

\* What the code does not keep together: a store call about the trace failed,
\* the process crashed before it was done with it, or it was written to while it
\* was being deleted.
Disturbed(t) == t \in blip \/ phase[t] = "dead" \/ fate[t] = "late"

\* "never unqueryable detail rows": retention finds detail rows through their
\* summary, so rows without one would stay for ever.  However a run of it is
\* cut short, it leaves none behind; a writer that met it half way may.
DetailsHaveSummary ==
    \A t \in 1..opened : AtRest(t) /\ ~HasRow(t) /\ ~Disturbed(t) =>
        Payload(t) = {} /\ Labels(t) = {} /\ t \notin tree

Emptied(t) == Payload(t) = {} /\ Labels(t) = {} /\ t \notin tree

\* An undisturbed trace has its row, unless its first write or its closing is
\* under way or retention deleted all of it.
RowOrGone ==
    \A t \in 1..opened : ~Disturbed(t) =>
        \/ HasRow(t)
        \/ fate[t] # "kept" /\ Emptied(t)
        \/ phase[t] \in {"labels", "row"}
        \/ phase[t] = "open" /\ pc \in {"insert", "upsert"} /\ trace = t /\ span \notin Terminal

\* Between the two statements the details of what the second will delete are
\* gone.
DetailsGoFirst ==
    deleting => \A t \in Traces : Expired(t, cutoff) /\ ~Disturbed(t) => Emptied(t)

\* The row of a span is kept for another trace: another life of the process has
\* handled the span as well, or this one did twice.
Elsewhere(t, s) ==
    s \in forgotten \/ \E u \in 1..opened : life[u] # life[t] /\ s \in members[u]

\* The payload of span s of trace t is not written yet: it is in the handler's
\* hand, or it was when the process crashed, and its message will come again.
Unwritten(t, s) ==
    \/ pc = "insert" /\ trace = t /\ span = s
    \/ life[t] # crashes /\ s \in Entries(queue)

\* The goroutine of a trace does not wait for InsertSpan of the span that ends
\* the trace: its terminal span, or the one the sweep overtook.
MayEnd(t, s) == s \in Terminal \/ t \in swept

\* Traces that retention and failures left alone.
Whole(t) == fate[t] = "kept" /\ t \notin blip

Labelled(t, s) == labelOf[s] = t \/ Elsewhere(t, s)

\* The goroutine of t is past the tree, or somebody was told that t is closed.
Told(t) == \/ phase[t] \in {"row", "event"}
           \/ row[t].status = "closed"
           \/ page.trace = t /\ page.status = "closed"

\* The spans of a trace are stored under it, all but the one in hand; and that
\* one may be missing from a closed trace only if it ended it.
DetailsKept ==
    \A t \in 1..opened : Whole(t) =>
        \A s \in members[t] : \/ detailOf[s] = t \/ Elsewhere(t, s)
                              \/ Unwritten(t, s) /\ (Told(t) => MayEnd(t, s))

\* The labels and the tree are there as far as that goroutine has come, and all
\* of them once a row, or a page, says closed.
ClosingKept ==
    \A t \in 1..opened : Whole(t) =>
        /\ phase[t] = "labels" => \A s \in members[t] \ unlabelled[t] : Labelled(t, s)
        /\ Told(t) => t \in tree /\ \A s \in members[t] : Labelled(t, s)

PageClosed ==
    page.status = "closed" => /\ page.trace \in 1..opened
                              /\ phase[page.trace] \in {"event", "done", "dead"}

\* A goroutine that has not saved the tree is of this life of the process.
LabellingNow == \A t \in 1..opened : phase[t] = "labels" => life[t] = crashes

StorageType ==
    /\ deleting \in BOOLEAN /\ cutoff \in Int
    /\ fate \in [Traces -> {"kept", "aged", "late"}]
    /\ page \in [trace : Traces \cup {0}, status : Statuses, spans : SUBSET Spans,
                 labels : SUBSET Spans, tree : BOOLEAN]

\* The inductive invariant behind DetailsHaveSummary and
\* ClosedPageMissesOnlyLast.
StorageInv ==
    /\ MemoryInv /\ StorageType
    /\ RowOrGone /\ DetailsGoFirst
    /\ DetailsKept /\ ClosingKept /\ PageClosed /\ LabellingNow

\* What a page that says closed may miss, although no call failed and retention
\* left the trace alone: not the tree and no label, but the payload of the span
\* that ended the trace, while InsertSpan for it is under way beside the
\* goroutine that closes the trace (or after a crash, until its message comes
\* again); and what another life of the process stores under its own trace.
\* That holds although the page asks twice and writers go on in between.
ClosedPageMissesOnlyLast ==
    [][page # NoPage /\ page' = NoPage /\ Answer.status = "closed" =>
          LET t == Answer.trace
          IN Whole(t) =>
                /\ Answer.tree
                /\ \A s \in members[t] :
                      /\ s \in Answer.labels \/ Elsewhere(t, s)
                      /\ \/ s \in Answer.spans \/ Elsewhere(t, s)
                         \/ Unwritten(t, s) /\ MayEnd(t, s)]_allVars

\* "old traces age out instead of accumulating forever": in the end nothing is
\* left of an old trace, whatever its writers were doing when it was deleted,
\* except what they wrote for it later or a failure left behind.
OldAgesOut ==
    <>[](\A t \in 1..opened : start[t] < MaxTime - Keep /\ ~Disturbed(t) =>
            RowsOf(t) = <<NoRow, {}, {}, FALSE>>)
=============================================================================
