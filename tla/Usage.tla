------------------------------- MODULE Usage -------------------------------
(***************************************************************************)
(* The usage ledger of one gateway (usage.rs) and what reports to it: the  *)
(* controller's reports, the native client's reports and the tools the     *)
(* gateway runs itself.  A report is addressed to a run, a state and a     *)
(* state epoch; once made it may arrive at any time, any number of times.  *)
(* A sitting is the time between two loads of a workflow: a resumed run is *)
(* the same run in another sitting, and start numbers its epochs from 1    *)
(* again.                                                                  *)
(***************************************************************************)
EXTENDS Naturals, Sequences, FiniteSets

CONSTANTS
    NoSheet,
    NoRun,
    LedgerRuns,
    LedgerStates,
    Ranks,          \* precision_rank: 3 exact, 2 mixed, 1 estimated, 0 other
    Invocations,    \* the controller's invocations, numbers
    MaxTokens,
    MaxEpoch,
    MaxSittings,
    MaxReports,     \* reports of both channels
    MaxTools        \* tools on one sheet

ASSUME UsageAssumption ==
    /\ Ranks \subseteq 0 .. 3
    /\ MaxTokens \in Nat
    /\ MaxEpoch \in Nat \ {0}
    /\ MaxSittings \in Nat
    /\ MaxReports \in Nat
    /\ MaxTools \in Nat
    /\ Invocations \subseteq Nat
    /\ NoRun \notin LedgerRuns

VARIABLES
    ledgerRun,      \* current_run_id
    epoch,          \* state_epoch
    sheets,         \* history, and the current state last; << >> before start
    sequences,      \* last_sequences
    reports,        \* the reports made so far
    sitting

usageVars == <<ledgerRun, epoch, sheets, sequences, reports, sitting>>

Channels == {"controller", "native"}
SequenceKeys == Channels \X (1 .. MaxEpoch)

ToolIds == {"controller", "gateway"} \X Nat

UsageInit ==
    /\ ledgerRun = NoRun
    /\ epoch = 0
    /\ sheets = <<>>
    /\ sequences = [k \in SequenceKeys |-> 0]
    /\ reports = {}
    /\ sitting = 0

-----------------------------------------------------------------------------

CurrentSheet == IF sheets = <<>> THEN NoSheet ELSE sheets[Len(sheets)]

EmptyState(state, e) ==
    [state |-> state, epoch |-> e, rank |-> 0, total |-> 0, tools |-> <<>>, nonTool |-> 0]

\* Every tool is taken to have put one token into the context.
UpdateDerived(sheet) ==
    [sheet EXCEPT !.nonTool = IF sheet.total > Len(sheet.tools)
                              THEN sheet.total - Len(sheet.tools) ELSE 0]

WithTotal(sheet, rank, total) == UpdateDerived([sheet EXCEPT !.rank = rank, !.total = total])

WithTool(sheet, tool) == UpdateDerived([sheet EXCEPT !.tools = Append(@, tool)])

\* load_workflow, of a new run or of a paused one.
StartUsage(run, state) ==
    /\ sitting < MaxSittings
    /\ sitting' = sitting + 1
    /\ ledgerRun' = run
    /\ epoch' = 1
    /\ sequences' = [k \in SequenceKeys |-> 0]
    /\ sheets' = <<EmptyState(state, 1)>>
    /\ UNCHANGED reports

\* record_run_transition: the sheet of the state that is left is kept.
MoveUsage(to) ==
    /\ sheets # <<>>
    /\ epoch < MaxEpoch
    /\ epoch' = epoch + 1
    /\ sheets' = Append(sheets, EmptyState(to, epoch + 1))
    /\ UNCHANGED <<ledgerRun, sequences, reports, sitting>>

\* deactivate: the run is gone, its sheets can still be read.
EndRun ==
    /\ ledgerRun # NoRun
    /\ ledgerRun' = NoRun
    /\ UNCHANGED <<epoch, sheets, sequences, reports, sitting>>

-----------------------------------------------------------------------------
(* Reports.                                                                *)

Made(channel) == {r \in reports : r.channel = channel}

\* A client numbers its reports and addresses them to what get_state showed it.
MakeReport(channel, kind, rank, total, id) ==
    /\ ledgerRun # NoRun
    /\ Cardinality(reports) < MaxReports
    /\ reports' = reports \cup
        {[channel |-> channel, kind |-> kind, run |-> ledgerRun, sitting |-> sitting,
          sequence |-> Cardinality(Made(channel)) + 1, state |-> CurrentSheet.state,
          epoch |-> epoch, rank |-> rank, total |-> total, id |-> id]}
    /\ UNCHANGED <<ledgerRun, epoch, sheets, sequences, sitting>>

\* validate_sequence
Fresh(r) == r.sequence > sequences[<<r.channel, r.epoch>>]

Noted(r) == sequences' = [sequences EXCEPT ![<<r.channel, r.epoch>>] = r.sequence]

\* state_for_report_mut
Retained(r) == {i \in DOMAIN sheets : sheets[i].state = r.state /\ sheets[i].epoch = r.epoch}

\* Mutant: an equally precise report applies whatever its total.
AppliesAnyTotal(r, sheet) == r.rank >= sheet.rank

Applies(r, sheet) ==
    \/ r.rank > sheet.rank
    \/ r.rank = sheet.rank /\ r.total >= sheet.total

\* report_native_usage: only for the active run, and never an unknown precision.
Admitted(r) == r.channel = "native" => r.run = ledgerRun /\ r.rank > 0

\* report_usage_from.  A superseded report leaves its sequence unrecorded.
ReportUsage(r) ==
    /\ r.kind = "usage"
    /\ Admitted(r)
    /\ Fresh(r)
    /\ \E i \in Retained(r) :
        /\ Applies(r, sheets[i])
        /\ sheets' = [sheets EXCEPT ![i] = WithTotal(@, r.rank, r.total)]
    /\ Noted(r)
    /\ UNCHANGED <<ledgerRun, epoch, reports, sitting>>

\* report_tool: of the current state only; an invocation counts once.
ReportTool(r) ==
    /\ r.kind = "tool"
    /\ sheets # <<>>
    /\ Len(sheets) \in Retained(r)
    /\ Fresh(r)
    /\ sheets' = [sheets EXCEPT ![Len(sheets)] =
                    IF \E j \in DOMAIN @.tools : @.tools[j] = <<"controller", r.id>> THEN @
                    ELSE WithTool(@, <<"controller", r.id>>)]
    /\ Noted(r)
    /\ UNCHANGED <<ledgerRun, epoch, reports, sitting>>

\* note_gateway_tool
NoteGatewayTool ==
    /\ sheets # <<>>
    /\ Len(CurrentSheet.tools) < MaxTools
    /\ sheets' = [sheets EXCEPT ![Len(sheets)] =
                    WithTool(@, <<"gateway", Len(CurrentSheet.tools) + 1>>)]
    /\ UNCHANGED <<ledgerRun, epoch, sequences, reports, sitting>>

-----------------------------------------------------------------------------

UsageNext ==
    \/ \E run \in LedgerRuns, state \in LedgerStates : StartUsage(run, state)
    \/ \E to \in LedgerStates : MoveUsage(to)
    \/ EndRun
    \/ \E channel \in Channels, rank \in Ranks, total \in 0 .. MaxTokens, id \in Invocations :
        MakeReport(channel, "usage", rank, total, id)
    \/ \E id \in Invocations : MakeReport("controller", "tool", 0, 0, id)
    \/ \E r \in reports : ReportUsage(r) \/ ReportTool(r)
    \/ NoteGatewayTool

UsageSpec == UsageInit /\ [][UsageNext]_usageVars

-----------------------------------------------------------------------------
(* Properties.                                                             *)

\* Within a sitting no report, late or repeated, from either channel, replaces a
\* total by a less precise one, or by a smaller one of the same precision
\* (report_usage_from: "cumulative totals may only move forward").
TotalsOnlyImprove ==
    [][sitting' = sitting =>
        \A i \in DOMAIN sheets :
            /\ i \in DOMAIN sheets'
            /\ sheets'[i].state = sheets[i].state
            /\ \/ sheets'[i].rank > sheets[i].rank
               \/ sheets'[i].rank = sheets[i].rank /\ sheets'[i].total >= sheets[i].total]_usageVars

=============================================================================
