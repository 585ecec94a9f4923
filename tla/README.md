# AGILE reporting app: specifications, model checks and proofs

The AGILE reporting app collects the monthly and quarterly returns of the
states of a programme, checks their figures, raises data queries on what looks
wrong, applies the corrections the states send back, and publishes national
figures on a dashboard and in reports. It is a FastAPI service over a relational
database (SQLAlchemy; SQLite by default) with a JavaScript page.

This directory specifies what the app does with a figure from the file it comes
in to the boards it is shown on: how files are read, the life of a return, the
query workflow that runs beside it, the close-out of reporting cycles, the rules
and the reconciliation that judge figures, the aggregation and the verdicts, and
how a change reaches an open dashboard. Paths below are relative to `src/`.
`PROJECT.json` ties every definition to the lines it models.

Contents: [the system](#1-the-system), [the modules](#2-the-modules),
[the runs](#3-the-runs), [what the code does not keep](#4-what-the-code-does-not-keep),
[the proofs](#5-the-proofs), [what is not modelled](#6-what-is-not-modelled),
[the plan](#7-the-plan).

## 1. The system

### Inventory

| component | code | state it keeps | operations | status |
|---|---|---|---|---|
| period close-out and reopenings | `app/services/periods.py`, `app/models/reference.py` | `ReportingPeriod.is_open`, the `period_reopenings` rows | close, reopen, grant, revoke, `assert_can_submit`, `consume_reopening`; lapse by date | modelled |
| calendar and reference data | `app/services/reference.py`, `app/api/v1/reference.py` | `reporting_periods`, `targets`, cohort and standing of a state | create, generate, order, enclose; upsert targets; update a state | partly |
| file parsing and mapping | `app/services/ingestion/parser.py`, `mapper.py`, `kobo.py` | none | find the header, match headings and columns, read cells, fold rows by state | partly |
| submission pipeline | `app/services/ingestion/pipeline.py` | `submissions`, `indicator_values` | upload, direct entry, Kobo export, supersede, approve, reject, re-validate (one, or a period), delete | modelled |
| data-query workflow | `app/services/queries.py`, `app/models/query.py` | `data_queries`, `query_responses`, `value_revisions` | raise, carry forward, respond, accept, reject answer, withdraw, escalate | partly |
| correction sheets | `app/services/corrections.py` | through the query workflow | answer many queries in one transaction | modelled |
| figure labels | `app/services/disclosure.py` | `disclosure_status`, `is_valid` of a figure | `set_status`, mark, clear | modelled |
| validation engine | `app/services/validation/engine.py` | `validation_results`, the status of the return | gather the context, run, persist | modelled |
| validation rules | `app/services/validation/rules.py` | none | functions of figures, history, peers, thresholds | partly |
| reconciliation | `app/services/reconciliation.py` | none | fold months into a quarter and compare | modelled |
| analytics | `app/services/analytics.py` | a cache per session, keyed by the data version | readings, totals, rates, targets, scorecards, series, ranking, heatmap | modelled |
| exposure and verdicts | `app/services/exposure.py` | `fitness_verdict`, `material_findings` | which findings are material, the verdict of a return | modelled |
| analysis model, dashboard, returns, cohorts | `app/services/analysis_model.py`, `dashboard.py`, `returns.py`, `cohort.py` | none | projections of the tables | partly |
| event bus | `app/core/events.py`, `app/api/v1/dashboard.py` | a version counter and subscriber queues per worker process | publish, subscribe, fan out | modelled |
| dashboard page | `app/web/static/js/dashboard.js` | `dataVersion`, `analysisStale`, `loading`, the model drawn | stream, poll, load, draw | partly |
| Kobo loading script | `scripts/load_kobo.py` | one transaction | load the export of a quarter | modelled |
| reports | `app/services/reporting/` | a row per report made | build and render documents | not modelled |
| access control, audit trail, configuration, schemas, seeds | see `PROJECT.json` | roles, audit rows, settings | | not modelled |

### How the parts interact

Every change comes in as one HTTP request, which runs in one database
transaction (`app/db/session.py`, `app/api/deps.py`). The filing endpoints
ask `periods.assert_can_submit` first. The pipeline then adds a row to
`submissions`, retires the version in force (`_supersede_previous`), and has the
query service carry that version's open queries over *before* the new figures
are stored. It stores the figures, runs the rules, labels and queries what they
found, may approve on the spot, consumes the reopening that admitted the return,
and runs the rules again on the quarter that encloses a month. Thresholds,
re-validation, approval and rejection come in through endpoints of their own, in
any order, on any version. The query workflow reads and writes the figures of
whichever return is *current when it acts*.

Each handler publishes on the in-process event bus of the worker that served it,
and commits afterwards. Open pages hear of it from a server-sent event stream,
or by polling the version every thirty seconds.

### What is hard here

* **Protocol sequences.** Approvers, states and administrators act in any order;
  most operations look at little of the state (accept asks only for a response,
  approve only for "not rejected", reject-answer and escalate for nothing).
  Invariants that relate versions, queries, labels and counts have to survive
  every such order. This is what `Returns` is for.
* **Stored derivatives.** `open_query_count`, `invalid_value_count`, the label of
  a figure and its `is_valid` are stored and refreshed by the operations that
  remember to.
* **Time.** Reopenings lapse by the calendar, and nothing writes that down.
* **Concurrency between requests.** Only the unique key of
  (state, period, version) and SQLite's write lock guard it. `Returns` treats a
  request as atomic; `ReviewRace` splits approvals into what they read and what
  they write; `Intake` lets others work until a long load makes its first write.
* **Figures nobody reported.** A month, a part of a total, a component of a rate
  or a whole state may be missing, and each reader decides for itself what then.
* **One number, many readers.** The scorecard, the indicator page, the series,
  the heatmap, two boards and the tiles compute the same figures, each with its
  own choice of states, returns and targets.
* **Derived judgements.** Findings and verdicts are stored, and refreshed when a
  return is filed, when the month inside its quarter is, or when somebody asks.
* **Publish before commit, several workers, bounded queues, loads that fail.**
  This is what `LiveDashboard` is for.

The hazards, each at its line with the property that watches it, are listed in
`PROJECT.json`.

### What makes each part correct

* Close-out: a closed cycle takes a return only on an unused, unexpired,
  unrevoked reopening of that state and period; one reopening admits one return;
  an unused one lapses.
* Pipeline: one return is authoritative for a state and period; approved means
  current; approval is not lost by re-validation; open queries follow the figure.
* Queries: one open query per finding; a flag stays on a figure while any query
  about it is open; a figure changes only by an accepted response and its
  revisions account for every change.
* Intake: a figure is stored under the indicator it was given for; no answer is
  not a zero; a load is all or nothing.
* Judgement: the quarter is told what its months say now; a verdict on a quarter
  outlives a late month; what is missing opens no finding but that it is missing.
* Views: they agree with one another, and a national figure rests on reports.
* Dashboard: a page that is told of a change reloads, after the change is
  stored; no loss of events is final.

## 2. The modules

| module | what it is |
|---|---|
| `Periods` | the close-out of cycles and the reopenings, on a calendar |
| `Disclosure` | the labels of a figure: constant operators, no state |
| `Returns` | pipeline, validation and query workflow, with `Periods` as its gate |
| `ReturnsProperties` | the properties of `Returns`, and the refinement mapping to `PublishedFigures` |
| `Corrections` | correction sheets, on top of `Returns` |
| `ReviewRace` | approvals in concurrent transactions, on top of `Returns` |
| `PublishedFigures` | abstract: what a reader of national figures is promised |
| `LiveDashboard` | event bus, stream, polling, and the page |
| `Aggregation` | how figures fold into one: constant operators |
| `Figures` | the stored figures and what reads them first: readings, targets, states |
| `Analytics` | indicator page, scorecards, series, ranking, heatmap |
| `Reconciliation` | a quarter against its months |
| `Rules` | the validation rules, on the context of a return |
| `Validation` | the engine: what a run reads and what it stores |
| `Exposure` | what the findings on figures cost, and the verdicts |
| `Boards` | the read models over all of these |
| `Assessment` | the state machine under the nine modules above: `Figures` as state, the handlers as actions |
| `AssessmentProperties`, `SingleRevalidation` | its properties; re-validation of one return, and what the code does not keep |
| `Calendar`, `Templates`, `KoboExports` | periods; reading a template; reading an export |
| `Intake`, `IntakeProperties` | the two doors for files, with `Periods` as the gate, and their properties |
| `PeriodsProofs`, `ReturnsProofs`, `ReturnsFiguresProofs`, `ReturnsRefinementProofs`, `ReturnsQueriesProofs`, `IntakeProofs`, `AssessmentProofs`, `LiveDashboardProofs` | theorems |
| `MCPeriods`, `MCReturns`, `MCReviewRace`, `MCLiveDashboard`, `MCAssessment`, `MCClaims`, `MCIntake` | instances for TLC |

`Returns` has the rows and leaves the figures and findings free. `Assessment`
has the figures and the findings and one row per state and period. `Intake` has
the files. The three meet in the handlers of the pipeline, each of which is
mapped to the lines of it that module models.

### Periods

`isOpen[p]` is `ReportingPeriod.is_open`; `grant` is the `period_reopenings`
table in id order; `today` is what `date.today()` returns. The status of a
reopening is derived (`IsActive`, `Status`), as in the code. `File` is the pair
`assert_can_submit` … `consume_reopening`, which the handlers run in one
transaction. `landed` is a history variable: the returns that landed in a closed
period and the reopening each used. Refused calls change nothing and are no
steps.

### Returns

The database is three tables, functions from keys to rows: `submission`, `value`
(keyed by return and indicator, with the `value_revisions` of a figure as its
`trail`) and `query` (keyed by state, period, rule, indicator and a serial
number). `filed` hands out ids. A handler is one transaction, hence one action.
Its helpers are operators from a record `d` of the three tables to the next one
(`RefreshCounts`, `CarryForward`, `SupersedePrevious`, `RunValidation`,
`RaiseQueries`, `ReleaseQuarantine`, `Settle`, …). An action composes them in the
order in which the code calls them, and `Commit(d)` stores what comes out.

| action | code |
|---|---|
| `Ingest` | `ingest_upload`, `ingest_manual`, and each state of `ingest_kobo_export`; with `auto`: approval on the spot; with `raise` off: the loading scripts |
| `Approve`, `Reject` | `approve_submission`, `reject_submission` |
| `RevalidatePeriod` | re-validation of a period. That of one return always fails (section 4) and changes no table; it is in `SingleRevalidation` |
| `Delete` | the delete endpoint, with its cascade and its orphaned queries |
| `Respond`, `Accept`, `RejectAnswer`, `Withdraw`, `Escalate` | the query service |
| `Administration` | every action of `Periods` except `File`, which is part of `Ingest` |

What a run of the rules finds is any set of findings: rules depend on the
figures, the history, the other states and on thresholds that administrators
retune at any time, so from the point of view of this module anything may be
found at any time. `Assessment` computes them. Columns no handler decides by (dates, notes, resolutions,
files) are left out.

### Corrections

A sheet goes out with the open queries of a state and period (`SheetFor`) and
comes back as rows, of which at least one is filled in (`Filled`). They are taken
or skipped one after the other, each on what the ones before left (`IngestSheet`,
a fold of `Ingested` over the tables of `Returns`). A row holds the tokens its
response column contains: "no change" has "change" in it, and is read as a
correction. `SheetSpec` is `Returns` together with any sheets, of any rows;
the instance sends the sheets that a state could send back in it.

### ReviewRace

An approval in two steps: `ReadForApproval` keeps what the session read, and
`WriteApproval` is its flush and commit, which writes an attribute only where it
differs from what was read. Requests run in a thread pool with a session each,
autoflush is off and SQLite takes its lock at the first write
(`app/db/session.py`), so nothing orders the reads of two requests.

### PublishedFigures

For each state and period there is at most one return in force. It is put in
force, taken out or replaced as a whole, one state and period at a time, and
while in force its figures change one by one. `ReturnsProperties` maps the
tables to it (`Published`: the approved current return and its figures) and
`PublishedSpec` says that `Returns` implements it. It is what catches a handler
that retires a return of another period, or changes a figure while doing
something else.

### Assessment and the modules below it

`latest[<<st, p>>]` is the last return of a state for a period: its status, its
rows per indicator (value, numerator, denominator, label), the labels, findings,
verdict and count of material findings that are stored with it. `roster` is the
states' table, `target` the targets', `rates` the thresholds. A `setup` picks a
catalogue and bounds and never changes. `store` is all of it.

| action | code |
|---|---|
| `File` | the landing of a return, the run of the rules on it, approval on the spot, and the second run on the quarter that encloses it |
| `Approve`, `Reject` | the decisions on the current return |
| `Restate` | `_apply_restatement` and the release of the label |
| `RevalidatePeriod` | all current returns of a period, then `apply_verdicts` |
| `UpsertTarget`, `UpdateState`, `Retune` | targets, roster, thresholds |

Everything else is an operator over that state, and follows the code function
by function: `Reading` and `Collapse` (rows to a figure), `AggregateNational`
(figures to a total), `Lines` (a quarter, line by line, against the fold of its
months), `Context` and `Registered` (25 rules), `Findings`, `Verdict`,
`Scorecard`, `AnalyseIndicator`, `Trend`, `Heatmap`, `NationalReturns`,
`Overview`, `AnalysisModel`. A transaction that reads its own writes is an
instance of the reader over the intermediate table (`After(t)`). A list of which the
code keeps some entries, as the states that report, is a function on their
positions in it (`RestrictValues`), and a ranking is the place of each entry
(`Places`), so that sums, counts and extremes of it are those of finite sets. Figures are
whole numbers and percentages are floored; the rules that need more, and the ones
on dates and earlier versions, are named at the top of `Rules`.

### Intake and the modules below it

A template is a sequence of lines of cells. `ParseUpload` finds the header among
the first lines and skips banners, `MapRows` matches headings to fields and
indicators, in the order in which the code tries its strategies, and reads a
long layout (a line per indicator) or a wide one (a column per indicator). For the
state and the period the first cell that is not blank decides (`FirstTold`): one
that names neither has the file refused. An
export is a table of questions; `IsUsable` is the refusal of an export with
unmatched or colliding columns, `ReadExport` its returns, one per way a state's
name is written, which the script takes in the order of the names (`Turn`). A cell is a record of what the parsers tell apart: a number, a
yes, a no, the marks for nothing, the names it matches. How close two texts are
(`difflib`) is given with a heading. What is left of a list of lines, rows or
cells keeps its positions and has gaps (`RestrictValues`, `RestrictDomain`); only
the order of what is left matters to the code, and its first or last is `Min` or
`Max`.

`IntakeProperties` compares what is stored with what a file means. A question of
an export has what it `asks`; a template has the line its headings are in, what
each column is for, and on each line the figures it `carries`. The operations read
none of this. `FilesAssumption` says what a file has to be for the comparison to be
fair (section 5).

`Upload` is one request. The script is `StartLoad`, then `SkipReturn`,
`LoadReturn` or `RefuseReturn` for each state, then `Finish`, or `Die` at any
point. `batch.work` is its uncommitted database; it counts from the first return
in `batch.loaded` on, and then nobody else can write (`Unlocked`). `batch.open` is the row of
the period that it read at the start.

### LiveDashboard

`version[w]` and `scheduled[w]` are the bus of worker process `w`: `publish`
bumps the version, and schedules a fan-out only where an event loop runs, which
is in the asynchronous endpoints. `request[h]` is a handler between its publish
and its commit (`Store`) or failure (`RollBack`). An asynchronous handler has no
`await` between the two, so it holds the loop of its worker (`LoopHeld`) and
fan-outs, streams and deliveries of that worker wait. `stream` is the page's
subscription with its bounded queue, and `page` is the page's flags, the tab in
view, the tab a load under way is for, its answer and what is drawn. Six tabs are
boards drawn from one model, the others load what they show (`View`). `Rendered`
is `render`: nothing while any load is under way, nothing on a board that is drawn
and up to date, else a load of the tab in view, which `Answer` and `Draw` end for a
board and `EndOther` for another tab. A database is the set of changes it
holds, and what is drawn is the set of changes it shows.

## 3. The runs

All passing runs explore their whole state space; none uses symmetry.

| run | distinct states | shows |
|---|---|---|
| `periods` | 30,886 | Granting, lapsing, revoking, filing and re-closing in any order: never two active reopenings, never two returns on one (`OneActiveReopening`, `OneReturnPerReopening`); a status only moves forward; an unused reopening lapses (`ReopeningsLapse`) |
| `returns_versions` | 259,951 | Two versions of one return, every decision and the whole query workflow: `OneCurrentReturn`, `ApprovedIsCurrent`, `HeldCountExact`, `OpenCountNeverOverstates`, `QueriesFollowReplacement`, `ApprovalStands`, `RaisedOnce` |
| `returns_corrections` | 240,729 | A month and its quarter, two rules on one figure that may be a blank, two restatements of it, sheets that come back late or mixed up: `RevisionsExplainFigure`, `FiguresMoveByAcceptance`, `FlagLiftedOnlyWhenSettled`, `AnswersAreForOneReturn` |
| `returns_calendar` | 189,408 | Returns while cycles close, reopen and lapse: `PublishedSpec`, `ClosedCycleTakesNoReturn` |
| `live_dashboard` | 217,636 | One worker, two requests, three changes, a page that turns between tabs: `PushedIsSettled`, `StaleIsBeingLoaded`, `StaleUntilDrawn`, `LoadingEnds`, `PollNotices` |
| `figures` | 8,465 | Eight setups, every order of filing, deciding, restating, retuning and re-validating: `ReconciliationIsCurrent`, `VerdictsOutliveLateMonths`, `MissingIsNotZero`, `FallReportedOnce`, `ViewsAgree`, `NationRestsOnReports`, `CorrectedTotalPossible`, `BoardsCountTheirScope`, `VerdictsFollowFindings` |
| `intake` | 39,807 | Three templates, four exports, a calendar in the making, a script that may die: `FiguresAreWhatWasAsked`, `AnswersAreKept`, `BatchIsWhole`, `CalendarFits`, `GeneratingKeepsCycles` |

Five more runs each find a violation (section 4).

### Bounds

* `periods`: two states so that a grant of one could wrongly admit the other; one
  period, since no operation relates two; three grants, so that a state can hold
  a used, a lapsed and a fresh one at once; days 0 to 4 with grants of one or
  two days, so that a grant lapses before, on and after a filing. Grants end
  before `Horizon`, the last day of the model, so the calendar never stops a
  grant from lapsing. When the last day is reached the cycles still close and
  reopen, so nothing deadlocks.
* `returns_versions`: supersession, approval out of order and carrying relate two
  versions at a time, so two returns are enough, and a deleted one makes room for
  none (ids are not reused). `MaxRaised = 2` lets a finding be queried, settled
  and queried again. Restatement is off (`MaxRestatements = 0`); it touches none
  of these properties and is the subject of the next run.
* `returns_corrections`: a response may name the other period, so two periods,
  one enclosing the other; two rules, one of which blocks, on one figure, so
  that one of two flags can be settled first; the figure proposed differs from
  the one reported, which is 1 or a blank. Two restatements per figure, so that
  one starts from what another left and a blank is corrected twice. Findings are
  made at filing (`CorrectionSpec`): every return has the one of the rule that
  blocks, by which its figure can be restated at once, and a month may have the
  other as well. Decisions other than approval are left to the previous run.
* `returns_calendar`: one rule, one reopening, days 0 to 2. `CalendarSpec` leaves
  out the query steps that touch neither a figure nor the standing of a return.
* `live_dashboard`: a queue of one, so that a second event is lost; three changes
  with two requests, so that changes overtake each other between publish and
  commit; one load that fails; a user who may turn to another tab at any time, also
  while a load is under way. `PollNotices` is stated for one worker, which is
  what the run has: with several it is false, see section 4.

* `figures`: the states are few and the work is in evaluating every rule and
  every view in each of them. Five setups are a nation: three states in two
  cohorts report one period, one per aggregation method, so that a state may be
  absent, report nothing, be retired or move to the other cohort, with and
  without a target. Three are a quarter: one state reports the quarter before,
  two months and the quarter, in any order and again, with cumulative figures,
  sums and a total with parts. Figures are chosen on both sides of each
  threshold (a fall of more than half, a mismatch, a tie of two rules on one
  figure). Three or four filings and one or two other changes: every property
  relates at most a return, its predecessor, two months and one change.
* `intake`: an indicator whose name is another's without the percent sign, and
  one that is not reported any more; a file with a banner, blank lines, section
  headings, marks for nothing and an unreadable answer; an export with two
  sections of one state, an unknown state, two spellings of one, an outdated
  form and a question asked twice; on one line the number of an indicator beside a text
  close to the name of another. Two files, so that one replaces the other; two
  reopenings, one per state; days 0 to 2, so that a reopening can lapse while the
  script is under way.

The bounds on raised queries and on restatements are in `Commit`, those on
filings, grants, changes, loads and failures in the guard of the action they
bound. A bound removes steps and changes none.

`CHECK_DEADLOCK FALSE` is set for the `LiveDashboard` runs (once the last change
is drawn, nobody needs to do anything), and for `figures`, `intake`, `review_race`
and the two runs of `MCClaims`, which stop when their bounds are used up.

### Fairness

`Periods` assumes that days pass. `LiveDashboard` assumes that a handler ends
(commits or fails: a request has no wait inside), that an event loop runs what is
scheduled on it, that an event in a queue is delivered while the stream lasts,
that the page polls (`setInterval`, thirty seconds; any worker may answer, and
the assumption is made for each), and that a load ends, of a board or of another
tab (answered and drawn, or failed: the browser settles every fetch). Each is weak
fairness. Nobody is assumed to change data, connect, open a tab or fail.
`page_catches_up` is about a user who stays on the boards (`BoardSpec`): a page on
which another tab is in view has no board to bring up to date. `Returns` states no liveness:
every one of its steps is somebody's decision, and so is every step of
`Assessment` and `Intake`.

## 4. What the code does not keep

Each of these is a run that expects a violation of one property, and its
counterexample can be replayed against the code by hand.

* `review_race`: two requests approve two versions of which neither is current
  (superseded ones can be approved, `pipeline.py:701`). Each reads the rivals
  before the other commits, finds none, and both end up current, against "so
  exactly one stays authoritative" (`pipeline.py:64`). The schema does not
  prevent it.
* `revalidation`: `revalidate_submission` quotes `summary.overall_score` in its
  audit entry (`pipeline.py:826`), a field `ValidationSummary` does not have
  (`app/schemas/validation.py:41`). The endpoint always fails and the return keeps
  the findings from before the threshold changed.
* `every_figure_counts`: a weighted national rate is pooled over the states that
  gave numerator and denominator as soon as one did (`analytics.py:334`); a rate
  without components, and a restated one, do not move it. `exposure.py:3` says
  that every reported figure counts, and COM-002 tells the state of a fallback
  that happens only when nobody gave components (`rules.py:855`).
* `refiled_return_takes_queries`: rejecting a return leaves its open queries on
  it and the period without a current return. The version filed next finds no
  current predecessor, so inherits none of them; and since they are open, no new
  query is opened either. The figures of the new version are labelled, its count
  of open queries is 0.
* `page_catches_up`: each worker counts its own version from zero, and the page
  compares what it polled with what it polled last. With two workers that have
  counted equally far, a change is never noticed.

`PageCatchesUp` fails with a single worker too, in ways the run would find if it
had one: the version is bumped before the commit, so a page can poll, load and
draw between the two and never look again (a change published from a worker
thread sends no event); a mark set while a load is under way is cleared by that
load (`dashboard.js:298`, `:355`, `:387`); a load that failed after a poll is
not repeated until a tab is opened; and a board that is asked for while another
tab loads is not loaded at all. `dashboard.js:3` says that the page "refreshes the
active view automatically": `render` returns at once when a load is under way,
whichever tab it is for (`dashboard.js:356`), and nothing renders again when that
load ends, so a user who turns from the reports to a board too soon keeps
the old board, or a blank one, until the next event, poll or click.
`StaleIsBeingLoaded` says that this and a failed load are the only two ways
a board in view is left behind. What is left of the promise is checked:
`PollNotices` (every bump is noticed), `StaleIsBeingLoaded` and `StaleUntilDrawn`.

Returning an answer and escalating do not look at the status of a query, so one
that was accepted or withdrawn can be open again, with its closing date and
resolution. They do not refresh `open_query_count` either, so after them it may
be too low, which is why `OpenCountNeverOverstates` is an inequality.

Met while modelling, and kept in the models as the code has it:

* `models/submission.py:140` says of `original_value`: "Set once at ingestion and
  never changed". A figure that was reported as a blank has none, and every
  acceptance that finds none takes the figure as it then is
  (`queries.py:576`): the first leaves the blank, the second makes the first
  correction the original. The revisions still start at the blank.
  `RevisionsExplainFigure` says which of the two the original is (`Origin`).
* What a quarter is told about its months is refreshed when a month is filed,
  not when one is restated, rejected or deleted; `ReconciliationIsCurrent`
  excepts those steps. Verdicts are settled by `RevalidatePeriod`
  only.
* An accepted correction leaves the finding it answers in place until the rules
  run again.
* `by_state` charges every finding's magnitude, so a figure that two rules flag
  counts twice towards the exposed share, though not in `net_distortion`, which
  explains why it must not (`exposure.py:107`). `CorrectedTotalPossible` is about
  the latter.
* The fitness tile counts current returns; the returns board also counts a
  rejected one's verdict. `BoardsCountTheirScope` relates the two by an
  inequality. `AnalysisModel` counts the current returns of retired and of
  not yet approved states among those reporting.
* The scorecard and the page hold a cohort against the pooled targets of its states
  (`analytics.py:494`, `:596`), its series against the national target where there
  is one (`analytics.py:749`). `ViewsAgree` asks the series of a cohort for
  the same value, and for the same target and achievement only where there is no
  national target. The series of a single state folds the one reading it
  has with the method of the indicator, so a Yes counts as 1, a zero under the mean
  of the non-zero states is nothing, and a rate is made from its components again.
  For these methods `ViewsAgree` asks for the same target only.
* A series over a cohort without a reporting state looks for the last period
  in which any state has data (`analytics.py:165`), since an empty list of states is
  taken for no filter.
* Shares of a national total below zero are negative, so no error in it is ever
  material (`exposure.py:383`).
* A weighted rate is that of all numerators and all denominators, whoever gives
  them (`analytics.py:345`). A state that gives one without the other, or has a
  rate restated away from its components, moves the national rate out of the
  range of the states' own. `NationRestsOnReports` asks of a weighted indicator
  that its components come in pairs and make the rate (`Paired`).
* A target of level STATE without a state is read as the national one.
* The history of the outlier check includes later periods and other families of
  periods; the national context counts rows, not states.
* A heading of a wide template that is close to an indicator's name and contains
  the name of a field is taken for the field (`mapper.py:276`); the figures below
  it are then read as numbers of indicators. `Drifted` marks these files by their
  headings, and the two properties about figures leave them aside.
* In a template of three or more columns a line whose only entry is a word, such as
  "Yes", in the first or second of them is taken for the band over a section
  (`parser.py:101`) and skipped without being counted. `FilledIn` excludes it: there
  a band carries nothing.
* A yes-or-no question answered with a number below one is stored as No, so a zero
  may be such a number. `AnswersAreKept` says so.
* One state under two spellings in an export makes two returns, of which the
  second supersedes the first as a whole.
* An identical file is refused as a duplicate also when the return it was filed
  as has been rejected.
* "no change" in a correction sheet is read as a correction (`corrections.py:234`),
  and is skipped for want of a figure.
* The loading script reads the row of the period once: a cycle that is closed
  before its first write is still open to it. `BatchIsWhole` speaks of the period
  as it was when the load began.

## 5. The proofs

TLAPS proves, for all values of the constants:

| theorem | from |
|---|---|
| `PeriodsProofs!TypeCorrect`, `OneActiveReopeningAlways`, `OneReturnPerReopeningAlways`, `StatusMovesForwardAlways` | `BoundsAssumption` |
| `ReturnsProofs!TypeCorrect`, `OneCurrentReturnAlways`, `ApprovedIsCurrentAlways`, `ApprovalStandsAlways` | `ReturnsAssumption` |
| `ReturnsFiguresProofs!HeldCountExactAlways`, `OpenCountNeverOverstatesAlways`, `RevisionsExplainFigureAlways`, `FiguresMoveByAcceptanceAlways` | `ReturnsAssumption` |
| `ReturnsRefinementProofs!ImplementsPeriods`, `ClosedCycleTakesNoReturnAlways` | `ReturnsAssumption` |
| `ReturnsRefinementProofs!ImplementsPublishedFigures` | `ReturnsAssumption`, `LedgerAssumption` |
| `ReturnsQueriesProofs!QueriesFollowReplacementAlways`, `FlagLiftedOnlyWhenSettledAlways`, `RaisedOnceAlways`, `AnswersAreForOneReturnAlways`, `SheetsMoveNoFigure` | `ReturnsAssumption` |
| `IntakeProofs!BatchIsWholeAlways`, `CalendarFitsAlways`, `GeneratingKeepsCyclesAlways` | `IntakeAssumption` |
| `IntakeProofs!FiguresAreWhatWasAskedAlways`, `AnswersAreKeptAlways` | `IntakeAssumption`, `FilesAssumption` |
| `AssessmentProofs!AssessmentTypeCorrect`, `VerdictsOutliveLateMonthsAlways`, `VerdictsFollowFindingsAlways`, `FallReportedOnceAlways`, `MissingIsNotZeroAlways`, `CorrectedTotalPossibleAlways`, `ReconciliationIsCurrentAlways`, `ViewsAgreeAlways`, `NationRestsOnReportsAlways`, `BoardsCountTheirScopeAlways` | `AssessmentAssumption` |
| `LiveDashboardProofs!TypeCorrect`, `PushedIsSettledAlways`, `StaleIsBeingLoadedAlways`, `StaleUntilDrawnAlways` | `LiveAssumption` |

The assumptions say that bounds are naturals, that `None` is no real value, that
findings and reports are well-formed, and that there are finitely many
indicators and findings (the catalogue and the rule set are finite; the counts
and the version numbers of the code are counts and maxima of finite sets).
`LedgerAssumption` says that `None` is no account of a return. `IntakeAssumption`
says that the periods somebody creates are ones `_period_bounds` accepts.

`FilesAssumption` says that the single texts of a file can be trusted, and nothing of
where they stand. Of an export: a question in the words of an indicator, percent
sign and all, asks for that indicator. Columns may collide, be missing, be outdated
or ask what no indicator has, and a state may have any number of rows. Of a template:
its headings are among the first lines that have anything in them and look most like headings;
each names what its column is for, or names nothing and its words hint at no other
(`HeadingSays`); a template has a column per indicator or columns that say which
indicator a line is about, not both, and of the latter no two for the same field; a line carries what its
cells say (`WideSays`, `LongSays`), where a text close to one indicator may stand
beside the number of another; empty lines, bands and what is above the headings carry
nothing. A template whose heading is close to an indicator and contains the name
of a field (`Drifted`) is left aside.

`AssessmentAssumption` says that catalogues, filings and calendars are well-formed
(`IsSetup`: a finite catalogue in an order, rows of numbers, parts of a period
listed in sequence, methods that `AggregationMethod` has; the states are listed in an
order, each once, and so are the cohorts; no period is its own predecessor or one of
its own parts; `None` is no number, no severity and no cohort). TLC evaluates each of
the assumptions in the runs of its module.

### Periods

Every step of the component either marks one row of the table, adds one behind
the others, or leaves it alone; `Moves(row, new)` says what may become of a row
(its key and expiry stay, marks are only set, use only while it is active, a used
row is never withdrawn), and `MarkingMoves` and `AddingMoves` show that of each
kind of step. `OneActiveReopening` is inductive together with the types
(`GrantInv`): a row never becomes active again, and a row is added only where
none is active. `OneReturnPerReopening` is inductive with the types, because only
an active row is used and using it ends that. `StatusMovesForward` follows from
`Moves` and from time passing.

### Returns

`IInv` = fresh ids + `Tables(Db)` (every table is a finite function from keys to
typed rows) + `Standing(Db)` (one current return per unit; approved implies
current). Neither half of `Standing` is inductive alone: a return that gives way
loses its approval only because the look-up for it goes by `current`, so an
approved return that was not current would be missed; and an approval makes a
return current, so it must have retired every current rival first.

Handlers are compositions, and so is the proof. `Keeps(d, e)` says that a helper
adds and removes no return and leaves each one's standing (state, period, as
current and as approved as before). It is transitive, it preserves `Standing`, and
there is one lemma per helper that has it: `RefreshKeeps`, `CarryKeeps`,
`ValidationKeeps`, `RaiseKeeps`, `ReleaseKeeps`, `SettleKeeps`, `RestatedKeeps`,
`PersistKeeps`, `CheckKeeps`. The helpers that do change standing are followed
one by one: `AddSubmission` breaks `Standing` (two current returns for a moment,
inside the transaction), leaving it true beside the new return
(`StandingBeside`); `SupersedePrevious` restores it and leaves the return without
a rival (`SupersedeStanding`, `Sole`); helpers that keep standing create no rival
(`KeepsSole`); approving a return without a rival is harmless
(`ApprovedStanding`). For `ApprovalStands` they are followed a second way:
`TakesOver(d, e, s)` says that an approval was withdrawn only from rivals of `s`,
and in the end `s` is current. The rules only run over current returns
(`InForce`), so the status of one that gave way stays what it became.

`CommitStep` carries what was committed into the next state, and there is one
lemma per action. The step that takes the most work is typing:
that counts and version numbers are naturals needs finiteness through every
helper, and a largest element of a finite set of numbers (`LargestExists`, by
well-foundedness of strict inclusion).

### Figures and counts

The counts stored on a return are right only when a transaction ends: a helper
relabels figures or moves queries, and calls `RefreshCounts` last.
`SoundBut(d, S)` says that all is well in `d` but for the counts of the returns
in `S`; `Relabels(d, e, S)` is a rewrite that can only disturb these, and
`RefreshSound` puts them right. `CarryForward` disturbs the return it carries to
and those it carries from, and recounts exactly these (`CarriedSound`,
`CarrySound`); `RaiseQueries` those it was called for; `Settle` the one the query
is on. An answer, a returned answer and an escalation recount nothing: the open
queries can only become more (`AnswerSound`), which is why the count of them is a
bound and not exact.

The strengthening is "no figure without its return": without it, a new return
could find figures already labelled under its id, and its count of zero would be
wrong. One more fact is needed where a query is opened. Its serial number counts
the rows before it, and a count may be taken if rows can go. Here it is enough
that a query found under the key is not open (`OpenedWasNotOpen`), so that no open
query is lost; that the number is free is shown with the properties of queries.

That a trail explains its figure is kept by `TrailGrows`: a revision starts from the
figure as it is, and the original stays what `Origin` makes of the trail, whether it
was there, is taken from the figure, or is a blank still. `SameFigures` says that
a helper moves no figure; it is transitive and all helpers but `Restated` have
it, so only `Accept` can move one (`SettleStepSound`).

### The gate in the life of a return

Each handler of `Returns` is a step of `Periods` or leaves it alone, hence
`Spec => Gate!Spec`. `ClosedCycleTakesNoReturn` also needs that the return that
lands is of the state and period it was filed for, through everything `Ingest`
does to it (`IngestStep`), and that a grant is a well-formed row, so that using
it makes it inactive.

### What readers of figures see

`ImplementsPublishedFigures` is the refinement of `PublishedFigures`, step by step.
`View(d, u)` is what the mapping shows of a unit (a state and period) in tables
`d`, and it depends on two things only: which return of the unit is approved
(`Approvals`; one at most, by `Standing`) and the figures of that return. A helper
that is `Frozen` touches no figure, one that `Keeps` standing touches no approval,
and the two together are `Untouched`: a stutter. What is left is one lemma per way
a transaction can differ from that: `ReplacesOne` (one return takes effect, and
whoever had the unit loses it), `WithdrawsOne`, `RewritesOne` (one figure), each of
which shows that it is a step of the abstract specification, for one unit, and
that every other unit is as it was. The handlers then only have to say which it
is: `Ingest` may approve on the spot or replace an approved return by one that is
not, `Approve` publishes, `Reject` and `Delete` withdraw, or do nothing when the
return was not in force, `Accept` rewrites. Two of these need an invariant. An
approval must put a return in force that was not in force before anywhere, which
is `Standing`; and a deletion must leave nothing under its id for a later return
to find, which is "no figure without its return" again.

### Queries, and sheets

The four properties are about a transaction from its first row to its last.
`Attends(d, e, S, s)` says of tables `d` and `e` what a helper that works on return
`s` in place of those in `S` may do to queries: those of `S` move to `s` and stay
open, every other one keeps its return, none is opened that is open already on
that matter, and a figure is freed of its label only if no query about it is open
on its return. It composes (`AttendsTransitive`), so there is a lemma for each
helper and for each handler the properties fall out (`AttendingStep`). That a
return that gives way is the one whose queries move is `Succeeds`.

`RaisedOnce` needs the only invariant that is new, `Numbered`: the queries of a
matter are numbered from one without a gap, whatever happened to the returns they
were raised on. A deletion keeps the query rows and only takes their return away,
so the count of the rows is the last number in use and the next number is free;
without it, the row of an old query could be written over.

A sheet is any sequence of rows, and what a fold over it returns is not in the
prover's reach as such. `SheetIs` gives it a closed form: `After(rows, st, p, I)` is
the tables in which each query has the answer of the last of the rows in `I` that
were taken and name it. Whether a row is taken depends on the query being of the
sheet's state and period and open, neither of which a row before it changes
(`AppliedIs`), so the closed form holds before the first row, is carried from row
to row (`RowByRow`), and if it failed at some row it would fail at a first one.
`QInv` is kept by sheets too, so every one of the theorems on queries holds of
`SheetSpec`, in which sheets come between any two steps, and of `Spec`
(`SheetsMayNotCome`). `SheetsMoveNoFigure` repeats two theorems of
`ReturnsFiguresProofs` for it.

### Intake

`BatchIsWhole` is about the commit, and what makes it true is said of the load
while it runs: `Staged` says that every return that was asked for and is not in
`rest` any more is in the script's tables, that nothing else in them differs from
what everybody sees, and that in a closed period each of them used a reopening
that nobody has used. The last is the conjunct that needs the lock: it
relates the script's copy to the shared table, and holds because nobody writes to
that table once the script has a copy (`OthersStep`), and because a reopening that
is usable in the copy is unused in the shared table (what is used there is used
in the copy). A skipped return must be unwanted by the same test the property uses. TLC
checked `BatchInv` and `CalendarInv` as invariants of the `intake` instance before
they were proved.

For the calendar it is enough that every period is one `_period_bounds` accepts and
that there are finitely many (`CalendarInv`). From the arithmetic of the families
(`BoundsAre`, `YearIs`) comes which period can lie in which (`InsideIs`): a month
in the quarter with its number, nothing across the end of a year. `InOrderIs` is
the lemma about the sort: in a strict order, the number of periods before one is
its place, no two have the same, so no period of a family is left out of the
sorted list. `Earlier` orders a family by year and number, and `CalendarFitsAlways`
shows that this is the order of their dates.
`GeneratingKeepsCyclesAlways` needs no invariant. No cycle disappears, and creating
one or generating a year, also a year that is there already, leaves every flag it
finds; only a close or a reopen of one cycle changes a flag, and that one alone.

For the figures the state need only remember where a return comes from: `Provenance`
says that every stored return, and every one in the tables of a load under way, is
what some export that was let in says under some name (`FromExport`), or what some
template maps to (`FromTemplate`). It is inductive because what a load has left to
file is from its own export and it files what comes next in the order of the names
(`TurnIsLeft`, `LandedSourced`), and because approving, withdrawing and replacing
returns keep or drop their rows (`OthersSourced`, `ApprovedSourced`). What a return
holds is then a fact about the parsers.

Of an export that was let in, no two columns are the best match of one indicator and
every question has one, so the column taken for an indicator is the one question
that asks for it (`MatchedIs`): with the percent sign compared, the candidates of a
question are what it asks and nothing else. Its figure is the last answer in it that
can be read (`FiguresAre`, by `ExtremesExist`), a number can always be read, and what
is read as zero was a No or a number that counts as one (`ParseIs`): `ExportsAreKept`.

Of a template, the line of the headings is found (`SheetIs`: no line that is scanned has
a better score, and none before it as good a one), and each heading is taken for what
its column is for (`HeadingIsTaken`, `ColumnsAre`). In a wide layout a line then yields
exactly what it carries (`WideReadings`). In a long one `ResolvedIs` is the point: an
indicator that a cell names goes before one that another cell is close to, so a line
yields the figure of the indicator it is about, or nothing (`LongReadings`). A
figure that is carried and not stored is on a line that yielded nothing; such a line
carried one figure and was counted, so that there are at most as many of these figures
as counted lines, by mapping each to its line (`TemplatesAreKept`).

### Assessment

*Types.* `TypeOK` is inductive and says of every stored return that it has its
rows, a finite set of findings, its labels and a verdict (`IsReturn`). The steps
that need an argument are those that run the rules: 25 of them, each of which
finds finitely many things about rows of the catalogue (`RowRules`, `PairRules`,
`PreviousRules`, `OtherRules`, together `RegisteredFinite`), so that a run over
some returns of a table leaves a table (`CheckedTable`), and so does settling the
verdicts (`VerdictsTable`).

*Verdicts on quarters.* `VerdictsOutliveLateMonths` needs no invariant, but a look
at what a line rests on: a figure that stands reads as before
(`UndisturbedFigure`), the months that gave a figure still give it and others may
join (`PartValuesGrow`), and by the time a line is judged, all months it needs are
in: every one for a sum or an extreme, the last for a running total
(`SettledFold`). That last one is where the order of the months comes in:
the latest of those that gave a figure is the last of the quarter (`MaxIsLast`).

*Verdicts of returns.* The property is about every re-validation, whether or not it
moves a verdict, and about any other step that moves one without a filing. `apply_verdicts` writes verdicts into the table it computes
them from, so the proof must show that it settles at once. Two tables are alike
when they agree on status, rows, labels and findings; the totals, the doubts, what
a finding exposes and the verdict are then the same in both (`SameTotal`,
`SameDoubts`, `SameShares`, `SameVerdict`), and `apply_verdicts` leaves the table
alike. No other step than a filing or a re-validation moves a verdict
(`VerdictStep`).

*Falls.* The rule for running totals and the rule for movements look at the same
change, and the guards of one are the complement of the other's. Both hold under
conditions on the sign and size of the previous figure (`rules.py:894`):
a first version of `FallReportedOnce` asked for a previous figure other than none
only, and its proof failed for figures below zero, of which the rules
take the magnitude. A return has one row per figure, so the rules mark once and
one finding is registered under either rule (`RegisteredUnder`).

*Missing figures.* Take a return and leave out what it says of one figure
(`Without`): the context that the rules then see is the one before, less the rows
of that figure (`LeavesOut`, `LeftOutContext`). What the state said before, its
history and what other states say is the same, because a period does not precede or
contain itself (`LeftOutSurroundings`); a line of a quarter can at most go from a
mismatch to a missing figure (`LeftOutLines`). Rule by rule, what is then
marked was marked before (`RowMarksLeft`, `NumberMarksLeft`, `PreviousMarksLeft`,
`SumMarksLeft`: the rules that add figures up ask that all of them are there), but
for the two rules about missing figures (`OtherMarksLeft`), and only for the figure left
out.

*Sums.* Three results take a sum apart (`SumTakesOut`, `SumAtLeast`, `SumsOffset`).
The folds of the community modules are defined by a recursive function on the subsets
of the set that is summed, chosen one element at a time; nothing says that such a
function exists until it is shown to. So `SmallerFirst` states induction over the
subsets of a finite set without an operator: what holds of a set because it holds of
its strict subsets is a *set* of good subsets, and the smallest bad one, by the
well-founded order of strict inclusion, does not exist. With it `SumsExist` builds the
function, `SumUnfolds` gives its recursion, and `SumTakesOut` shows that the order
does not matter, by taking any two elements out either way.

*Corrected totals.* A finding that doubts a figure doubts the last row of a current
return (`DoubtIsOfAFigure`), the worst gap of a state is the gap of one of them
(`WorstIsOne`, which needs that there are finitely many, `SizedFinite`), so it takes
away at most that row, and the state's part of the total is at least that row
(`StatedAtLeast`). What is true state by state is true of the sums (`SumsOffset`).
Charging each finding instead, the bug of the hazard list, breaks the second step.
The theorem is for figures that are not negative, which is its premise: a total of
negative figures is no count of anything.

*What a quarter is told.* `ReconciliationIsCurrent` is a property of steps: after each,
what a current quarter is told of its months is what they then say; or a return it
rests on was moved by something that is no filing; or nothing it rests on moved and
it was not so before either. `RunTells` says it of a run of the rules, the moment it
ends: the findings of the three rules on months are the lines with their verdicts,
and a quarter in full agreement is told nothing (`FullAgreement`). But the run
reads a table that the same transaction goes on to change: what it told must still be so at
commit. `LinesCarry` is that step: the lines depend on the current returns, and
their figures, of the state and the periods together only, and neither
approval nor the findings and verdicts written after are among them. A filing
runs the rules on what it filed and on what encloses it, so of any other quarter no
return was touched (`FilingTells`, by `Enclosing`; a quarter that overlaps no
month filed keeps its word, `WordStays`); a re-validation
touches no figure (`RevalidationTells`); no decision touches a finding
(`ReviewKeepsFindings`).

*Views.* The members of a cohort are the same states
whether they are picked from those of the programme or from those of the cohort
(`MembersAre`), a series of one period has no other point (`SeriesPoint`), a full heatmap
a cell for every indicator (`HeatmapCell`), and a state with a share has data
(`ContributorReported`). The series of a state is the one part that needs the types
and the arithmetic of the next paragraph: the sum, the mean, the extremes and the
last of a single number are that number (`OneStands`).

*National figures.* What rows collapse to, and what a state says, is a number or nothing
in each of its parts (`CollapseIsOfNumbers`, `ReadingIsOfNumbers`), so the lemmas on sums
apply. The sum over a set is that of the sums over the groups its members fall in
(`SumOfGroups`), which gives the total of the cohorts (`TotalOfCohorts`): each state
with a value has its cohort among those that have one. A mean is between the least
and the largest times their number (`SumBetween`), a rate between the least and the
largest that its pairs make (`SumsInProportion`, `PooledRateLiesAmong`; rounding down
costs the strict inequality on one side), an extreme or the latest is one of the values
(`ExtremesExist`). `MethodLiesAmong` puts them together, method by method, and
`NationLiesAmong` says of the nation that what is found lies among values that
count: for the mean of the non-zero states, ones that are not zero.

*Boards.* The count of a board is taken state by state (`BoardCounts`), and the tiles,
the board and the summaries ask the same of the same states (`BoardInOrder`,
`SummariesInOrder`). Counting is summing ones (`CardinalityIsSum`), so returns and
figures of the cohorts add up by `SumOfGroups` (`CohortsAddUp`); the rows a cohort is
given are its own, whatever the scope of the board (`CohortFiled`). A model row names
a state once because the list of states does (`ModelInOrder`).

Where a largest element is needed, it is the minimum of a well-founded order
(`LargestOfSome`, `LargestExists`).

### LiveDashboard

Changes are numbered as they are published (`Numbered`). A fan-out that is
scheduled while its transaction is open waits in the loop that this transaction
holds (`WaitsInItsLoop`), so it cannot run before the transaction ends; that is
what makes `PushedIsSettled` inductive. The two properties of the page follow
from the types and each action: `Rendered` leaves no board behind unless a load
is under way, and of the actions that end one, `Draw` leaves the board in view up to
date.

### Model-checked only

`ReopeningsLapse`, `LoadingEnds` and `PollNotices` are liveness properties, which
the prover does not reach. Every other property of a passing run is a theorem. What TLC
adds to those is that the instance meets the assumptions and that the cases they
speak of happen in it.

## 6. What is not modelled

* Interleavings of two requests inside their transactions, other than two
  approvals and a load beside anything else: see the plan.
* Rules on dates, repeated files, versions and fractions (TIM-001, UNQ-002,
  UNQ-003, VAL-003), and switching a rule off or changing its severity. Editing
  the catalogue of indicators: each setup has its own.
* Reports (`app/services/reporting/`): charts, tables and wording over the views
  that `Analytics` and `Boards` model; they store a row that nothing decides by.
* Reading workbook bytes, generating templates and sheets, stored files, how
  close two texts are.
* Dates other than a reopening's: days late, due dates of queries, recent
  activity.
* The session cache of analytics: it lives for one request.
* Access control and audit rows: they admit or refuse a caller and record what
  was done; no modelled operation decides by them.
* Schema creation and upgrades, seeds, configuration, logging, health.

## 7. The plan

Done: all modules of section 2.

Next, in this order:

1. More of `ReviewRace`: two acceptances on one figure, a direct entry on a
   reopening that another direct entry has read, a revocation against a filing.
2. `Access`: roles, permissions and the state scope of each operation.
3. The rules left out, given dates and versions in `Assessment`.
