------------------------------- MODULE Intake -------------------------------
(***************************************************************************)
(* The two doors a file of figures comes in by: a state uploads its        *)
(* template, which is one request, and the NPCU loads the Kobo export of a *)
(* whole quarter with a script, which files one return after the other in  *)
(* one transaction.  What a return sets off once it is filed is in         *)
(* Returns; here a return is its figures, where they come from and whether *)
(* it is approved.                                                         *)
(*                                                                         *)
(* The database is SQLite, the default: from its first write on the script *)
(* holds the write lock, and every other writer waits until it commits or  *)
(* rolls back.  Before that others write as they like, and the script goes *)
(* on with the row of the period it has read.                              *)
(***************************************************************************)
EXTENDS Calendar, KoboExports

CONSTANTS
    State,
    NameOrder,         \* the ways states are written in exports, in order
    StateOf,           \* StateOf[name]: the state of that code or name, or None
    Period,            \* bound: the periods somebody creates alone, or closes
    Years,             \* bound: the years generated
    Uploads,           \* bound: the uploads made: [file, state, period, dup]
    Loads,             \* bound: how the script is run: [file, period, only, approve]
    MaxLoads,          \* bound: files taken in
    MaxGrants, MaxGrantDays, Horizon   \* the bounds of Periods

VARIABLES
    today, grant, landed,   \* as in Periods
    returns,   \* returns[<<st, p>>]: the current return of a state for a period
    hashes,    \* the state, period and digest of the files uploaded
    batch,     \* the load in progress, or None
    loads      \* files taken in

ASSUME IntakeAssumption ==
    /\ MaxGrants \in Nat /\ MaxGrantDays \in Nat /\ Horizon \in Nat /\ None \notin Nat
    /\ Period \subseteq Cycle /\ Years \subseteq Nat

vars == <<isOpen, today, grant, landed, returns, hashes, batch, loads>>
gate == <<isOpen, today, grant, landed>>

Gate == INSTANCE Periods
Within(d) == INSTANCE Periods WITH grant <- d.grant, landed <- d.landed

Db == [returns |-> returns, grant |-> grant, landed |-> landed]

Init ==
    /\ isOpen = <<>> /\ today = 0 /\ grant = <<>> /\ landed = <<>>
    /\ returns = <<>> /\ hashes = {} /\ batch = None /\ loads = 0

(* Someone other than the script can write.                                *)
Unlocked == batch # None => batch.loaded = {}

(* The return of a unit gives way to another.                              *)
Put(rows, unit, row) ==
    [u \in DOMAIN rows \cup {unit} |-> IF u = unit THEN row ELSE rows[u]]

Taking == loads < MaxLoads /\ loads' = loads + 1

-----------------------------------------------------------------------------
(* Administration.                                                         *)

Calendars ==
    /\ Unlocked
    /\ \/ \E p \in Period, open \in BOOLEAN : CreatePeriod(p, open)
       \/ \E year \in Years : GenerateYear(year, ReportingPeriodTypes)
    /\ UNCHANGED <<today, grant, landed, returns, hashes, batch, loads>>

Administration ==
    /\ Unlocked
    /\ \/ \E p \in Period \cap DOMAIN isOpen :
             \/ Gate!ClosePeriod(p) \/ Gate!ReopenPeriod(p)
             \/ \E st \in State, days \in 1..MaxGrantDays : Gate!GrantReopening(p, st, days)
       \/ \E g \in DOMAIN grant : Gate!RevokeReopening(g)
    /\ UNCHANGED <<returns, hashes, batch, loads>>

DayPasses == Gate!DayPasses /\ UNCHANGED <<returns, hashes, batch, loads>>

-----------------------------------------------------------------------------
(* A state uploads its template.  What the request says of the state and   *)
(* the period goes before what the lines say, and that before what stands  *)
(* above the header; what says neither the name of a state nor that of a   *)
(* period is not passed over.  A file uploaded before is refused, unless   *)
(* dup.                                                                    *)
Upload(request) ==
    LET sheet == ParseUpload(request.file)
        mapping == MapRows(sheet)
        told(asked, cells) == IF asked # None THEN asked ELSE FirstTold(cells).names
        unit == <<told(request.state, <<mapping.state, sheet.state>>),
                  told(request.period, <<mapping.period, sheet.period>>)>>
    IN  /\ Unlocked /\ Taking
        /\ unit[1] \in State /\ unit[2] \in DOMAIN isOpen
        /\ request.dup \/ <<unit, request.file>> \notin hashes
        /\ mapping.values # {}
        /\ Gate!File(unit[1], unit[2])
        /\ returns' = Put(returns, unit,
                          [file |-> request.file, name |-> None, rows |-> mapping.values,
                           unmapped |-> mapping.unmapped, approved |-> FALSE])
        /\ hashes' = hashes \cup {<<unit, request.file>>}
        /\ UNCHANGED batch

-----------------------------------------------------------------------------
(* The script.                                                             *)

(* The file is read and resolved, or refused; the period must be there.    *)
StartLoad(run) ==
    /\ batch = None /\ Taking
    /\ run.period \in DOMAIN isOpen
    /\ IsUsable(run.file)
    /\ batch' = [file |-> run.file, period |-> run.period, only |-> run.only,
                  approve |-> run.approve, open |-> isOpen[run.period],
                  rest |-> ReadExport(run.file), work |-> None, loaded |-> {}]
    /\ UNCHANGED <<gate, returns, hashes>>

(* The tables as the script sees them; its own once it has written.        *)
Work == IF batch.loaded = {} THEN Db ELSE batch.work

(* The return whose turn it is: they go in by the order of the names.      *)
Precedes(a, b) ==
    \E m, n \in DOMAIN NameOrder : m <= n /\ NameOrder[m] = a.name /\ NameOrder[n] = b.name

Turn == CHOOSE ret \in batch.rest : \A other \in batch.rest : Precedes(ret, other)

(* A name the platform does not know, a state that was not asked for and a *)
(* return without a figure are skipped.                                    *)
Wanted(ret) ==
    /\ StateOf[ret.name] \in batch.only \ {None}
    /\ DOMAIN ret.figures # {}

(* The reopening a return of the state would use, None in an open period.  *)
Admitting(st) ==
    IF batch.open THEN {None} ELSE Within(Work)!ActiveReopenings(st, batch.period)

(* ingest_manual: what the tables are with the return in.                  *)
Landed(ret, g) ==
    LET st == StateOf[ret.name]
        row(i) == [indicator |-> i, value |-> ret.figures[i], numerator |-> None,
                   denominator |-> None, row |-> None]
        new == [file |-> batch.file, name |-> ret.name, rows |-> {row(i) : i \in DOMAIN ret.figures},
                unmapped |-> 0, approved |-> FALSE]
    IN  [returns |-> Put(Work.returns, <<st, batch.period>>, new),
         grant |-> IF g = None THEN Work.grant ELSE [Work.grant EXCEPT ![g].used = TRUE],
         landed |-> IF g = None THEN Work.landed
                    ELSE Append(Work.landed, [state |-> st, period |-> batch.period, grant |-> g])]

InBatch == batch # None /\ UNCHANGED <<hashes, isOpen, today, loads>>

SkipReturn ==
    /\ InBatch /\ batch.rest # {} /\ ~Wanted(Turn)
    /\ batch' = [batch EXCEPT !.rest = @ \ {Turn}]
    /\ UNCHANGED <<returns, grant, landed>>

(* Mutant: every return is committed by itself.                            *)
LoadReturnCommitting ==
    /\ InBatch /\ batch.rest # {} /\ Wanted(Turn)
    /\ \E g \in Admitting(StateOf[Turn.name]) :
          /\ batch' = [batch EXCEPT !.rest = @ \ {Turn}]
          /\ returns' = Landed(Turn, g).returns
          /\ grant' = Landed(Turn, g).grant
          /\ landed' = Landed(Turn, g).landed

LoadReturn ==
    /\ InBatch /\ batch.rest # {} /\ Wanted(Turn)
    /\ \E g \in Admitting(StateOf[Turn.name]) :
          batch' = [batch EXCEPT !.rest = @ \ {Turn}, !.work = Landed(Turn, g),
                                 !.loaded = @ \cup {<<StateOf[Turn.name], batch.period>>}]
    /\ UNCHANGED <<returns, grant, landed>>

(* The gate refuses one return, and the whole load is rolled back.         *)
RefuseReturn ==
    /\ InBatch /\ batch.rest # {} /\ Wanted(Turn)
    /\ Admitting(StateOf[Turn.name]) = {}
    /\ batch' = None
    /\ UNCHANGED <<returns, grant, landed>>

(* The loaded returns are approved if the script was asked to, and the     *)
(* transaction commits.                                                    *)
Finish ==
    /\ InBatch /\ batch.rest = {}
    /\ returns' = [u \in DOMAIN Work.returns |->
                     IF batch.approve /\ u \in batch.loaded
                     THEN [Work.returns[u] EXCEPT !.approved = TRUE] ELSE Work.returns[u]]
    /\ grant' = Work.grant /\ landed' = Work.landed
    /\ batch' = None

(* The process is killed, or one of the helpers raises.                    *)
Die == InBatch /\ batch' = None /\ UNCHANGED <<returns, grant, landed>>

Next ==
    \/ Calendars \/ Administration \/ DayPasses
    \/ \E request \in Uploads : Upload(request)
    \/ \E run \in Loads : StartLoad(run)
    \/ SkipReturn \/ LoadReturn \/ RefuseReturn \/ Finish \/ Die

Spec == Init /\ [][Next]_vars
=============================================================================
