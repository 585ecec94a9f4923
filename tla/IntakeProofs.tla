---------------------------- MODULE IntakeProofs ----------------------------
(***************************************************************************)
(* What a load of an export does all at once, what managing the calendar   *)
(* leaves alone, and what is stored of the files that come in: every       *)
(* return is what a file was read into, and a file is read as it was meant.*)
(***************************************************************************)
EXTENDS IntakeProperties, FiniteSetTheorems, WellFoundedInduction, TLAPS

Reopenings == Seq(Gate!Reopening)

(* What the script has done so far: of the returns it is through with, all *)
(* it was asked for are in; nothing else has changed; and in a closed      *)
(* period each of them used a reopening nobody had used.                   *)
Staged ==
    /\ DOMAIN batch = {"file", "period", "only", "approve", "open", "rest", "work", "loaded"}
    /\ \A ret \in ReadExport(batch.file) \ batch.rest :
          Wanted(ret) => <<StateOf[ret.name], batch.period>> \in batch.loaded
    /\ \A u \in DOMAIN Work.returns \ batch.loaded :
          u \in DOMAIN returns /\ Work.returns[u] = returns[u]
    /\ \A u \in batch.loaded :
          /\ u \in DOMAIN Work.returns
          /\ "file" \in DOMAIN Work.returns[u] /\ Work.returns[u].file = batch.file
    /\ Work.grant \in Reopenings /\ DOMAIN Work.grant = DOMAIN grant
    /\ \A g \in DOMAIN grant :
          /\ Work.grant[g].state = grant[g].state /\ Work.grant[g].period = grant[g].period
          /\ grant[g].used => Work.grant[g].used
    /\ ~batch.open => \A u \in batch.loaded : \E g \in DOMAIN grant :
          /\ grant[g].state = u[1] /\ grant[g].period = u[2]
          /\ Work.grant[g].used /\ ~grant[g].used

Grants == today \in Nat /\ grant \in Reopenings

BatchInv == Grants /\ (batch # None => Staged)

-----------------------------------------------------------------------------
(* A grant that is used or withdrawn is still a grant, of the same state   *)
(* and period.                                                             *)
LEMMA Marked ==
    ASSUME NEW grants \in Reopenings, NEW g \in DOMAIN grants, NEW new,
           \/ new = [grants EXCEPT ![g].used = TRUE]
           \/ new = [grants EXCEPT ![g].revoked = TRUE]
    PROVE  /\ new \in Reopenings /\ DOMAIN new = DOMAIN grants
           /\ \A h \in DOMAIN grants :
                 /\ new[h].state = grants[h].state /\ new[h].period = grants[h].period
                 /\ grants[h].used => new[h].used
                 /\ h # g => new[h] = grants[h]
           /\ new = [grants EXCEPT ![g].used = TRUE] => new[g].used
<1>1. grants[g] \in Gate!Reopening
    BY DEF Reopenings
<1>2. PICK row \in Gate!Reopening :
         /\ new = [grants EXCEPT ![g] = row]
         /\ row.state = grants[g].state /\ row.period = grants[g].period
         /\ grants[g].used => row.used
         /\ new = [grants EXCEPT ![g].used = TRUE] => row.used
    <2>1. CASE new = [grants EXCEPT ![g].used = TRUE]
        <3> DEFINE r == [grants[g] EXCEPT !.used = TRUE]
        <3>1. new = [grants EXCEPT ![g] = r]
            BY <2>1
        <3>2. /\ r \in Gate!Reopening /\ r.used
              /\ r.state = grants[g].state /\ r.period = grants[g].period
            BY <1>1 DEF Gate!Reopening
        <3> HIDE DEF r
        <3> QED BY <3>1, <3>2
    <2>2. CASE new # [grants EXCEPT ![g].used = TRUE]
        <3> DEFINE r == [grants[g] EXCEPT !.revoked = TRUE]
        <3>1. new = [grants EXCEPT ![g] = r]
            BY <2>2
        <3>2. /\ r \in Gate!Reopening /\ r.used = grants[g].used
              /\ r.state = grants[g].state /\ r.period = grants[g].period
            BY <1>1 DEF Gate!Reopening
        <3> HIDE DEF r
        <3> QED BY <2>2, <3>1, <3>2
    <2> QED BY <2>1, <2>2
<1>3. \A h \in DOMAIN grants : grants[h] \in Gate!Reopening
    BY DEF Reopenings
<1>4. new \in Reopenings /\ DOMAIN new = DOMAIN grants
    BY <1>2 DEF Reopenings
<1> QED BY <1>2, <1>4

(* Whatever the gate is asked or told, its table stays well-formed.        *)
LEMMA GateGrants ==
    ASSUME Grants,
           \/ \E p \in Period, st \in State, days \in 1..MaxGrantDays :
                 Gate!GrantReopening(p, st, days)
           \/ \E g \in DOMAIN grant : Gate!RevokeReopening(g)
           \/ \E st, p : Gate!File(st, p)
           \/ \E p : Gate!ClosePeriod(p) \/ Gate!ReopenPeriod(p)
           \/ Gate!DayPasses
    PROVE  Grants'
<1>1. ASSUME NEW p \in Period, NEW st \in State, NEW days \in 1..MaxGrantDays,
             Gate!GrantReopening(p, st, days)
      PROVE  Grants'
    <2> DEFINE new == [state |-> st, period |-> p, expires |-> today + days,
                       used |-> FALSE, revoked |-> FALSE]
    <2>1. new \in Gate!Reopening
        BY IntakeAssumption DEF Gate!Reopening, Grants
    <2>2. grant' = Append(grant, new) /\ today' = today
        BY <1>1 DEF Gate!GrantReopening, Gate!AddGrant
    <2> HIDE DEF new
    <2> QED BY <2>1, <2>2 DEF Grants, Reopenings
<1>2. ASSUME NEW g \in DOMAIN grant, Gate!RevokeReopening(g)
      PROVE  Grants'
    BY <1>2, Marked DEF Gate!RevokeReopening, Grants
<1>3. ASSUME NEW st, NEW p, Gate!File(st, p)
      PROVE  Grants'
    <2>1. CASE UNCHANGED <<grant, today>>
        BY <2>1 DEF Grants
    <2>2. ASSUME NEW g \in Gate!ActiveReopenings(st, p), Gate!ConsumeReopening(g, st, p)
          PROVE  Grants'
        <3>1. g \in DOMAIN grant /\ grant' = [grant EXCEPT ![g].used = TRUE]
            BY <2>2 DEF Gate!ActiveReopenings, Gate!ConsumeReopening
        <3>2. today' = today
            BY <1>3 DEF Gate!File
        <3> QED BY <3>1, <3>2, Marked DEF Grants
    <2> QED BY <1>3, <2>1, <2>2 DEF Gate!File
<1>4. ASSUME Gate!DayPasses PROVE Grants'
    BY <1>4 DEF Gate!DayPasses, Grants
<1>5. ASSUME NEW p, Gate!ClosePeriod(p) \/ Gate!ReopenPeriod(p) PROVE Grants'
    BY <1>5 DEF Gate!ClosePeriod, Gate!ReopenPeriod, Grants
<1> QED BY <1>1, <1>2, <1>3, <1>4, <1>5

(* Others write only while the script has not.                             *)
LEMMA OthersStep ==
    ASSUME BatchInv, Unlocked, batch' = batch, Grants'
    PROVE  BatchInv'
<1> SUFFICES ASSUME batch # None PROVE Staged'
    BY DEF BatchInv
<1>1. batch.loaded = {} /\ Staged
    BY DEF Unlocked, BatchInv
<1>2. /\ Work.returns = returns /\ Work.grant = grant
      /\ Work'.returns = returns' /\ Work'.grant = grant'
    BY <1>1 DEF Work, Db
<1>3. \A ret : Wanted(ret)' <=> Wanted(ret)
    BY DEF Wanted
<1> QED BY <1>1, <1>2, <1>3 DEF Staged, Grants, Work

(* The next return lands, on a reopening of its own if the period was      *)
(* closed, and on what landed before it.                                   *)
LEMMA LoadStep ==
    ASSUME BatchInv, LoadReturn
    PROVE  BatchInv'
<1> DEFINE ret == Turn
           st == StateOf[ret.name]
           u == <<st, batch.period>>
<1>1. Staged /\ Grants /\ UNCHANGED <<returns, grant, today, landed>>
    BY DEF BatchInv, LoadReturn, InBatch
<1>2. PICK g \in Admitting(st) :
         batch' = [batch EXCEPT !.rest = batch.rest \ {ret}, !.work = Landed(ret, g),
                                !.loaded = batch.loaded \cup {u}]
    BY DEF LoadReturn
<1>3. /\ DOMAIN batch' = DOMAIN batch
      /\ batch'.rest = batch.rest \ {ret} /\ batch'.loaded = batch.loaded \cup {u}
      /\ batch'.work = Landed(ret, g)
      /\ batch'.file = batch.file /\ batch'.period = batch.period /\ batch'.only = batch.only
      /\ batch'.open = batch.open
    <2> HIDE DEF ret, u
    <2> QED BY <1>1, <1>2 DEF Staged
<1>4. Work' = Landed(ret, g)
    BY <1>3 DEF Work
<1>5. PICK new : /\ Work'.returns = Put(Work.returns, u, new)
                 /\ "file" \in DOMAIN new /\ new.file = batch.file
    <2> DEFINE row(i) == [indicator |-> i, value |-> ret.figures[i], numerator |-> None,
                          denominator |-> None, row |-> None]
               new == [file |-> batch.file, name |-> ret.name,
                       rows |-> {row(i) : i \in DOMAIN ret.figures},
                       unmapped |-> 0, approved |-> FALSE]
    <2>1. Work'.returns = Put(Work.returns, u, new)
        BY <1>4 DEF Landed
    <2>2. "file" \in DOMAIN new /\ new.file = batch.file
        OBVIOUS
    <2> HIDE DEF new, u
    <2> QED BY <2>1, <2>2
<1>6. Work'.grant = IF g = None THEN Work.grant ELSE [Work.grant EXCEPT ![g].used = TRUE]
    BY <1>4 DEF Landed
<1> HIDE DEF ret, u
<1>7. /\ DOMAIN Work'.returns = DOMAIN Work.returns \cup {u}
      /\ Work'.returns[u] = new
      /\ \A t \in DOMAIN Work.returns \ {u} : Work'.returns[t] = Work.returns[t]
    BY <1>5 DEF Put
<1>8. /\ Work'.grant \in Reopenings /\ DOMAIN Work'.grant = DOMAIN grant
      /\ \A h \in DOMAIN grant :
            /\ Work'.grant[h].state = grant[h].state /\ Work'.grant[h].period = grant[h].period
            /\ Work.grant[h].used => Work'.grant[h].used
      /\ ~batch.open => /\ g \in DOMAIN grant /\ ~Work.grant[g].used /\ Work'.grant[g].used
                        /\ grant[g].state = st /\ grant[g].period = batch.period
    <2>1. CASE batch.open
        BY <1>1, <1>2, <1>6, <2>1 DEF Admitting, Staged
    <2>2. CASE ~batch.open
        <3>1. g \in Within(Work)!ActiveReopenings(st, batch.period)
            BY <1>2, <2>2 DEF Admitting
        <3>2. /\ g \in DOMAIN Work.grant /\ ~Work.grant[g].used
              /\ Work.grant[g].state = st /\ Work.grant[g].period = batch.period
            BY <3>1 DEF Within!ActiveReopenings, Within!IsActive
        <3>3. g # None
            BY <1>1, <3>2, IntakeAssumption DEF Staged, Reopenings
        <3> QED BY <1>1, <1>6, <3>2, <3>3, Marked DEF Staged
    <2> QED BY <2>1, <2>2
<1>9. \A r : Wanted(r)' <=> Wanted(r)
    BY <1>3 DEF Wanted
<1>10. Staged'
    <2>1. DOMAIN batch' = {"file", "period", "only", "approve", "open", "rest", "work", "loaded"}
        BY <1>1, <1>3 DEF Staged
    <2>2. \A r \in ReadExport(batch'.file) \ batch'.rest :
             Wanted(r)' => <<StateOf[r.name], batch'.period>> \in batch'.loaded
        BY <1>1, <1>3, <1>9 DEF Staged, ret, u
    <2>3. \A t \in DOMAIN Work'.returns \ batch'.loaded :
             t \in DOMAIN returns' /\ Work'.returns[t] = returns'[t]
        BY <1>1, <1>3, <1>7 DEF Staged
    <2>4. \A t \in batch'.loaded :
             /\ t \in DOMAIN Work'.returns
             /\ "file" \in DOMAIN Work'.returns[t] /\ Work'.returns[t].file = batch'.file
        BY <1>1, <1>3, <1>5, <1>7 DEF Staged
    <2>5. /\ Work'.grant \in Reopenings /\ DOMAIN Work'.grant = DOMAIN grant'
          /\ \A h \in DOMAIN grant' :
                /\ Work'.grant[h].state = grant'[h].state
                /\ Work'.grant[h].period = grant'[h].period
                /\ grant'[h].used => Work'.grant[h].used
        BY <1>1, <1>8 DEF Staged
    <2>6. ~batch'.open => \A t \in batch'.loaded : \E h \in DOMAIN grant' :
             /\ grant'[h].state = t[1] /\ grant'[h].period = t[2]
             /\ Work'.grant[h].used /\ ~grant'[h].used
        <3>1. u[1] = st /\ u[2] = batch.period
            BY DEF u
        <3> HIDE DEF st
        <3> QED BY <1>1, <1>3, <1>8, <3>1 DEF Staged
    <2> QED BY <2>1, <2>2, <2>3, <2>4, <2>5, <2>6 DEF Staged
<1> QED BY <1>1, <1>10 DEF BatchInv, Grants

(* A return that is passed over was not wanted.                            *)
LEMMA SkipStep ==
    ASSUME BatchInv, SkipReturn
    PROVE  BatchInv'
<1>1. Staged /\ Grants /\ UNCHANGED <<returns, grant, today, landed>> /\ ~Wanted(Turn)
      /\ batch' = [batch EXCEPT !.rest = batch.rest \ {Turn}]
    BY DEF BatchInv, SkipReturn, InBatch
<1>2. /\ DOMAIN batch' = DOMAIN batch
      /\ batch'.rest = batch.rest \ {Turn}
      /\ batch'.loaded = batch.loaded /\ batch'.work = batch.work
      /\ batch'.file = batch.file /\ batch'.period = batch.period /\ batch'.only = batch.only
      /\ batch'.open = batch.open
    BY <1>1 DEF Staged
<1>3. Work' = Work
    BY <1>1, <1>2 DEF Work, Db
<1>4. \A r : Wanted(r)' <=> Wanted(r)
    BY <1>2 DEF Wanted
<1>5. Staged'
    BY <1>1, <1>2, <1>3, <1>4 DEF Staged
<1> QED BY <1>1, <1>5 DEF BatchInv, Grants

(* A load begins with nothing done.                                        *)
LEMMA StartStep ==
    ASSUME BatchInv, NEW run \in Loads, StartLoad(run)
    PROVE  BatchInv'
<1>1. UNCHANGED <<returns, grant, today, landed>>
    BY DEF StartLoad, gate
<1>4. /\ DOMAIN batch' = {"file", "period", "only", "approve", "open", "rest", "work", "loaded"}
      /\ batch'.file = run.file /\ batch'.rest = ReadExport(run.file) /\ batch'.loaded = {}
    BY DEF StartLoad
<1>5. Grants'
    BY <1>1 DEF BatchInv, Grants
<1>6. Work'.returns = returns' /\ Work'.grant = grant'
    BY <1>4 DEF Work, Db
<1>7. Staged'
    BY <1>4, <1>5, <1>6 DEF Staged, Grants
<1> QED BY <1>5, <1>7 DEF BatchInv

(* A load that commits leaves the reopenings as it had them; one that is   *)
(* refused or dies leaves them as they were.                               *)
LEMMA EndStep ==
    ASSUME BatchInv, RefuseReturn \/ Finish \/ Die
    PROVE  BatchInv'
<1>1. batch' = None /\ today' = today
    BY DEF RefuseReturn, Finish, Die, InBatch
<1>2. grant' = grant \/ grant' = Work.grant
    BY DEF RefuseReturn, Finish, Die
<1>3. Grants /\ Work.grant \in Reopenings
    BY DEF RefuseReturn, Finish, Die, InBatch, BatchInv, Staged
<1> QED BY <1>1, <1>2, <1>3 DEF BatchInv, Grants

(* A day that passes is no matter of a load.                               *)
LEMMA DayStep ==
    ASSUME BatchInv, DayPasses
    PROVE  BatchInv'
<1>1. UNCHANGED <<returns, grant, landed, batch>>
    BY DEF DayPasses, Gate!DayPasses
<1>2. Grants'
    BY GateGrants DEF DayPasses, BatchInv
<1>3. Work' = Work /\ (\A r : Wanted(r)' <=> Wanted(r))
    BY <1>1 DEF Work, Db, Wanted
<1> QED BY <1>1, <1>2, <1>3 DEF BatchInv, Staged

(* Every step keeps it.                                                    *)
LEMMA NextBatchInv == BatchInv /\ [Next]_vars => BatchInv'
<1> SUFFICES ASSUME BatchInv, [Next]_vars PROVE BatchInv'
    OBVIOUS
<1>1. CASE Calendars
    <2>1. Grants'
        BY <1>1 DEF Calendars, BatchInv, Grants
    <2> QED BY <1>1, <2>1, OthersStep DEF Calendars
<1>2. CASE Administration
    <2>1. Grants'
        BY <1>2, GateGrants DEF Administration, BatchInv
    <2> QED BY <1>2, <2>1, OthersStep DEF Administration
<1>3. ASSUME NEW request \in Uploads, Upload(request)
      PROVE  BatchInv'
    <2>1. \E st, p : Gate!File(st, p)
        BY <1>3 DEF Upload
    <2>2. Grants'
        BY <2>1, GateGrants DEF BatchInv
    <2> QED BY <1>3, <2>2, OthersStep DEF Upload
<1>4. CASE UNCHANGED vars
    <2>1. Work' = Work /\ (\A r : Wanted(r)' <=> Wanted(r))
        BY <1>4 DEF vars, Work, Db, Wanted
    <2> QED BY <1>4, <2>1 DEF vars, BatchInv, Staged, Grants
<1> QED BY <1>1, <1>2, <1>3, <1>4, DayStep, StartStep, SkipStep, LoadStep, EndStep DEF Next

(* ... so it always is.                                                   *)
LEMMA AlwaysBatchInv == Spec => []BatchInv
<1>1. Init => BatchInv
    BY DEF Init, BatchInv, Grants, Reopenings
<1> QED BY <1>1, NextBatchInv, PTL DEF Spec

-----------------------------------------------------------------------------
(* What BatchIsWhole says of a step.                                       *)
Whole ==
    \A u \in Arrived :
        /\ batch # None /\ batch' = None /\ batch.rest = {}
        /\ \A ret \in ReadExport(batch.file) :
              Wanted(ret) => returns'[<<StateOf[ret.name], batch.period>>].file = batch.file
        /\ ~batch.open => \E g \in DOMAIN grant' :
              /\ grant'[g].state = u[1] /\ grant'[g].period = u[2]
              /\ grant'[g].used /\ ~grant[g].used

(* The returns of an export arrive with the commit and not before.         *)
LEMMA WholeStep == BatchInv /\ [Next]_vars => [Whole]_vars
<1> SUFFICES ASSUME BatchInv, [Next]_vars PROVE Whole
    OBVIOUS
<1>1. ASSUME UNCHANGED returns PROVE Whole
    BY <1>1 DEF Whole, Arrived
<1>2. ASSUME NEW request \in Uploads, Upload(request)
      PROVE  Whole
    <2>1. PICK u, row : returns' = Put(returns, u, row) /\ row.name = None
        BY <1>2 DEF Upload
    <2>2. Arrived = {}
        BY <2>1 DEF Arrived, Put, FromKobo
    <2> QED BY <2>2 DEF Whole
<1>3. CASE Finish
    <2>1. Staged /\ batch # None /\ batch' = None /\ batch.rest = {}
        BY <1>3 DEF Finish, InBatch, BatchInv
    <2>2. /\ DOMAIN returns' = DOMAIN Work.returns
          /\ \A u \in DOMAIN returns' \ batch.loaded : returns'[u] = Work.returns[u]
          /\ grant' = Work.grant
        BY <1>3 DEF Finish
    <2>3. ASSUME NEW u \in batch.loaded
          PROVE  returns'[u].file = batch.file
        <3>1. /\ u \in DOMAIN Work.returns
              /\ "file" \in DOMAIN Work.returns[u] /\ Work.returns[u].file = batch.file
            BY <2>1 DEF Staged
        <3>2. \/ returns'[u] = Work.returns[u]
              \/ returns'[u] = [Work.returns[u] EXCEPT !.approved = TRUE]
            BY <1>3, <3>1 DEF Finish
        <3> QED BY <3>1, <3>2
    <2>4. \A u \in Arrived : u \in batch.loaded
        BY <2>1, <2>2 DEF Arrived, Staged
    <2>5. \A ret \in ReadExport(batch.file) :
             Wanted(ret) => <<StateOf[ret.name], batch.period>> \in batch.loaded
        BY <2>1 DEF Staged
    <2>6. ~batch.open => \A u \in batch.loaded : \E g \in DOMAIN grant' :
             /\ grant'[g].state = u[1] /\ grant'[g].period = u[2]
             /\ grant'[g].used /\ ~grant[g].used
        BY <2>1, <2>2 DEF Staged
    <2> QED BY <2>1, <2>3, <2>4, <2>5, <2>6 DEF Whole
<1>4. CASE Calendars \/ Administration \/ DayPasses
    BY <1>1, <1>4 DEF Calendars, Administration, DayPasses
<1>5. ASSUME NEW run \in Loads, StartLoad(run) PROVE Whole
    BY <1>1, <1>5 DEF StartLoad
<1>6. CASE SkipReturn \/ LoadReturn \/ RefuseReturn \/ Die
    BY <1>1, <1>6 DEF SkipReturn, LoadReturn, RefuseReturn, Die
<1>7. CASE UNCHANGED vars
    BY <1>1, <1>7 DEF vars
<1> QED BY <1>2, <1>3, <1>4, <1>5, <1>6, <1>7 DEF Next

(* A load is all or nothing, whatever others do between its steps: the     *)
(* returns of an export appear together, with those of every state it was  *)
(* asked for, each on a reopening of its own if the period was closed.     *)
THEOREM BatchIsWholeAlways == Spec => BatchIsWhole
<1>1. Spec => [][Whole]_vars
    BY WholeStep, AlwaysBatchInv, PTL DEF Spec
<1> QED BY <1>1 DEF BatchIsWhole, Whole

-----------------------------------------------------------------------------
(* Whatever is created and generated, and generated again, the cycles that *)
(* are there stay as they are: open ones open, and closed ones closed.  One*)
(* is closed or opened again by itself.                                    *)
THEOREM GeneratingKeepsCyclesAlways == Spec => GeneratingKeepsCycles
<1> DEFINE Same == \A p \in DOMAIN isOpen : isOpen'[p] = isOpen[p]
           Alone == \A p \in DOMAIN isOpen : isOpen'[p] # isOpen[p] =>
                       DOMAIN isOpen' = DOMAIN isOpen
                       /\ \A q \in DOMAIN isOpen \ {p} : isOpen'[q] = isOpen[q]
           Kept == /\ DOMAIN isOpen \subseteq DOMAIN isOpen'
                   /\ Calendars => Same
                   /\ Alone
<1>1. Calendars => DOMAIN isOpen \subseteq DOMAIN isOpen' /\ Same
    BY DEF Calendars, CreatePeriod, GenerateYear, EnsurePeriods
<1>2. ASSUME [Next]_vars PROVE [Kept]_vars
    <2>1. CASE Calendars
        BY <1>1, <2>1
    <2>2. CASE Administration
        <3>1. \/ isOpen' = isOpen
              \/ \E p \in Period, b \in BOOLEAN : isOpen' = [isOpen EXCEPT ![p] = b]
            BY <2>2 DEF Administration, Gate!ClosePeriod, Gate!ReopenPeriod, Gate!GrantReopening,
                        Gate!AddGrant, Gate!RevokeReopening
        <3>2. DOMAIN isOpen' = DOMAIN isOpen /\ Alone
            BY <3>1
        <3> QED BY <1>1, <3>2
    <2>3. ASSUME UNCHANGED isOpen PROVE Kept
        BY <2>3
    <2>4. CASE DayPasses \/ SkipReturn \/ LoadReturn \/ RefuseReturn \/ Finish \/ Die
        BY <2>3, <2>4 DEF DayPasses, Gate!DayPasses, SkipReturn, LoadReturn, RefuseReturn,
                          Finish, Die, InBatch
    <2>5. ASSUME NEW request \in Uploads, Upload(request) PROVE Kept
        BY <2>3, <2>5 DEF Upload, Gate!File
    <2>6. ASSUME NEW run \in Loads, StartLoad(run) PROVE Kept
        BY <2>3, <2>6 DEF StartLoad, gate
    <2>7. CASE UNCHANGED vars
        BY <2>3, <2>7 DEF vars
    <2> HIDE DEF Kept
    <2> QED BY <1>2, <2>1, <2>2, <2>4, <2>5, <2>6, <2>7 DEF Next
<1>3. Spec => [][Kept]_vars
    BY <1>2, PTL DEF Spec
<1> QED BY <1>3 DEF GeneratingKeepsCycles

-----------------------------------------------------------------------------
(* The calendar: its periods are ones there can be, and finitely many.     *)
CalendarInv == DOMAIN isOpen \subseteq Cycle /\ IsFiniteSet(DOMAIN isOpen)

(* The families, their months, and how many of them a year has.            *)
LEMMA CycleIs ==
    ASSUME NEW p \in Cycle
    PROVE  /\ p.year \in Nat /\ p.seq \in Nat /\ p.seq >= 1
           /\ p = [type |-> p.type, year |-> p.year, seq |-> p.seq]
           /\ \/ p.type = "MONTHLY" /\ Months(p.type) = 1 /\ p.seq <= 12
              \/ p.type = "QUARTERLY" /\ Months(p.type) = 3 /\ p.seq <= 4
              \/ p.type = "SEMI_ANNUAL" /\ Months(p.type) = 6 /\ p.seq <= 2
              \/ p.type = "ANNUAL" /\ Months(p.type) = 12 /\ p.seq <= 1
<1>1. /\ p \in [type : {PeriodGrain[n] : n \in DOMAIN PeriodGrain}, year : Nat, seq : 1..12]
      /\ p.seq * Months(p.type) <= 12
    BY DEF Cycle
<1>2. p.type \in {"ANNUAL", "SEMI_ANNUAL", "QUARTERLY", "MONTHLY"}
    <2>1. DOMAIN PeriodGrain = {1, 2, 3, 4}
        BY DEF PeriodGrain
    <2>2. PICK n \in {1, 2, 3, 4} : p.type = PeriodGrain[n]
        BY <1>1, <2>1
    <2> QED BY <2>2 DEF PeriodGrain
<1>3. p.seq \in 1..12 /\ p.year \in Nat
    BY <1>1
<1>4. p = [type |-> p.type, year |-> p.year, seq |-> p.seq]
    BY <1>1
<1>5. CASE p.type = "MONTHLY"
    BY <1>1, <1>3, <1>4, <1>5 DEF Months
<1>6. CASE p.type = "QUARTERLY"
    BY <1>1, <1>3, <1>4, <1>6 DEF Months
<1>7. CASE p.type = "SEMI_ANNUAL"
    BY <1>1, <1>3, <1>4, <1>7 DEF Months
<1>8. CASE p.type = "ANNUAL"
    BY <1>1, <1>3, <1>4, <1>8 DEF Months
<1> QED BY <1>2, <1>5, <1>6, <1>7, <1>8

(* Where a period lies, by its family.                                     *)
LEMMA BoundsAre ==
    ASSUME NEW p \in Cycle
    PROVE  LET from == PeriodBounds(p).first
               to == PeriodBounds(p).last
           IN  \/ p.type = "MONTHLY" /\ from = 12 * p.year + p.seq /\ to = from
               \/ p.type = "QUARTERLY" /\ from = 12 * p.year + 3 * p.seq - 2 /\ to = from + 2
               \/ p.type = "SEMI_ANNUAL" /\ from = 12 * p.year + 6 * p.seq - 5 /\ to = from + 5
               \/ p.type = "ANNUAL" /\ from = 12 * p.year + 12 * p.seq - 11 /\ to = from + 11
<1>1. CASE p.type = "MONTHLY"
    BY <1>1, CycleIs DEF PeriodBounds
<1>2. CASE p.type = "QUARTERLY"
    BY <1>2, CycleIs DEF PeriodBounds
<1>3. CASE p.type = "SEMI_ANNUAL"
    BY <1>3, CycleIs DEF PeriodBounds
<1>4. CASE p.type = "ANNUAL"
    BY <1>4, CycleIs DEF PeriodBounds
<1> QED BY <1>1, <1>2, <1>3, <1>4, CycleIs

(* A period lies in its year.                                              *)
LEMMA YearIs ==
    ASSUME NEW p \in Cycle
    PROVE  /\ p.year \in Nat /\ p.seq \in Nat /\ p.seq >= 1
           /\ PeriodBounds(p).first \in Int /\ PeriodBounds(p).last \in Int
           /\ 12 * p.year + 1 <= PeriodBounds(p).first
           /\ PeriodBounds(p).first <= PeriodBounds(p).last
           /\ PeriodBounds(p).last <= 12 * p.year + 12
<1> DEFINE from == PeriodBounds(p).first
           to == PeriodBounds(p).last
<1>1. p.year \in Nat /\ p.seq \in Nat /\ p.seq >= 1
    BY CycleIs
<1>2. CASE p.type = "MONTHLY" /\ from = 12 * p.year + p.seq /\ to = from
    <2>1. p.seq <= 12
        BY <1>2, CycleIs
    <2> QED BY <1>1, <1>2, <2>1
<1>3. CASE p.type = "QUARTERLY" /\ from = 12 * p.year + 3 * p.seq - 2 /\ to = from + 2
    <2>1. p.seq <= 4
        BY <1>3, CycleIs
    <2> QED BY <1>1, <1>3, <2>1
<1>4. CASE p.type = "SEMI_ANNUAL" /\ from = 12 * p.year + 6 * p.seq - 5 /\ to = from + 5
    <2>1. p.seq <= 2
        BY <1>4, CycleIs
    <2> QED BY <1>1, <1>4, <2>1
<1>5. CASE p.type = "ANNUAL" /\ from = 12 * p.year + 12 * p.seq - 11 /\ to = from + 11
    <2>1. p.seq <= 1
        BY <1>5, CycleIs
    <2> QED BY <1>1, <1>5, <2>1
<1> QED BY <1>2, <1>3, <1>4, <1>5, BoundsAre

(* The cycles of a year are finitely many.                                 *)
LEMMA NumberedIs ==
    ASSUME NEW year \in Nat, NEW type \in ReportingPeriodTypes
    PROVE  Numbered(type, year) \subseteq Cycle /\ IsFiniteSet(Numbered(type, year))
<1>1. PICK k \in 1..12 : 12 \div Months(type) = k /\ k * Months(type) = 12
    BY DEF ReportingPeriodTypes, Months
<1>2. type \in {PeriodGrain[n] : n \in DOMAIN PeriodGrain}
    <2>1. PeriodGrain[3] = "QUARTERLY" /\ PeriodGrain[4] = "MONTHLY" /\ {3, 4} \subseteq DOMAIN PeriodGrain
        BY DEF PeriodGrain
    <2> QED BY <2>1 DEF ReportingPeriodTypes
<1>3. ASSUME NEW p \in Numbered(type, year)
      PROVE  /\ p \in Cycle /\ p.seq \in 1..k
             /\ p = [type |-> type, year |-> year, seq |-> p.seq]
    <2>1. p \in [type : {type}, year : {year}, seq : 1..k]
        BY <1>1 DEF Numbered
    <2>2. p.seq \in 1..12 /\ p.seq * Months(type) <= 12
        BY <1>1, <2>1 DEF ReportingPeriodTypes, Months
    <2> QED BY <1>2, <2>1, <2>2 DEF Cycle
<1>4. IsFiniteSet(Numbered(type, year))
    <2> DEFINE f == [p \in Numbered(type, year) |-> p.seq]
    <2>1. f \in Injection(Numbered(type, year), 1..k)
        BY <1>3 DEF Injection, IsInjective
    <2>2. IsFiniteSet(1..k)
        BY FS_Interval
    <2> QED BY <2>1, <2>2, FS_Injection
<1> QED BY <1>3, <1>4

(* No step makes a period that cannot be.                                  *)
LEMMA NextCalendarInv == CalendarInv /\ [Next]_vars => CalendarInv'
<1> SUFFICES ASSUME CalendarInv, [Next]_vars PROVE CalendarInv'
    OBVIOUS
<1>1. ASSUME DOMAIN isOpen' = DOMAIN isOpen PROVE CalendarInv'
    BY <1>1 DEF CalendarInv
<1>2. ASSUME NEW P \in SUBSET Cycle, NEW open, EnsurePeriods(P, open), IsFiniteSet(P)
      PROVE  CalendarInv'
    <2>1. DOMAIN isOpen' = P \cup DOMAIN isOpen
        BY <1>2 DEF EnsurePeriods
    <2> QED BY <1>2, <2>1, FS_Union DEF CalendarInv
<1>3. CASE Calendars
    <2>1. ASSUME NEW p \in Period, NEW open \in BOOLEAN, CreatePeriod(p, open)
          PROVE  CalendarInv'
        <3>1. {p} \in SUBSET Cycle /\ IsFiniteSet({p})
            BY IntakeAssumption, FS_Singleton
        <3> QED BY <1>2, <2>1, <3>1 DEF CreatePeriod
    <2>2. ASSUME NEW year \in Years, GenerateYear(year, ReportingPeriodTypes)
          PROVE  CalendarInv'
        <3> DEFINE each == {Numbered(type, year) : type \in ReportingPeriodTypes}
        <3>1. UNION each = Numbered("MONTHLY", year) \cup Numbered("QUARTERLY", year)
            BY DEF ReportingPeriodTypes
        <3>2. \A type \in ReportingPeriodTypes :
                 Numbered(type, year) \in SUBSET Cycle /\ IsFiniteSet(Numbered(type, year))
            BY NumberedIs, IntakeAssumption
        <3>3. UNION each \in SUBSET Cycle /\ IsFiniteSet(UNION each)
            <4>1. "MONTHLY" \in ReportingPeriodTypes /\ "QUARTERLY" \in ReportingPeriodTypes
                BY DEF ReportingPeriodTypes
            <4> HIDE DEF each
            <4> QED BY <3>1, <3>2, <4>1, FS_Union
        <3>4. EnsurePeriods(UNION each, TRUE)
            BY <2>2 DEF GenerateYear
        <3> HIDE DEF each
        <3> QED BY <1>2, <3>3, <3>4
    <2> QED BY <1>3, <2>1, <2>2 DEF Calendars
<1>4. CASE Administration
    <2>1. \/ isOpen' = isOpen
          \/ \E p \in Period, b \in BOOLEAN : isOpen' = [isOpen EXCEPT ![p] = b]
        BY <1>4 DEF Administration, Gate!ClosePeriod, Gate!ReopenPeriod, Gate!GrantReopening,
                    Gate!AddGrant, Gate!RevokeReopening
    <2> QED BY <1>1, <2>1
<1>5. ASSUME UNCHANGED isOpen PROVE CalendarInv'
    BY <1>1, <1>5
<1>6. CASE DayPasses \/ SkipReturn \/ LoadReturn \/ RefuseReturn \/ Finish \/ Die
    BY <1>5, <1>6 DEF DayPasses, Gate!DayPasses, SkipReturn, LoadReturn, RefuseReturn,
                      Finish, Die, InBatch
<1>7. ASSUME NEW request \in Uploads, Upload(request) PROVE CalendarInv'
    BY <1>5, <1>7 DEF Upload, Gate!File
<1>8. ASSUME NEW run \in Loads, StartLoad(run) PROVE CalendarInv'
    BY <1>5, <1>8 DEF StartLoad, gate
<1>9. CASE UNCHANGED vars
    BY <1>5, <1>9 DEF vars
<1> QED BY <1>3, <1>4, <1>6, <1>7, <1>8, <1>9 DEF Next

(* ... so there never is one.                                              *)
LEMMA AlwaysCalendarInv == Spec => []CalendarInv
<1>1. Init => CalendarInv
    <2>1. DOMAIN <<>> = {}
        OBVIOUS
    <2> QED BY <2>1, FS_EmptySet DEF Init, CalendarInv
<1> QED BY <1>1, NextCalendarInv, PTL DEF Spec

(* Periods of one family are in a strict order.                            *)
LEMMA EarlierIs ==
    ASSUME NEW p \in Cycle, NEW q \in Cycle, p.type = q.type
    PROVE  /\ ~Earlier(p, p)
           /\ Earlier(p, q) => ~Earlier(q, p)
           /\ Earlier(p, q) \/ Earlier(q, p) \/ p = q
           /\ \A r \in Cycle : r.type = p.type /\ Earlier(p, q) /\ Earlier(q, r) => Earlier(p, r)
<1>1. \A r \in Cycle : /\ r.year \in Nat /\ r.seq \in Nat
                       /\ r = [type |-> r.type, year |-> r.year, seq |-> r.seq]
    BY CycleIs
<1> QED BY <1>1 DEF Earlier

(* A family in its order: none is left out.                                *)
LEMMA InOrderIs ==
    ASSUME NEW P, P \subseteq Cycle, IsFiniteSet(P), \A p, q \in P : p.type = q.type
    PROVE  /\ P \subseteq Range(InOrder(P))
           /\ DOMAIN InOrder(P) = 1..Cardinality(P)
<1> DEFINE before(p) == {q \in P : Earlier(q, p)}
           rank(p) == Cardinality(before(p))
<1>1. DOMAIN InOrder(P) = 1..Cardinality(P) /\ Cardinality(P) \in Nat
    BY FS_CardinalityType DEF InOrder
<1>2. ASSUME NEW p \in P
      PROVE  /\ IsFiniteSet(before(p)) /\ rank(p) \in Nat
             /\ rank(p) + 1 \in 1..Cardinality(P)
    <2>1. before(p) \in SUBSET (P \ {p})
        BY EarlierIs
    <2>2. IsFiniteSet(P \ {p}) /\ Cardinality(P \ {p}) = Cardinality(P) - 1
        BY FS_RemoveElement
    <2>3. IsFiniteSet(before(p)) /\ rank(p) <= Cardinality(P \ {p})
        BY <2>1, <2>2, FS_Subset
    <2>4. rank(p) \in Nat
        BY <2>3, FS_CardinalityType
    <2> HIDE DEF rank
    <2> QED BY <1>1, <2>2, <2>3, <2>4
<1>3. ASSUME NEW p \in P, NEW q \in P, Earlier(p, q)
      PROVE  rank(p) < rank(q)
    <2>1. p \notin before(p) /\ before(p) \cup {p} \in SUBSET before(q)
        <3>1. \A r \in before(p) : Earlier(r, q)
            BY <1>3, EarlierIs
        <3> QED BY <1>3, <3>1, EarlierIs
    <2>2. Cardinality(before(p) \cup {p}) = rank(p) + 1
        BY <1>2, <2>1, FS_AddElement
    <2>3. Cardinality(before(p) \cup {p}) <= rank(q)
        BY <1>2, <2>1, FS_Subset
    <2>4. rank(p) \in Nat /\ rank(q) \in Nat
        BY <1>2
    <2> HIDE DEF rank
    <2> QED BY <2>2, <2>3, <2>4
<1>4. ASSUME NEW p \in P
      PROVE  p \in Range(InOrder(P))
    <2> DEFINE n == rank(p) + 1
               at == InOrder(P)[n]
    <2>1. n \in 1..Cardinality(P) /\ n - 1 = rank(p)
        <3>1. rank(p) \in Nat /\ rank(p) + 1 \in 1..Cardinality(P)
            BY <1>2
        <3> HIDE DEF rank
        <3> QED BY <3>1
    <2>2. at = CHOOSE q \in P : rank(q) = n - 1
        BY <2>1 DEF InOrder
    <2>3. at \in P /\ rank(at) = rank(p)
        BY <2>1, <2>2
    <2> HIDE DEF at, n
    <2>4. at = p
        <3>1. rank(p) \in Nat
            BY <1>2
        <3> HIDE DEF rank
        <3> QED BY <1>3, <2>3, <3>1, EarlierIs
    <2> QED BY <1>1, <2>1, <2>4 DEF Range, at
<1> QED BY <1>1, <1>4

(* Which periods lie in which: as the numbers say, and in the year of the  *)
(* one they lie in.                                                        *)
LEMMA InsideIs ==
    ASSUME NEW p \in Cycle, NEW q \in Cycle, Inside(p, q)
    PROVE  /\ p.year = q.year
           /\ p.type = "MONTHLY" /\ q.type = "QUARTERLY" =>
                 p.seq \in (3 * q.seq - 2)..(3 * q.seq)
           /\ p.type = "QUARTERLY" /\ q.type = "SEMI_ANNUAL" =>
                 p.seq \in (2 * q.seq - 1)..(2 * q.seq + 1)
           /\ p.type = "SEMI_ANNUAL" /\ q.type = "ANNUAL" => p.seq \in 1..3
           /\ q.type = "QUARTERLY" => p.type = "MONTHLY" \/ p = q
<1>1. /\ PeriodBounds(q).first <= PeriodBounds(p).first
      /\ PeriodBounds(p).last <= PeriodBounds(q).last
    BY DEF Inside
<1>2. \A r \in {p, q} :
         /\ r.year \in Nat /\ r.seq \in Nat /\ r.seq >= 1
         /\ r = [type |-> r.type, year |-> r.year, seq |-> r.seq]
         /\ \/ r.type = "MONTHLY" /\ r.seq <= 12
            \/ r.type = "QUARTERLY" /\ r.seq <= 4
            \/ r.type = "SEMI_ANNUAL" /\ r.seq <= 2
            \/ r.type = "ANNUAL" /\ r.seq <= 1
    BY CycleIs
<1>3. p.year = q.year
    <2>1. 12 * q.year + 1 <= 12 * p.year + 12 /\ 12 * p.year + 1 <= 12 * q.year + 12
        BY <1>1, YearIs
    <2> QED BY <1>2, <2>1
<1>4. /\ p.type = "MONTHLY" /\ q.type = "QUARTERLY" => p.seq \in (3 * q.seq - 2)..(3 * q.seq)
      /\ p.type = "QUARTERLY" /\ q.type = "SEMI_ANNUAL" =>
            p.seq \in (2 * q.seq - 1)..(2 * q.seq + 1)
      /\ p.type = "SEMI_ANNUAL" /\ q.type = "ANNUAL" => p.seq \in 1..3
    BY <1>1, <1>2, <1>3, BoundsAre
<1>5. q.type = "QUARTERLY" => p.type = "MONTHLY" \/ p = q
    BY <1>1, <1>2, <1>3, BoundsAre
<1> QED BY <1>3, <1>4, <1>5

(* The finer family of each.                                               *)
LEMMA FinerGrainIs ==
    /\ FinerGrain("QUARTERLY") = {"MONTHLY"} /\ FinerGrain("SEMI_ANNUAL") = {"QUARTERLY"}
    /\ FinerGrain("ANNUAL") = {"SEMI_ANNUAL"} /\ FinerGrain("MONTHLY") = {}
<1>1. DOMAIN PeriodGrain = {1, 2, 3, 4}
    BY DEF PeriodGrain
<1>2. /\ PeriodGrain[1] = "ANNUAL" /\ PeriodGrain[2] = "SEMI_ANNUAL"
      /\ PeriodGrain[3] = "QUARTERLY" /\ PeriodGrain[4] = "MONTHLY"
    BY DEF PeriodGrain
<1>3. \A type : FinerGrain(type) = {PeriodGrain[n] : n \in {m \in {2, 3, 4} : PeriodGrain[m - 1] = type}}
    BY <1>1 DEF FinerGrain
<1> QED BY <1>2, <1>3

(* The periods right inside another, of one family and at most three.      *)
LEMMA EnclosedIs ==
    ASSUME CalendarInv, NEW p \in DOMAIN isOpen
    PROVE  LET P == {q \in DOMAIN isOpen : q.type \in FinerGrain(p.type) /\ Inside(q, p)}
           IN  /\ P \subseteq Range(EnclosedPeriods(p))
               /\ Len(EnclosedPeriods(p)) <= 3
<1> DEFINE P == {q \in DOMAIN isOpen : q.type \in FinerGrain(p.type) /\ Inside(q, p)}
<1>1. p \in Cycle /\ P \subseteq Cycle /\ IsFiniteSet(P)
    BY FS_Subset DEF CalendarInv
<1>2. PICK c \in Int : \A q \in P : q.seq \in c..(c + 2) /\ q.year = p.year
    <2>1. CASE p.type = "QUARTERLY"
        <3>1. \A q \in P : q.seq \in (3 * p.seq - 2)..(3 * p.seq - 2 + 2) /\ q.year = p.year
            BY <1>1, <2>1, InsideIs, FinerGrainIs, CycleIs
        <3> QED BY <1>1, <3>1, CycleIs
    <2>2. CASE p.type = "SEMI_ANNUAL"
        <3>1. \A q \in P : q.seq \in (2 * p.seq - 1)..(2 * p.seq - 1 + 2) /\ q.year = p.year
            BY <1>1, <2>2, InsideIs, FinerGrainIs, CycleIs
        <3> QED BY <1>1, <3>1, CycleIs
    <2>3. CASE p.type = "ANNUAL"
        <3>1. \A q \in P : q.seq \in 1..(1 + 2) /\ q.year = p.year
            BY <1>1, <2>3, InsideIs, FinerGrainIs
        <3> QED BY <3>1
    <2>4. CASE p.type = "MONTHLY"
        BY <2>4, FinerGrainIs
    <2> QED BY <1>1, <2>1, <2>2, <2>3, <2>4, CycleIs
<1>3. \A q, r \in P : q.type = r.type
    BY <1>1, CycleIs, FinerGrainIs
<1>4. Cardinality(P) <= 3
    <2> DEFINE f == [q \in P |-> q.seq]
    <2>1. \A q \in P : q = [type |-> q.type, year |-> q.year, seq |-> q.seq]
        BY <1>1, CycleIs
    <2>2. f \in Injection(P, c..(c + 2))
        BY <1>2, <1>3, <2>1 DEF Injection, IsInjective
    <2>3. IsFiniteSet(c..(c + 2)) /\ Cardinality(c..(c + 2)) = 3
        BY FS_Interval
    <2> HIDE DEF P
    <2> QED BY <2>2, <2>3, FS_Injection
<1>5. /\ P \subseteq Range(InOrder(P)) /\ DOMAIN InOrder(P) = 1..Cardinality(P)
      /\ Cardinality(P) \in Nat
    BY <1>1, <1>3, InOrderIs, FS_CardinalityType
<1>6. EnclosedPeriods(p) = InOrder(P)
    BY DEF EnclosedPeriods
<1>7. Len(InOrder(P)) = Cardinality(P)
    <2> HIDE DEF P
    <2>1. InOrder(P) \in [1..Cardinality(P) -> Range(InOrder(P))]
        BY <1>5 DEF InOrder, Range
    <2>2. InOrder(P) \in Seq(Range(InOrder(P)))
        BY <1>5, <2>1
    <2> QED BY <1>5, <2>2
<1> QED BY <1>4, <1>5, <1>6, <1>7

(* Two months apart are in quarters apart.                                 *)
LEMMA OneQuarter ==
    ASSUME CalendarInv, NEW p \in DOMAIN isOpen, p.type = "MONTHLY"
    PROVE  Cardinality(EnclosingQuarters(p)) <= 1
<1>1. \A q, r \in EnclosingQuarters(p) : q = r
    <2> SUFFICES ASSUME NEW q \in EnclosingQuarters(p), NEW r \in EnclosingQuarters(p)
                 PROVE  q = r
        OBVIOUS
    <2>1. /\ q \in Cycle /\ r \in Cycle /\ p \in Cycle
          /\ q.type = "QUARTERLY" /\ r.type = "QUARTERLY" /\ Inside(p, q) /\ Inside(p, r)
        BY DEF EnclosingQuarters, CalendarInv
    <2>2. /\ q.year = r.year
          /\ p.seq \in (3 * q.seq - 2)..(3 * q.seq) /\ p.seq \in (3 * r.seq - 2)..(3 * r.seq)
        BY <2>1, InsideIs
    <2>3. \A s \in {q, r} :
             s.seq \in Nat /\ s = [type |-> s.type, year |-> s.year, seq |-> s.seq]
        BY <2>1, CycleIs
    <2>4. p.seq \in Nat
        BY <2>1, CycleIs
    <2>5. q.seq = r.seq
        BY <2>2, <2>3, <2>4
    <2> QED BY <2>1, <2>2, <2>3, <2>5
<1>2. CASE EnclosingQuarters(p) = {}
    BY <1>2, FS_EmptySet
<1>3. CASE EnclosingQuarters(p) # {}
    <2>1. PICK q : EnclosingQuarters(p) = {q}
        BY <1>1, <1>3
    <2>2. Cardinality(EnclosingQuarters(p)) = 1
        BY <2>1, FS_Singleton
    <2> QED BY <2>2
<1> QED BY <1>2, <1>3

(* Whatever calendar is created and generated, in whatever order, it fits  *)
(* together: quarters hold their months and nothing else, and a period     *)
(* follows the one before it of its family.                                *)
THEOREM CalendarFitsAlways == Spec => []CalendarFits
<1>1. CalendarInv => CalendarFits
    <2> SUFFICES ASSUME CalendarInv, NEW p \in DOMAIN isOpen
                 PROVE  /\ p.type = "MONTHLY" => Cardinality(EnclosingQuarters(p)) <= 1
                        /\ \A q \in EnclosingQuarters(p) : p \in Range(EnclosedPeriods(q))
                        /\ Len(EnclosedPeriods(p)) <= 3
                        /\ \A q \in PrecedingPeriod(p) :
                              /\ PeriodBounds(q).last < PeriodBounds(p).first
                              /\ \A r \in DOMAIN isOpen : r.type = p.type =>
                                    ~( /\ PeriodBounds(q).last < PeriodBounds(r).first
                                       /\ PeriodBounds(r).last < PeriodBounds(p).first )
        BY DEF CalendarFits
    <2>1. p \in Cycle
        BY DEF CalendarInv
    <2>2. ASSUME NEW q \in EnclosingQuarters(p)
          PROVE  p \in Range(EnclosedPeriods(q))
        <3>1. /\ q \in DOMAIN isOpen /\ q \in Cycle /\ q.type = "QUARTERLY" /\ Inside(p, q)
              /\ q # p
            BY DEF EnclosingQuarters, CalendarInv
        <3>2. p.type \in FinerGrain(q.type)
            BY <2>1, <3>1, InsideIs, FinerGrainIs
        <3> QED BY <3>1, <3>2, EnclosedIs
    <2>3. ASSUME NEW q \in PrecedingPeriod(p)
          PROVE  /\ PeriodBounds(q).last < PeriodBounds(p).first
                 /\ \A r \in DOMAIN isOpen : r.type = p.type =>
                       ~( /\ PeriodBounds(q).last < PeriodBounds(r).first
                          /\ PeriodBounds(r).last < PeriodBounds(p).first )
        <3>1. /\ q \in DOMAIN isOpen /\ q \in Cycle /\ q.type = p.type /\ Earlier(q, p)
              /\ \A r \in DOMAIN isOpen :
                    r.type = p.type /\ Earlier(r, p) => ~Earlier(q, r)
            BY DEF PrecedingPeriod, CalendarInv
        <3>2. ASSUME NEW a \in Cycle, NEW b \in Cycle, a.type = b.type
              PROVE  Earlier(a, b) <=> PeriodBounds(a).last < PeriodBounds(b).first
            <4> DEFINE end == PeriodBounds(a).last
                       start == PeriodBounds(b).first
            <4>1. /\ a.year \in Nat /\ b.year \in Nat /\ a.seq \in Nat /\ b.seq \in Nat
                  /\ end \in Int /\ start \in Int
                  /\ 12 * a.year + 1 <= end /\ end <= 12 * a.year + 12
                  /\ 12 * b.year + 1 <= start /\ start <= 12 * b.year + 12
                BY YearIs
            <4>2. Earlier(a, b) <=> IF a.year # b.year THEN a.year < b.year ELSE a.seq < b.seq
                BY <3>2 DEF Earlier
            <4>3. CASE a.year # b.year
                <5> HIDE DEF end, start
                <5>1. (end < start) <=> a.year < b.year
                    BY <4>1, <4>3
                <5> QED BY <4>2, <4>3, <5>1 DEF end, start
            <4>4. CASE a.year = b.year
                <5>1. \/ end = 12 * a.year + a.seq /\ start = 12 * b.year + b.seq
                      \/ end = 12 * a.year + 3 * a.seq /\ start = 12 * b.year + 3 * b.seq - 2
                      \/ end = 12 * a.year + 6 * a.seq /\ start = 12 * b.year + 6 * b.seq - 5
                      \/ end = 12 * a.year + 12 * a.seq /\ start = 12 * b.year + 12 * b.seq - 11
                    BY <3>2, <4>1, BoundsAre
                <5> HIDE DEF end, start
                <5>2. (end < start) <=> a.seq < b.seq
                    BY <4>1, <4>4, <5>1
                <5> QED BY <4>2, <4>4, <5>2 DEF end, start
            <4> QED BY <4>3, <4>4
        <3> QED BY <2>1, <3>1, <3>2 DEF CalendarInv
    <2> QED BY <2>2, <2>3, OneQuarter, EnclosedIs
<1> QED BY <1>1, AlwaysCalendarInv, PTL

-----------------------------------------------------------------------------
(* The rows an export's return becomes.                                    *)
RowsFrom(ret) ==
    {[indicator |-> i, value |-> ret.figures[i], numerator |-> None, denominator |-> None,
      row |-> None] : i \in DOMAIN ret.figures}

(* Where a return comes from: what an export says under a name, or what    *)
(* the lines of a template map to.                                         *)
FromExport(r) ==
    \E run \in Loads : \E ret \in ReadExport(run.file) :
        /\ IsUsable(run.file)
        /\ r.file = run.file /\ r.name = ret.name /\ r.rows = RowsFrom(ret)

FromTemplate(r) ==
    \E request \in Uploads :
        LET mapping == MapRows(ParseUpload(request.file))
        IN  /\ r.file = request.file /\ r.name = None
            /\ r.rows = mapping.values /\ r.unmapped = mapping.unmapped

Sourced(rows) ==
    \A u \in DOMAIN rows :
        /\ {"file", "name", "rows", "unmapped"} \subseteq DOMAIN rows[u]
        /\ FromExport(rows[u]) \/ FromTemplate(rows[u])

(* ... and what a load still has to file is from its own export.           *)
Loading ==
    /\ DOMAIN batch = {"file", "period", "only", "approve", "open", "rest", "work", "loaded"}
    /\ \E run \in Loads : IsUsable(run.file) /\ batch.file = run.file
    /\ batch.rest \subseteq ReadExport(batch.file)
    /\ Sourced(Work.returns)

Provenance == Sourced(returns) /\ (batch # None => Loading)

-----------------------------------------------------------------------------
(* Of finitely many numbers one is the smallest and one the largest: of    *)
(* the sets of them without, a smallest would have had one more.           *)
LEMMA ExtremesExist ==
    ASSUME NEW S, IsFiniteSet(S), S # {}, S \subseteq Int
    PROVE  /\ Min(S) \in S /\ \A x \in S : Min(S) <= x
           /\ Max(S) \in S /\ \A x \in S : Max(S) >= x
<1> DEFINE Has(T) == \E low, high \in T : \A x \in T : low <= x /\ x <= high
           Bad == {T \in SUBSET S : T # {} /\ ~Has(T)}
<1>1. ASSUME NEW T \in SUBSET S, T # {}, \A U \in SUBSET T : U # T /\ U # {} => Has(U)
      PROVE  Has(T)
    <2>1. PICK x \in T : TRUE
        BY <1>1
    <2>2. CASE T = {x}
        <3>1. x <= x
            BY <2>1
        <3> QED BY <2>1, <2>2, <3>1
    <2>3. CASE T # {x}
        <3>1. Has(T \ {x})
            BY <1>1, <2>1, <2>3
        <3>2. PICK low \in T \ {x}, high \in T \ {x} : \A y \in T \ {x} : low <= y /\ y <= high
            BY <3>1
        <3>3. low \in Int /\ high \in Int /\ x \in Int /\ low <= low /\ high <= high
            BY <2>1, <3>2
        <3>4. \E l, h \in T : l <= low /\ l <= x /\ high <= h /\ x <= h
            <4>1. \E l \in {low, x} : l <= low /\ l <= x
                BY <3>3
            <4>2. \E h \in {high, x} : high <= h /\ x <= h
                BY <3>3
            <4> QED BY <2>1, <4>1, <4>2
        <3>5. PICK l \in T, h \in T : l <= low /\ l <= x /\ high <= h /\ x <= h
            BY <3>4
        <3>6. \A y \in T : l <= y /\ y <= h
            BY <3>2, <3>3, <3>5
        <3> QED BY <3>6
    <2> QED BY <2>2, <2>3
<1> HIDE DEF Has
<1>2. Bad = {}
    <2> SUFFICES ASSUME Bad # {} PROVE FALSE
        OBVIOUS
    <2>1. Bad \subseteq FiniteSubsetsOf(S)
        BY FS_FiniteSubsetsOfFinite
    <2>2. PICK T \in Bad : \A U \in Bad : <<U, T>> \notin StrictSubsetOrdering(S)
        <3> HIDE DEF Bad
        <3>1. IsWellFoundedOn(StrictSubsetOrdering(S), FiniteSubsetsOf(S))
            BY FS_StrictSubsetOrderingWellFounded
        <3> QED BY <2>1, <3>1, WFMin
    <2>3. \A U \in SUBSET T : U # T /\ U # {} => Has(U)
        <3> SUFFICES ASSUME NEW U \in SUBSET T, U # T, U # {}, ~Has(U) PROVE FALSE
            OBVIOUS
        <3>1. U \in Bad /\ <<U, T>> \in StrictSubsetOrdering(S)
            BY DEF StrictSubsetOrdering
        <3> QED BY <2>2, <3>1
    <2> QED BY <1>1, <2>2, <2>3
<1>3. Has(S)
    BY <1>2
<1> QED BY <1>3 DEF Has, Min, Max

-----------------------------------------------------------------------------
(* The return whose turn it is, is one that is left.                       *)
LEMMA TurnIsLeft ==
    ASSUME NEW run \in Loads, batch.file = run.file, batch.rest \subseteq ReadExport(run.file),
           batch.rest # {}
    PROVE  Turn \in batch.rest
<1> DEFINE places == {n \in DOMAIN NameOrder : \E ret \in batch.rest : ret.name = NameOrder[n]}
<1>1. \A ret \in batch.rest : \E n \in DOMAIN NameOrder : NameOrder[n] = ret.name
    <2> TAKE ret \in batch.rest
    <2>1. ret \in ReadExport(run.file)
        OBVIOUS
    <2>2. ret.name \in {row.name : row \in Range(run.file.rows)} \ {None}
        BY <2>1 DEF ReadExport
    <2>3. {row.name : row \in Range(run.file.rows)} \subseteq Range(NameOrder) \cup {None}
        BY FilesAssumption DEF Worded
    <2>4. ret.name \in Range(NameOrder)
        BY <2>2, <2>3
    <2> QED BY <2>4 DEF Range
<1>2. places # {} /\ places \subseteq DOMAIN NameOrder
    BY <1>1
<1>3. IsFiniteSet(places) /\ places \subseteq Int
    BY <1>2, FilesAssumption, FS_Subset
<1>4. Min(places) \in places /\ \A n \in places : Min(places) <= n
    <2> HIDE DEF places
    <2> QED BY <1>2, <1>3, ExtremesExist
<1>5. PICK ret \in batch.rest : ret.name = NameOrder[Min(places)]
    BY <1>4
<1>6. \A other \in batch.rest : Precedes(ret, other)
    <2> TAKE other \in batch.rest
    <2>1. PICK n \in DOMAIN NameOrder : NameOrder[n] = other.name
        BY <1>1
    <2>2. Min(places) <= n /\ Min(places) \in DOMAIN NameOrder
        BY <1>2, <1>4, <2>1
    <2> HIDE DEF places
    <2> QED BY <1>5, <2>1, <2>2 DEF Precedes
<1> QED BY <1>6 DEF Turn

(* What a return of an export becomes comes from it.                       *)
LEMMA LandedSourced ==
    ASSUME Provenance, LoadReturn
    PROVE  Loading'
<1> DEFINE ret == Turn
           u == <<StateOf[ret.name], batch.period>>
           new == [file |-> batch.file, name |-> ret.name, rows |-> RowsFrom(ret),
                   unmapped |-> 0, approved |-> FALSE]
<1>1. Loading /\ batch.rest # {} /\ UNCHANGED returns
    BY DEF LoadReturn, InBatch, Provenance
<1>2. PICK g \in Admitting(StateOf[ret.name]) :
         batch' = [batch EXCEPT !.rest = batch.rest \ {ret}, !.work = Landed(ret, g),
                                !.loaded = batch.loaded \cup {u}]
    BY DEF LoadReturn
<1>3. Landed(ret, g).returns = Put(Work.returns, u, new)
    BY DEF Landed, RowsFrom
<1>4. PICK run \in Loads : IsUsable(run.file) /\ batch.file = run.file
    BY <1>1 DEF Loading
<1>5. ret \in ReadExport(run.file)
    BY <1>1, <1>4, TurnIsLeft DEF Loading
<1>6. FromExport(new) /\ {"file", "name", "rows", "unmapped"} \subseteq DOMAIN new
    BY <1>4, <1>5 DEF FromExport
<1> HIDE DEF ret, u, new
<1>7. Sourced(Put(Work.returns, u, new))
    BY <1>1, <1>6 DEF Loading, Sourced, Put
<1>8. /\ DOMAIN batch' = DOMAIN batch /\ batch'.file = batch.file
      /\ batch'.rest = batch.rest \ {ret} /\ batch'.work = Landed(ret, g)
      /\ batch'.loaded = batch.loaded \cup {u}
    BY <1>1, <1>2 DEF Loading
<1>9. Work'.returns = Put(Work.returns, u, new)
    BY <1>3, <1>8 DEF Work
<1> QED BY <1>1, <1>4, <1>7, <1>8, <1>9 DEF Loading

(* The others leave what was stored, or store what a template maps to.     *)
LEMMA OthersSourced ==
    ASSUME Provenance, batch' = batch,
           returns' = returns \/ (Unlocked /\ Sourced(returns'))
    PROVE  Provenance'
<1>1. Sourced(returns)'
    BY DEF Provenance, Sourced
<1>2. ASSUME batch # None
      PROVE  Loading'
    <2>1. Loading
        BY <1>2 DEF Provenance
    <2>2. CASE batch.loaded = {}
        <3>1. Work'.returns = returns'
            BY <2>2 DEF Work, Db
        <3> QED BY <1>1, <2>1, <3>1 DEF Loading, Sourced
    <2>3. CASE batch.loaded # {}
        <3>1. Work'.returns = Work.returns
            BY <2>3 DEF Work
        <3> QED BY <2>1, <3>1 DEF Loading, Sourced
    <2> QED BY <2>2, <2>3
<1> QED BY <1>1, <1>2 DEF Provenance

(* Approving a return leaves where it comes from.                          *)
LEMMA ApprovedSourced ==
    ASSUME NEW r, {"file", "name", "rows", "unmapped"} \subseteq DOMAIN r,
           FromExport(r) \/ FromTemplate(r),
           NEW approved, approved = [r EXCEPT !.approved = TRUE]
    PROVE  /\ {"file", "name", "rows", "unmapped"} \subseteq DOMAIN approved
           /\ FromExport(approved) \/ FromTemplate(approved)
<1>1. /\ DOMAIN approved = DOMAIN r
      /\ approved.file = r.file /\ approved.name = r.name
      /\ approved.rows = r.rows /\ approved.unmapped = r.unmapped
    OBVIOUS
<1>2. CASE FromExport(r)
    BY <1>1, <1>2 DEF FromExport
<1>3. CASE FromTemplate(r)
    BY <1>1, <1>3 DEF FromTemplate
<1> QED BY <1>1, <1>2, <1>3

(* Every step keeps the provenance of what is stored.                      *)
LEMMA NextProvenance == Provenance /\ [Next]_vars => Provenance'
<1> SUFFICES ASSUME Provenance, [Next]_vars PROVE Provenance'
    OBVIOUS
<1>1. CASE Calendars \/ Administration \/ DayPasses \/ UNCHANGED vars
    <2>1. batch' = batch /\ returns' = returns
        BY <1>1 DEF Calendars, Administration, DayPasses, vars
    <2> QED BY <2>1, OthersSourced
<1>2. ASSUME NEW request \in Uploads, Upload(request)
      PROVE  Provenance'
    <2> DEFINE new == [file |-> request.file, name |-> None,
                       rows |-> MapRows(ParseUpload(request.file)).values,
                       unmapped |-> MapRows(ParseUpload(request.file)).unmapped,
                       approved |-> FALSE]
    <2>1. \E unit : returns' = Put(returns, unit, new)
        BY <1>2 DEF Upload
    <2>2. FromTemplate(new) /\ {"file", "name", "rows", "unmapped"} \subseteq DOMAIN new
        BY DEF FromTemplate
    <2> HIDE DEF new
    <2>3. Sourced(returns')
        BY <2>1, <2>2 DEF Sourced, Put, Provenance
    <2> QED BY <1>2, <2>3, OthersSourced DEF Upload
<1>3. ASSUME NEW run \in Loads, StartLoad(run)
      PROVE  Provenance'
    <2>1. /\ DOMAIN batch' = {"file", "period", "only", "approve", "open", "rest", "work", "loaded"}
          /\ batch'.file = run.file /\ batch'.rest = ReadExport(run.file) /\ batch'.loaded = {}
          /\ returns' = returns /\ IsUsable(run.file)
        BY <1>3 DEF StartLoad
    <2>2. Work'.returns = returns'
        BY <2>1 DEF Work, Db
    <2> QED BY <2>1, <2>2 DEF Provenance, Loading, Sourced
<1>4. CASE SkipReturn
    <2>1. Loading /\ returns' = returns /\ batch' = [batch EXCEPT !.rest = batch.rest \ {Turn}]
        BY <1>4 DEF SkipReturn, InBatch, Provenance
    <2>2. /\ DOMAIN batch' = DOMAIN batch /\ batch'.rest \subseteq batch.rest
          /\ batch'.file = batch.file /\ batch'.work = batch.work /\ batch'.loaded = batch.loaded
        BY <2>1 DEF Loading
    <2>3. Work'.returns = Work.returns
        BY <2>1, <2>2 DEF Work, Db
    <2> QED BY <2>1, <2>2, <2>3 DEF Provenance, Loading, Sourced
<1>5. CASE LoadReturn
    <2>1. returns' = returns
        BY <1>5 DEF LoadReturn
    <2> QED BY <1>5, <2>1, LandedSourced DEF Provenance, Sourced
<1>6. CASE RefuseReturn \/ Die
    <2>1. returns' = returns /\ batch' = None
        BY <1>6 DEF RefuseReturn, Die
    <2> QED BY <2>1 DEF Provenance, Sourced
<1>7. CASE Finish
    <2>1. /\ Sourced(Work.returns) /\ batch' = None /\ DOMAIN returns' = DOMAIN Work.returns
          /\ \A u \in DOMAIN Work.returns :
                \/ returns'[u] = Work.returns[u]
                \/ returns'[u] = [Work.returns[u] EXCEPT !.approved = TRUE]
        BY <1>7 DEF Finish, InBatch, Provenance, Loading
    <2>2. Sourced(returns')
        BY <2>1, ApprovedSourced DEF Sourced
    <2> QED BY <2>1, <2>2 DEF Provenance, Sourced
<1> QED BY <1>1, <1>2, <1>3, <1>4, <1>5, <1>6, <1>7 DEF Next

(* ... so it always is.                                                    *)
LEMMA AlwaysProvenance == Spec => []Provenance
<1>1. Init => Provenance
    <2>1. DOMAIN <<>> = {}
        OBVIOUS
    <2> QED BY <2>1 DEF Init, Provenance, Sourced
<1> QED BY <1>1, NextProvenance, PTL DEF Spec

-----------------------------------------------------------------------------
(* Exports.                                                                *)

(* A number is read as one, and what is read as zero was No or a number    *)
(* that counts as it.                                                      *)
LEMMA ParseIs ==
    ASSUME NEW i, NEW cell, cell.kind = "NUMBER" => cell.number \in Int
    PROVE  /\ cell.kind = "NUMBER" => Parse(i, cell) # None
           /\ Parse(i, cell) = 0 =>
                 \/ cell.kind = "NO"
                 \/ /\ cell.kind = "NUMBER"
                    /\ IF Catalogue[i].boolean THEN cell.number < 1 ELSE cell.number = 0
<1>1. None # 0 /\ None # 1 /\ None \notin Int
    BY FilesAssumption
<1>2. CASE ~Catalogue[i].boolean
    BY <1>1, <1>2 DEF Parse, ToNumber
<1>3. CASE Catalogue[i].boolean /\ IsMissing(cell)
    BY <1>1, <1>3 DEF Parse, ToBoolean, IsMissing
<1>4. CASE Catalogue[i].boolean /\ ~IsMissing(cell)
    <2>1. Parse(i, cell) = Truth(cell) /\ cell.kind # "NONE"
        BY <1>4 DEF Parse, ToBoolean, IsMissing
    <2>2. CASE cell.kind = "NUMBER"
        <3>1. Truth(cell) = IF cell.number >= 1 THEN 1 ELSE 0
            BY <2>2 DEF Truth
        <3>2. cell.number \in Int
            BY <2>2
        <3> QED BY <1>1, <1>4, <2>1, <2>2, <3>1, <3>2
    <2>3. CASE cell.kind # "NUMBER"
        <3>1. Truth(cell) = 0 => cell.kind = "NO"
            BY <1>1, <2>1, <2>3 DEF Truth
        <3> QED BY <2>1, <2>3, <3>1
    <2> QED BY <2>2, <2>3
<1> QED BY <1>2, <1>3, <1>4

(* In a file that is taken, the column of an indicator is the one question *)
(* that asks for it.                                                       *)
LEMMA MatchedIs ==
    ASSUME NEW file, Worded(file), IsUsable(file)
    PROVE  /\ DOMAIN Matched(file) = {file.headers[c].asks : c \in Questions(file)}
           /\ \A c \in Questions(file) : Matched(file)[file.headers[c].asks] = c
<1> DEFINE candidates(c) == Candidates(file.headers[c])
           asks(c) == file.headers[c].asks
<1>1. ASSUME NEW c \in Questions(file)
      PROVE  candidates(c) = {asks(c)}
    <2>1. candidates(c) # {}
        BY DEF IsUsable, Unmatched
    <2>2. \A i \in candidates(c) : /\ i \in Reported
                                   /\ Catalogue[i].words = file.headers[c].words
                                   /\ Catalogue[i].percent = file.headers[c].percent
        BY DEF Candidates, Exact, Relax
    <2>3. \A i \in candidates(c) : i = asks(c)
        BY <2>2 DEF Worded
    <2> QED BY <2>1, <2>3
<1>2. \A c, d \in Questions(file) : asks(c) = asks(d) => c = d
    <2> SUFFICES ASSUME NEW c \in Questions(file), NEW d \in Questions(file),
                        asks(c) = asks(d), c # d
                 PROVE  FALSE
        OBVIOUS
    <2>1. candidates(c) \cap candidates(d) # {}
        BY <1>1
    <2> QED BY <2>1 DEF IsUsable, Collide
<1>3. UNION {candidates(c) : c \in Questions(file)} = {asks(c) : c \in Questions(file)}
    BY <1>1
<1>4. ASSUME NEW c \in Questions(file)
      PROVE  (CHOOSE d \in Questions(file) : asks(c) \in candidates(d)) = c
    <2>1. \A d \in Questions(file) : asks(c) \in candidates(d) <=> d = c
        BY <1>1, <1>2
    <2> HIDE DEF asks, candidates
    <2> QED BY <2>1
<1> QED BY <1>3, <1>4 DEF Matched

(* The figure of an indicator is the last answer to its question that can  *)
(* be read.                                                                *)
LEMMA FiguresAre ==
    ASSUME NEW file, Worded(file), IsUsable(file), NEW name, NEW c \in Questions(file)
    PROVE  LET i == file.headers[c].asks
               read == {n \in DOMAIN file.rows :
                           file.rows[n].name = name /\ Parse(i, file.rows[n].cells[c]) # None}
           IN  /\ i \in DOMAIN Figures(file, name) <=> read # {}
               /\ read # {} => \E n \in read :
                     Figures(file, name)[i] = Parse(i, file.rows[n].cells[c])
               /\ i \in Unreadable(file, name) <=>
                     \E n \in DOMAIN file.rows :
                        LET cell == file.rows[n].cells[c]
                        IN  /\ file.rows[n].name = name /\ Parse(i, cell) = None
                            /\ cell.kind \notin {"BLANK", "NAN", "NONE"}
<1> DEFINE i == file.headers[c].asks
           rows == RowsOf(file, name)
           read == {n \in DOMAIN file.rows :
                       file.rows[n].name = name /\ Parse(i, file.rows[n].cells[c]) # None}
<1>1. i \in DOMAIN Matched(file) /\ Matched(file)[i] = c
    BY MatchedIs
<1>2. /\ DOMAIN rows = {n \in DOMAIN file.rows : file.rows[n].name = name}
      /\ \A n \in DOMAIN rows : rows[n] = file.rows[n]
    BY DEF RowsOf, RestrictValues, Restrict
<1>3. /\ DOMAIN Answers(file, name, i) = read
      /\ \A n \in read : Answers(file, name, i)[n] = Parse(i, file.rows[n].cells[c])
    <2> HIDE DEF i
    <2> QED BY <1>1, <1>2 DEF Answers, RestrictValues, Restrict
<1>4. i \in DOMAIN Figures(file, name) <=> read # {}
    <2> HIDE DEF i, read
    <2> QED BY <1>1, <1>3 DEF Figures
<1>5. ASSUME read # {}
      PROVE  \E n \in read : Figures(file, name)[i] = Parse(i, file.rows[n].cells[c])
    <2>1. IsFiniteSet(read) /\ read \subseteq Int
        BY FS_Subset DEF Worded
    <2>2. Max(read) \in read
        <3> HIDE DEF read
        <3> QED BY <1>5, <2>1, ExtremesExist
    <2>3. Figures(file, name)[i] = Answers(file, name, i)[Max(read)]
        <3> HIDE DEF i, read
        <3> QED BY <1>1, <1>3, <1>5 DEF Figures
    <2> QED BY <1>3, <2>2, <2>3
<1>6. i \in Unreadable(file, name) <=>
         \E n \in DOMAIN rows : /\ Parse(i, rows[n].cells[c]) = None
                                /\ rows[n].cells[c].kind \notin {"BLANK", "NAN", "NONE"}
    <2> HIDE DEF i, rows
    <2>1. Range(rows) = {rows[n] : n \in DOMAIN rows}
        BY DEF Range
    <2> QED BY <1>1, <2>1 DEF Unreadable, rows
<1> QED BY <1>2, <1>4, <1>5, <1>6

(* Of every export that is taken, what was asked is what is stored, and    *)
(* what was answered is.                                                   *)
LEMMA ExportsAreKept ==
    ASSUME NEW r, FromExport(r)
    PROVE  /\ FromKobo(r)
           /\ \A reading \in r.rows : \E cell \in Given(r, reading.indicator) :
                 reading.value = Parse(reading.indicator, cell)
           /\ \A i \in Indicator : \A cell \in Given(r, i) :
                 LET stored == {reading.indicator : reading \in r.rows}
                 IN  /\ cell.kind = "NUMBER" => i \in stored
                     /\ i \in stored \/ i \in Unreadable(r.file, r.name) \/ IsMissing(cell)
                     /\ \A reading \in r.rows : reading.indicator = i /\ reading.value = 0 =>
                           \E zero \in Given(r, i) :
                              \/ zero.kind = "NO"
                              \/ /\ zero.kind = "NUMBER"
                                 /\ IF Catalogue[i].boolean THEN zero.number < 1
                                                            ELSE zero.number = 0
<1> DEFINE file == r.file
           asks(c) == file.headers[c].asks
           answer(n, c) == file.rows[n].cells[c]
           stored == {reading.indicator : reading \in r.rows}
<1>1. PICK ret \in ReadExport(file) :
         Worded(file) /\ IsUsable(file) /\ r.name = ret.name /\ r.rows = RowsFrom(ret)
    BY FilesAssumption DEF FromExport
<1>2. /\ ret.name # None
      /\ ret = [name |-> ret.name, figures |-> Figures(file, ret.name),
                unreadable |-> Unreadable(file, ret.name)]
    BY DEF ReadExport
<1>3. r.name # None /\ ret.figures = Figures(file, r.name)
    BY <1>1, <1>2
<1> DEFINE figures == Figures(file, r.name)
<1>4. r.rows = {[indicator |-> i, value |-> figures[i], numerator |-> None, denominator |-> None,
                 row |-> None] : i \in DOMAIN figures}
    BY <1>1, <1>3 DEF RowsFrom
<1>5. /\ \A reading \in r.rows : /\ reading.indicator \in DOMAIN figures
                                 /\ reading.value = figures[reading.indicator]
      /\ stored = DOMAIN figures
    <2> HIDE DEF figures, stored
    <2>1. ASSUME NEW i \in DOMAIN figures
          PROVE  \E reading \in r.rows : reading.indicator = i
        <3> DEFINE reading == [indicator |-> i, value |-> figures[i], numerator |-> None,
                               denominator |-> None, row |-> None]
        <3>1. reading \in r.rows
            BY <1>4
        <3>2. reading.indicator = i
            OBVIOUS
        <3> HIDE DEF reading
        <3> QED BY <3>1, <3>2
    <2>2. \A reading \in r.rows : /\ reading.indicator \in DOMAIN figures
                                  /\ reading.value = figures[reading.indicator]
        BY <1>4
    <2> QED BY <2>1, <2>2 DEF stored
(* What was given is in the cells of the one question, in its rows. *)
<1>6. ASSUME NEW c \in Questions(file)
      PROVE  \A cell : cell \in Given(r, asks(c)) <=>
                \E n \in DOMAIN file.rows : file.rows[n].name = r.name /\ cell = answer(n, c)
    <2>1. AskedFor(r, asks(c)) = {c}
        <3>1. \A d \in Questions(file) : asks(d) = asks(c) => d = c
            BY <1>1, MatchedIs
        <3> QED BY <3>1 DEF AskedFor
    <2>2. Range(RowsOf(file, r.name)) =
             {file.rows[n] : n \in {m \in DOMAIN file.rows : file.rows[m].name = r.name}}
        BY DEF RowsOf, RestrictValues, Restrict, Range
    <2>3. Given(r, asks(c)) = {row.cells[d] : row \in Range(RowsOf(file, r.name)), d \in {c}}
        BY <2>1 DEF Given
    <2> HIDE DEF file, asks
    <2> QED BY <2>2, <2>3
<1>7. ASSUME NEW i, NEW cell \in Given(r, i)
      PROVE  \E c \in Questions(file) : asks(c) = i
    BY <1>7 DEF Given, AskedFor
<1>8. \A i \in DOMAIN figures : \E c \in Questions(file) : asks(c) = i
    <2>1. DOMAIN figures \subseteq DOMAIN Matched(file)
        BY DEF Figures
    <2>2. DOMAIN Matched(file) = {asks(c) : c \in Questions(file)}
        BY <1>1, MatchedIs
    <2> HIDE DEF figures, asks
    <2> QED BY <2>1, <2>2
<1>9. ASSUME NEW c \in Questions(file)
      PROVE  LET i == asks(c)
             IN  /\ i \in DOMAIN figures =>
                       \E cell \in Given(r, i) : figures[i] = Parse(i, cell)
                 /\ \A cell \in Given(r, i) :
                       /\ cell.kind = "NUMBER" => cell.number \in Int
                       /\ Parse(i, cell) # None => i \in DOMAIN figures
                       /\ \/ Parse(i, cell) # None \/ IsMissing(cell)
                          \/ i \in Unreadable(file, r.name)
    <2> DEFINE i == asks(c)
               read == {n \in DOMAIN file.rows :
                           file.rows[n].name = r.name /\ Parse(i, answer(n, c)) # None}
    <2>1. /\ i \in DOMAIN figures <=> read # {}
          /\ read # {} => \E n \in read : figures[i] = Parse(i, answer(n, c))
          /\ \A n \in DOMAIN file.rows :
                /\ file.rows[n].name = r.name /\ Parse(i, answer(n, c)) = None
                /\ answer(n, c).kind \notin {"BLANK", "NAN", "NONE"}
                => i \in Unreadable(file, r.name)
        BY <1>1, FiguresAre
    <2>2. \A n \in DOMAIN file.rows :
             answer(n, c).kind = "NUMBER" => answer(n, c).number \in Int
        BY <1>1 DEF Worded, Range
    <2>3. \A n \in DOMAIN file.rows : answer(n, c).kind \in {"BLANK", "NAN", "NONE"} =>
             IsMissing(answer(n, c))
        BY DEF IsMissing
    <2>4. i \in DOMAIN figures => \E cell \in Given(r, i) : figures[i] = Parse(i, cell)
        <3> HIDE DEF i, figures, answer
        <3> QED BY <1>6, <2>1 DEF i
    <2>5. ASSUME NEW cell \in Given(r, i)
          PROVE  /\ cell.kind = "NUMBER" => cell.number \in Int
                 /\ Parse(i, cell) # None => i \in DOMAIN figures
                 /\ \/ Parse(i, cell) # None \/ IsMissing(cell)
                    \/ i \in Unreadable(file, r.name)
        <3>1. PICK n \in DOMAIN file.rows : file.rows[n].name = r.name /\ cell = answer(n, c)
            BY <1>6
        <3> HIDE DEF i, figures, answer, file
        <3> QED BY <2>1, <2>2, <2>3, <3>1
    <2> QED BY <2>4, <2>5
<1>10. ASSUME NEW reading \in r.rows
       PROVE  \E cell \in Given(r, reading.indicator) :
                 /\ reading.value = Parse(reading.indicator, cell)
                 /\ cell.kind = "NUMBER" => cell.number \in Int
    <2>1. PICK c \in Questions(file) : asks(c) = reading.indicator
        BY <1>5, <1>8
    <2> HIDE DEF figures, asks, file, stored
    <2> QED BY <1>5, <1>9, <2>1
<1>11. ASSUME NEW i \in Indicator, NEW cell \in Given(r, i)
       PROVE  /\ cell.kind = "NUMBER" => i \in stored
              /\ i \in stored \/ i \in Unreadable(file, r.name) \/ IsMissing(cell)
    <2>1. PICK c \in Questions(file) : asks(c) = i
        BY <1>7
    <2>2. cell.kind = "NUMBER" => Parse(i, cell) # None
        BY <1>9, <2>1, ParseIs
    <2> HIDE DEF figures, asks, file, stored
    <2> QED BY <1>5, <1>9, <2>1, <2>2
<1>12. ASSUME NEW i \in Indicator, NEW reading \in r.rows, reading.indicator = i, reading.value = 0
       PROVE  \E zero \in Given(r, i) :
                 \/ zero.kind = "NO"
                 \/ /\ zero.kind = "NUMBER"
                    /\ IF Catalogue[i].boolean THEN zero.number < 1 ELSE zero.number = 0
    BY <1>10, <1>12, ParseIs
<1> QED BY <1>3, <1>10, <1>11, <1>12 DEF FromKobo

-----------------------------------------------------------------------------
(* Templates.                                                              *)

(* Short lists are finite.                                                 *)
LEMMA ListsFinite == IsFiniteSet(1..2) /\ IsFiniteSet(1..3) /\ IsFiniteSet(1..5)
<1>1. \A k \in Nat : IsFiniteSet(1..k)
    BY FS_Interval
<1>2. 2 \in Nat /\ 3 \in Nat /\ 5 \in Nat
    OBVIOUS
<1> QED BY <1>1, <1>2, Zenon

(* The first of a list that is there: none comes before it.                *)
LEMMA CoalesceIs ==
    ASSUME NEW s, IsFiniteSet(DOMAIN s), DOMAIN s \subseteq Int
    PROVE  \/ Coalesce(s) = None /\ \A n \in DOMAIN s : s[n] = None
           \/ \E n \in DOMAIN s : /\ Coalesce(s) = s[n] /\ s[n] # None
                                  /\ \A m \in DOMAIN s : m < n => s[m] = None
<1> DEFINE found == {n \in DOMAIN s : s[n] # None}
<1>1. Coalesce(s) = IF found = {} THEN None ELSE s[Min(found)]
    BY DEF Coalesce
<1>2. CASE found = {}
    BY <1>1, <1>2
<1>3. CASE found # {}
    <2>1. IsFiniteSet(found) /\ found \subseteq Int
        BY FS_Subset
    <2>2. Min(found) \in found /\ \A n \in found : Min(found) <= n
        <3> HIDE DEF found
        <3> QED BY <1>3, <2>1, ExtremesExist
    <2>3. \A m \in DOMAIN s : m < Min(found) => s[m] = None
        <3>1. Min(found) \in Int
            BY <2>1, <2>2
        <3>2. \A m \in DOMAIN s : m < Min(found) => m \notin found
            BY <2>2, <3>1
        <3> QED BY <3>2
    <2> HIDE DEF found
    <2>4. Min(found) \in DOMAIN s /\ s[Min(found)] # None
        BY <2>2 DEF found
    <2> QED BY <1>1, <1>3, <2>3, <2>4
<1> QED BY <1>2, <1>3

(* A heading that says what its column is for is taken for that.           *)
LEMMA HeadingIsTaken ==
    ASSUME NEW h, NEW meant, HeadingSays(h, meant)
    PROVE  ResolveHeader(h) = meant
<1> DEFINE s == <<h.synonym, NamedBy(h), h.contains, h.resembles, h.near>>
<1>1. DOMAIN s = 1..5 /\ DOMAIN s \subseteq Int
    OBVIOUS
<1>2. /\ s[1] = h.synonym /\ s[2] = NamedBy(h) /\ s[3] = h.contains /\ s[4] = h.resembles
      /\ s[5] = h.near
    OBVIOUS
<1>3. ResolveHeader(h) = Coalesce(s)
    BY DEF ResolveHeader
<1> HIDE DEF s
<1>4. \/ Coalesce(s) = None /\ \A n \in 1..5 : s[n] = None
      \/ \E n \in 1..5 : /\ Coalesce(s) = s[n] /\ s[n] # None
                         /\ \A m \in 1..5 : m < n => s[m] = None
    <2>1. IsFiniteSet(1..5)
        BY ListsFinite
    <2> QED BY <1>1, <2>1, CoalesceIs
<1>5. /\ s[1] \in {None, meant} /\ s[2] \in {None, meant}
      /\ s[1] = None /\ s[2] = None =>
            /\ \A n \in {3, 4, 5} : s[n] \in {None, meant}
            /\ meant # None => \E n \in {3, 4, 5} : s[n] = meant
      /\ s[1] # None \/ s[2] # None => meant # None
    BY <1>2 DEF HeadingSays
<1>6. CASE Coalesce(s) = None /\ \A n \in 1..5 : s[n] = None
    BY <1>3, <1>5, <1>6
<1>7. ASSUME NEW n \in 1..5, Coalesce(s) = s[n], s[n] # None,
             \A m \in 1..5 : m < n => s[m] = None
      PROVE  Coalesce(s) = meant
    <2>1. CASE n \in {1, 2}
        BY <1>5, <1>7, <2>1
    <2>2. CASE n \in {3, 4, 5}
        <3>1. s[1] = None /\ s[2] = None
            BY <1>7, <2>2
        <3> QED BY <1>5, <1>7, <2>2, <3>1
    <2> QED BY <2>1, <2>2
<1> QED BY <1>3, <1>4, <1>6, <1>7

(* Which indicator the cells of a line are about: one that they name, or   *)
(* if there is none one that they are close to.                            *)
LEMMA ResolvedIs ==
    ASSUME NEW cells, IsFiniteSet(DOMAIN cells), DOMAIN cells \subseteq Int
    PROVE  LET named == {NamedBy(cells[n]) : n \in DOMAIN cells} \ {None}
               alike == {cells[n].near : n \in DOMAIN cells} \ {None}
               about == IF named # {} THEN named ELSE alike
           IN  IF about = {} THEN ResolveIndicator(cells) = None
                             ELSE ResolveIndicator(cells) \in about
<1> DEFINE by == [n \in DOMAIN cells |-> NamedBy(cells[n])]
           near == [n \in DOMAIN cells |-> cells[n].near]
           a == Coalesce(by)
           b == Coalesce(near)
           s == <<a, b>>
<1>1. \/ a = None /\ \A n \in DOMAIN cells : NamedBy(cells[n]) = None
      \/ \E n \in DOMAIN cells : a = NamedBy(cells[n]) /\ a # None
    <2>1. DOMAIN by = DOMAIN cells /\ \A n \in DOMAIN cells : by[n] = NamedBy(cells[n])
        OBVIOUS
    <2> HIDE DEF by
    <2> QED BY <2>1, CoalesceIs
<1>2. \/ b = None /\ \A n \in DOMAIN cells : cells[n].near = None
      \/ \E n \in DOMAIN cells : b = cells[n].near /\ b # None
    <2>1. DOMAIN near = DOMAIN cells /\ \A n \in DOMAIN cells : near[n] = cells[n].near
        OBVIOUS
    <2> HIDE DEF near
    <2> QED BY <2>1, CoalesceIs
<1> HIDE DEF a, b
<1>3. Coalesce(s) = IF a # None THEN a ELSE b
    <2>1. DOMAIN s = 1..2 /\ s[1] = a /\ s[2] = b
        OBVIOUS
    <2>2. 1..2 = {1, 2} /\ IsFiniteSet(1..2)
        <3>1. IsFiniteSet(1..2)
            BY ListsFinite
        <3> QED BY <3>1
    <2> HIDE DEF s
    <2>3. \/ Coalesce(s) = None /\ \A n \in {1, 2} : s[n] = None
          \/ \E n \in {1, 2} : /\ Coalesce(s) = s[n] /\ s[n] # None
                               /\ \A m \in {1, 2} : m < n => s[m] = None
        BY <2>1, <2>2, CoalesceIs
    <2>4. 1 < 2
        OBVIOUS
    <2> QED BY <2>1, <2>3, <2>4
<1>4. ResolveIndicator(cells) = Coalesce(s)
    BY DEF ResolveIndicator, a, b
<1> HIDE DEF s
<1> QED BY <1>1, <1>2, <1>3, <1>4

(* Of a template that can be trusted, the header row is found, and what is *)
(* read are the lines beneath it, but for the empty ones and the bands.    *)
LEMMA SheetIs ==
    ASSUME NEW file, FilledIn(file)
    PROVE  LET sheet == ParseUpload(file)
               line(n) == file.lines[n]
           IN  /\ sheet.headers = line(file.heading).cells
               /\ DOMAIN sheet.rows = {n \in DOMAIN file.lines :
                     /\ n > file.heading /\ Present(line(n)) # {}
                     /\ ~IsSectionBanner(line(n))}
               /\ \A n \in DOMAIN sheet.rows : sheet.rows[n] = line(n)
<1> DEFINE lines == RestrictValues(file.lines, LAMBDA l : Present(l) # {})
           written == {n \in DOMAIN file.lines : Present(file.lines[n]) # {}}
           scanned == {n \in written : Cardinality({m \in written : m <= n}) <= HeaderScan}
           best(n) == \A m \in scanned : \/ lines[m].score < lines[n].score
                                         \/ lines[m].score = lines[n].score /\ n <= m
<1>1. DOMAIN lines = written /\ \A n \in written : lines[n] = file.lines[n]
    BY DEF RestrictValues, Restrict
<1>2. HeaderRow(lines) = file.heading
    <2> HIDE DEF lines
    <2>1. HeaderRow(lines) = CHOOSE n \in scanned : best(n)
        BY <1>1 DEF HeaderRow
    <2>2. /\ file.heading \in scanned /\ scanned \subseteq written /\ scanned \subseteq Nat
          /\ \A n \in scanned :
                /\ lines[n].score \in Int /\ lines[n].score <= lines[file.heading].score
                /\ lines[n].score = lines[file.heading].score => file.heading <= n
        BY <1>1 DEF FilledIn, HeadingStands
    <2> DEFINE at == file.heading
               score(n) == lines[n].score
    <2>3. /\ at \in scanned /\ at \in Nat /\ score(at) \in Int
          /\ \A n \in scanned : /\ n \in Nat /\ score(n) \in Int /\ score(n) <= score(at)
                                /\ score(n) = score(at) => at <= n
        BY <2>2
    <2> HIDE DEF scanned, score, at
    <2>4. ASSUME NEW m \in scanned
          PROVE  score(m) < score(at) \/ (score(m) = score(at) /\ at <= m)
        BY <2>3
    <2>5. ASSUME NEW n \in scanned,
                 score(at) < score(n) \/ (score(at) = score(n) /\ n <= at)
          PROVE  n = at
        <3>1. score(n) <= score(at) /\ score(n) \in Int /\ score(at) \in Int /\ n \in Nat /\ at \in Nat
            BY <2>3
        <3> QED BY <2>3, <2>5, <3>1
    <2>6. at \in scanned /\ best(at) /\ \A n \in scanned : best(n) => n = at
        BY <2>3, <2>4, <2>5 DEF score
    <2> HIDE DEF best
    <2> QED BY <2>1, <2>6 DEF at
<1>3. /\ ParseUpload(file).headers = lines[HeaderRow(lines)].cells
      /\ ParseUpload(file).rows =
            RestrictDomain(lines, LAMBDA n : n > HeaderRow(lines) /\ ~IsSectionBanner(lines[n]))
    BY DEF ParseUpload
<1>4. file.heading \in written
    BY DEF FilledIn, HeadingStands
<1> HIDE DEF lines
<1>5. ParseUpload(file).headers = file.lines[file.heading].cells
    BY <1>1, <1>2, <1>3, <1>4
<1>6. /\ DOMAIN ParseUpload(file).rows =
             {n \in written : n > file.heading /\ ~IsSectionBanner(lines[n])}
      /\ \A n \in DOMAIN ParseUpload(file).rows : ParseUpload(file).rows[n] = lines[n]
    BY <1>1, <1>2, <1>3 DEF RestrictDomain, Restrict
<1> QED BY <1>1, <1>5, <1>6

(* Its headings are taken for what the columns are for.                    *)
LEMMA ColumnsAre ==
    ASSUME NEW file, FilledIn(file)
    PROVE  LET sheet == ParseUpload(file)
           IN  /\ DOMAIN sheet.headers = DOMAIN file.columns
               /\ DOMAIN file.columns \subseteq Nat
               /\ \A c \in DOMAIN file.columns : ResolveHeader(sheet.headers[c]) = file.columns[c]
               /\ \A f : Columns(sheet, f) = {c \in DOMAIN file.columns : file.columns[c] = f}
               /\ Layout(sheet) = IF HasColumn(file, Indicator) THEN "wide" ELSE "long"
<1> DEFINE headers == file.lines[file.heading].cells
           sheet == ParseUpload(file)
<1>1. sheet.headers = headers
    BY SheetIs
<1>2. /\ DOMAIN file.columns = DOMAIN headers /\ DOMAIN headers \subseteq Nat
      /\ \A c \in DOMAIN headers : HeadingSays(headers[c], file.columns[c])
    BY DEF FilledIn
<1>3. \A c \in DOMAIN headers : ResolveHeader(headers[c]) = file.columns[c]
    BY <1>2, HeadingIsTaken
<1> HIDE DEF headers, sheet
<1>4. \A f : Columns(sheet, f) = {c \in DOMAIN file.columns : file.columns[c] = f}
    BY <1>1, <1>2, <1>3 DEF Columns
<1>5. Layout(sheet) = IF HasColumn(file, Indicator) THEN "wide" ELSE "long"
    <2>1. {ResolveHeader(sheet.headers[c]) : c \in DOMAIN sheet.headers}
             = {file.columns[c] : c \in DOMAIN file.columns}
        BY <1>1, <1>2, <1>3
    <2>2. ~(HasColumn(file, Indicator) /\ HasColumn(file, IndicatorFields))
        BY DEF FilledIn
    <2> QED BY <2>1, <2>2 DEF Layout, HasColumn
<1> QED BY <1>1, <1>2, <1>3, <1>4, <1>5 DEF sheet

(* The entry of a line for a field that it fills in once.                  *)
LEMMA EntryIs ==
    ASSUME NEW file, FilledIn(file), NEW line, LongSays(file, line), NEW f \in Field \ {"other"}
    PROVE  LET entry == FirstPresent(line, Columns(ParseUpload(file), f))
           IN  \/ Entries(file, line, {f}) = {} /\ entry = Blank
               \/ \E c \in Entries(file, line, {f}) :
                     Entries(file, line, {f}) = {c} /\ entry = line.cells[c]
<1> DEFINE entries == Entries(file, line, {f})
<1>1. {c \in Columns(ParseUpload(file), f) : ~IsMissing(line.cells[c])} = entries
    <2>1. Columns(ParseUpload(file), f) = {c \in DOMAIN file.columns : file.columns[c] = f}
        BY ColumnsAre
    <2> QED BY <2>1 DEF Entries
<1>2. \A c, d \in entries : c = d
    <2>1. entries \subseteq Entries(file, line, Field \ {"other"})
        BY DEF Entries
    <2>2. \A c \in entries : file.columns[c] = f
        BY DEF Entries
    <2> QED BY <2>1, <2>2 DEF LongSays
<1>3. entries \subseteq Nat
    BY ColumnsAre DEF Entries
<1>4. FirstPresent(line, Columns(ParseUpload(file), f)) =
         IF entries = {} THEN Blank ELSE line.cells[Min(entries)]
    BY <1>1 DEF FirstPresent
<1> HIDE DEF entries
<1>5. CASE entries # {}
    <2>1. PICK c : entries = {c} /\ c \in Nat
        BY <1>2, <1>3, <1>5
    <2>2. Min(entries) = c
        <3>1. c <= c
            BY <2>1
        <3> QED BY <2>1, <3>1 DEF Min
    <2> QED BY <1>4, <2>1, <2>2 DEF entries
<1> QED BY <1>4, <1>5 DEF entries

(* The figures some rows of a return tell.                                *)
Told(readings) == {<<x.indicator, x.value>> : x \in readings}

(* With a column per indicator, a line yields what it carries.             *)
LEMMA WideReadings ==
    ASSUME NEW file, FilledIn(file), NEW line, HasColumn(file, Indicator), WideSays(file, line)
    PROVE  /\ Told(Readings(ParseUpload(file), line)) = line.carries
           /\ \A x \in Readings(ParseUpload(file), line) : x.row = line.at
           /\ Readings(ParseUpload(file), line) = {} => line.carries = {}
<1> DEFINE sheet == ParseUpload(file)
           entries == Entries(file, line, Indicator)
           reading(c) == [indicator |-> file.columns[c], value |-> Parse(file.columns[c], line.cells[c]),
                          numerator |-> None, denominator |-> None, row |-> line.at]
<1>1. /\ DOMAIN sheet.headers = DOMAIN file.columns /\ Layout(sheet) = "wide"
      /\ \A c \in DOMAIN file.columns : ResolveHeader(sheet.headers[c]) = file.columns[c]
    BY ColumnsAre
<1> HIDE DEF sheet
<1>2. Readings(sheet, line) = {reading(c) : c \in entries}
    <2>1. {c \in DOMAIN sheet.headers : /\ ResolveHeader(sheet.headers[c]) \in Indicator
                                        /\ ~IsMissing(line.cells[c])} = entries
        BY <1>1 DEF Entries
    <2>2. Readings(sheet, line) =
            {[indicator |-> ResolveHeader(sheet.headers[c]),
              value |-> Parse(ResolveHeader(sheet.headers[c]), line.cells[c]),
              numerator |-> None, denominator |-> None, row |-> line.at] : c \in entries}
        BY <1>1, <2>1 DEF Readings
    <2>3. \A c \in entries : ResolveHeader(sheet.headers[c]) = file.columns[c]
        BY <1>1 DEF Entries
    <2> HIDE DEF entries
    <2> QED BY <2>2, <2>3
<1>3. \A c : /\ reading(c).indicator = file.columns[c] /\ reading(c).row = line.at
             /\ reading(c).value = Parse(file.columns[c], line.cells[c])
    OBVIOUS
<1>4. line.carries = {<<file.columns[c], Parse(file.columns[c], line.cells[c])>> : c \in entries}
    BY DEF WideSays, Figure
<1> HIDE DEF reading, entries
<1>5. Told(Readings(sheet, line)) = line.carries
    BY <1>2, <1>3, <1>4 DEF Told
<1> QED BY <1>2, <1>3, <1>4, <1>5 DEF sheet

(* Else the figure of a line is that of the indicator it is about, or it   *)
(* yields none.                                                            *)
LEMMA LongReadings ==
    ASSUME NEW file, FilledIn(file), NEW line, ~HasColumn(file, Indicator), LongSays(file, line)
    PROVE  \/ Readings(ParseUpload(file), line) = {}
           \/ \E x : /\ Readings(ParseUpload(file), line) = {x} /\ x.row = line.at
                     /\ \/ x.value = None /\ line.carries = {}
                        \/ line.carries = {<<x.indicator, x.value>>}
<1> DEFINE sheet == ParseUpload(file)
           cell(f) == FirstPresent(line, Columns(sheet, f))
           labels == {line.cells[c] : c \in Entries(file, line, IndicatorFields)}
           named == {NamedBy(l) : l \in labels} \ {None}
           alike == {l.near : l \in labels} \ {None}
           about == IF named # {} THEN named ELSE alike
           ids == <<cell("indicator_code"), cell("indicator_number"), cell("indicator_name")>>
           i == ResolveIndicator(ids)
           x == [indicator |-> i, value |-> Parse(i, cell("value")),
                 numerator |-> ToNumber(cell("numerator")),
                 denominator |-> ToNumber(cell("denominator")), row |-> line.at]
<1>1. Readings(sheet, line) = IF i = None THEN {} ELSE {x}
    <2>1. Layout(sheet) = "long"
        BY ColumnsAre
    <2> HIDE DEF sheet, cell
    <2> QED BY <2>1 DEF Readings, cell
<1>2. /\ {NamedBy(ids[n]) : n \in 1..3} \ {None} = named
      /\ {ids[n].near : n \in 1..3} \ {None} = alike
    <2>1. \A f \in IndicatorFields :
             \/ Entries(file, line, {f}) = {} /\ cell(f) = Blank
             \/ \E c \in Entries(file, line, {f}) :
                   Entries(file, line, {f}) = {c} /\ cell(f) = line.cells[c]
        BY EntryIs DEF IndicatorFields, Field
    <2>2. Entries(file, line, IndicatorFields) = UNION {Entries(file, line, {f}) : f \in IndicatorFields}
        BY DEF Entries
    <2>3. NamedBy(Blank) = None /\ Blank.near = None
        BY DEF NamedBy, Blank, IsMissing
    <2>4. \A p : p \in {ids[n] : n \in 1..3} <=> \E f \in IndicatorFields : p = cell(f)
        <3>1. /\ ids[1] = cell("indicator_code") /\ ids[2] = cell("indicator_number")
              /\ ids[3] = cell("indicator_name")
            OBVIOUS
        <3>2. 1..3 = {1, 2, 3}
            OBVIOUS
        <3> HIDE DEF ids, cell
        <3> QED BY <3>1, <3>2 DEF IndicatorFields
    <2> HIDE DEF cell, ids, Blank
    <2>5. ASSUME NEW l \in labels
          PROVE  \E f \in IndicatorFields : l = cell(f)
        <3>1. PICK c \in Entries(file, line, IndicatorFields) : l = line.cells[c]
            OBVIOUS
        <3>2. PICK f \in IndicatorFields : c \in Entries(file, line, {f})
            BY <2>2, <3>1
        <3>3. cell(f) = line.cells[c]
            BY <2>1, <3>2
        <3> QED BY <3>1, <3>3
    <2>6. \A f \in IndicatorFields : cell(f) \in labels \/ cell(f) = Blank
        BY <2>1, <2>2
    <2>7. \A n \in 1..3 : ids[n] \in labels \/ ids[n] = Blank
        BY <2>4, <2>6
    <2>8. \A l \in labels : \E n \in 1..3 : l = ids[n]
        BY <2>4, <2>5
    <2> HIDE DEF labels
    <2> QED BY <2>3, <2>7, <2>8
<1>3. IF about = {} THEN i = None ELSE i \in about
    <2>1. DOMAIN ids = 1..3 /\ IsFiniteSet(1..3) /\ 1..3 \subseteq Int
        <3>1. DOMAIN ids = 1..3 /\ 1..3 \subseteq Int
            OBVIOUS
        <3> QED BY <3>1, ListsFinite
    <2> HIDE DEF ids, named, alike
    <2> QED BY <1>2, <2>1, ResolvedIs
<1>4. \A j \in about : line.carries = {Figure(j, line.cells[c]) : c \in Entries(file, line, {"value"})}
    BY DEF LongSays
<1>5. \/ Entries(file, line, {"value"}) = {} /\ cell("value") = Blank
      \/ \E c \in Entries(file, line, {"value"}) :
            Entries(file, line, {"value"}) = {c} /\ cell("value") = line.cells[c]
    <2>1. "value" \in Field \ {"other"}
        BY DEF Field
    <2> HIDE DEF sheet
    <2> QED BY <2>1, EntryIs DEF sheet
<1>6. Parse(i, Blank) = None
    BY DEF Parse, ToNumber, ToBoolean, IsMissing, Blank
<1>7. x.indicator = i /\ x.value = Parse(i, cell("value")) /\ x.row = line.at
    OBVIOUS
<1> HIDE DEF x, about, cell, Blank, i
<1>8. CASE i = None
    BY <1>1, <1>8 DEF sheet
<1>9. CASE i # None
    <2>1. line.carries = {Figure(i, line.cells[c]) : c \in Entries(file, line, {"value"})}
        BY <1>3, <1>4, <1>9
    <2>2. \/ x.value = None /\ line.carries = {}
          \/ line.carries = {<<x.indicator, x.value>>}
        BY <1>5, <1>6, <1>7, <2>1 DEF Figure
    <2> QED BY <1>1, <1>7, <1>9, <2>2 DEF sheet
<1> QED BY <1>8, <1>9

(* Of every template that can be trusted the figures stored are those its  *)
(* lines carry, and of those it carries no more are lost than the lines    *)
(* that are counted: such a line carried one.                              *)
LEMMA TemplatesAreKept ==
    ASSUME NEW r, FromTemplate(r), ~Drifted(r.file)
    PROVE  /\ \A reading \in r.rows :
                 \/ reading.value = None
                 \/ \E line \in Range(r.file.lines) :
                       /\ line.at = reading.row
                       /\ <<reading.indicator, reading.value>> \in line.carries
           /\ Cardinality(Meant(r.file) \ Told(r.rows)) <= r.unmapped
<1> DEFINE file == r.file
           sheet == ParseUpload(file)
           line(n) == file.lines[n]
           of(n) == Readings(sheet, sheet.rows[n])
           left == {n \in DOMAIN sheet.rows : of(n) = {}}
           lost == Meant(file) \ Told(r.rows)
<1>1. /\ FilledIn(file)
      /\ r.rows = MapRows(sheet).values /\ r.unmapped = MapRows(sheet).unmapped
    BY FilesAssumption DEF FromTemplate
<1>2. /\ r.rows = UNION {of(n) : n \in DOMAIN sheet.rows}
      /\ r.unmapped = Cardinality(left)
    BY <1>1 DEF MapRows
<1>3. /\ DOMAIN sheet.rows = {n \in DOMAIN file.lines :
             n > file.heading /\ Present(line(n)) # {} /\ ~IsSectionBanner(line(n))}
      /\ \A n \in DOMAIN sheet.rows : sheet.rows[n] = line(n)
    BY <1>1, SheetIs
<1>4. DOMAIN file.lines \subseteq Nat /\ IsFiniteSet(DOMAIN file.lines) /\ file.heading \in Nat
    BY <1>1 DEF FilledIn, HeadingStands
<1>5. ASSUME NEW n \in DOMAIN sheet.rows
      PROVE  IF HasColumn(file, Indicator) THEN WideSays(file, line(n)) ELSE LongSays(file, line(n))
    <2>1. ~(n <= file.heading \/ Present(line(n)) = {} \/ IsSectionBanner(line(n)))
        BY <1>3, <1>4
    <2> QED BY <1>1, <1>3, <2>1 DEF FilledIn
<1>6. ASSUME NEW n \in DOMAIN file.lines, n \notin DOMAIN sheet.rows
      PROVE  line(n).carries = {}
    <2>1. n <= file.heading \/ Present(line(n)) = {} \/ IsSectionBanner(line(n))
        BY <1>3, <1>4, <1>6
    <2> QED BY <1>1, <2>1 DEF FilledIn
<1>7. ASSUME NEW n \in DOMAIN sheet.rows
      PROVE  /\ \A x \in of(n) : /\ x.row = line(n).at
                                 /\ \/ x.value = None
                                    \/ <<x.indicator, x.value>> \in line(n).carries
             /\ of(n) # {} => line(n).carries \subseteq Told(of(n))
             /\ of(n) = {} => \A f, g \in line(n).carries : f = g
    <2>1. sheet.rows[n] = line(n)
        BY <1>3
    <2>2. CASE HasColumn(file, Indicator)
        <3>1. /\ Told(of(n)) = line(n).carries
              /\ \A x \in of(n) : x.row = line(n).at
              /\ of(n) = {} => line(n).carries = {}
            BY <1>1, <1>5, <2>1, <2>2, WideReadings
        <3> HIDE DEF of, line
        <3> QED BY <3>1 DEF Told
    <2>3. CASE ~HasColumn(file, Indicator)
        <3>1. /\ \/ of(n) = {}
                 \/ \E x : /\ of(n) = {x} /\ x.row = line(n).at
                           /\ \/ x.value = None /\ line(n).carries = {}
                              \/ line(n).carries = {<<x.indicator, x.value>>}
              /\ \A f, g \in line(n).carries : f = g
            <4>1. LongSays(file, line(n))
                BY <1>5, <2>3
            <4>2. \A f, g \in line(n).carries : f = g
                BY <4>1 DEF LongSays
            <4> QED BY <1>1, <2>1, <2>3, <4>1, <4>2, LongReadings
        <3> HIDE DEF of, line
        <3> QED BY <3>1 DEF Told
    <2> QED BY <2>2, <2>3
<1> HIDE DEF sheet, of, line
<1>8. ASSUME NEW reading \in r.rows, reading.value # None
      PROVE  \E l \in Range(file.lines) :
                l.at = reading.row /\ <<reading.indicator, reading.value>> \in l.carries
    <2>1. PICK n \in DOMAIN sheet.rows : reading \in of(n)
        BY <1>2
    <2>2. line(n) \in Range(file.lines)
        BY <1>3 DEF Range, line
    <2> QED BY <1>7, <1>8, <2>1, <2>2
<1>9. ASSUME NEW f \in lost
      PROVE  \E n \in left : f \in line(n).carries
    <2>1. PICK n \in DOMAIN file.lines : f \in line(n).carries
        BY DEF Meant, Range, line
    <2>2. n \in DOMAIN sheet.rows
        BY <1>6, <2>1
    <2>3. of(n) \subseteq r.rows
        BY <1>2, <2>2
    <2>4. f \notin Told(of(n))
        BY <2>3 DEF Told
    <2> QED BY <1>7, <2>1, <2>2, <2>4
<1>10. Cardinality(lost) <= Cardinality(left)
    <2> DEFINE where == [f \in lost |-> CHOOSE n \in left : f \in line(n).carries]
    <2>1. IsFiniteSet(left)
        <3>1. left \in SUBSET DOMAIN file.lines
            BY <1>3
        <3> QED BY <1>4, <3>1, FS_Subset
    <2>2. \A f \in lost : where[f] \in left /\ f \in line(where[f]).carries
        <3> HIDE DEF lost, left
        <3> QED BY <1>9
    <2>3. \A n \in left : \A f, g \in line(n).carries : f = g
        BY <1>7
    <2>4. where \in Injection(lost, left)
        <3>1. where \in [lost -> left]
            BY <2>2
        <3>2. \A f, g \in lost : where[f] = where[g] => f = g
            <4> HIDE DEF lost, left, where
            <4> QED BY <2>2, <2>3
        <3> HIDE DEF lost, left, where
        <3> QED BY <3>1, <3>2 DEF Injection, IsInjective
    <2> HIDE DEF lost, left, where
    <2> QED BY <2>1, <2>4, FS_Injection
<1> QED BY <1>2, <1>8, <1>10

-----------------------------------------------------------------------------
(* Whatever files come in by either door, in whatever order, and wherever  *)
(* a load is cut short: a figure is stored under the indicator it was      *)
(* given for.                                                              *)
THEOREM FiguresAreWhatWasAskedAlways == Spec => []FiguresAreWhatWasAsked
<1>1. Provenance => FiguresAreWhatWasAsked
    <2> SUFFICES ASSUME Provenance, NEW u \in DOMAIN returns, NEW reading \in returns[u].rows
                 PROVE  LET i == reading.indicator
                        IN  IF FromKobo(returns[u])
                            THEN \E cell \in Given(returns[u], i) : reading.value = Parse(i, cell)
                            ELSE \/ reading.value = None \/ Drifted(returns[u].file)
                                 \/ \E line \in Range(returns[u].file.lines) :
                                       line.at = reading.row /\ <<i, reading.value>> \in line.carries
        BY DEF FiguresAreWhatWasAsked
    <2>1. FromExport(returns[u]) \/ FromTemplate(returns[u])
        BY DEF Provenance, Sourced
    <2>2. CASE FromExport(returns[u])
        BY <2>2, ExportsAreKept
    <2>3. CASE FromTemplate(returns[u])
        <3>1. ~FromKobo(returns[u])
            BY <2>3 DEF FromTemplate, FromKobo
        <3> QED BY <2>3, <3>1, TemplatesAreKept
    <2> QED BY <2>1, <2>2, <2>3
<1> QED BY <1>1, AlwaysProvenance, PTL

(* ... and what was answered or filled in is in the return, listed as      *)
(* unreadable or counted; nothing that was not given is a zero.            *)
THEOREM AnswersAreKeptAlways == Spec => []AnswersAreKept
<1>1. Provenance => AnswersAreKept
    <2> SUFFICES ASSUME Provenance, NEW u \in DOMAIN returns
                 PROVE  LET r == returns[u]
                            stored == {reading.indicator : reading \in r.rows}
                        IN  IF FromKobo(r)
                            THEN \A i \in Indicator : \A cell \in Given(r, i) :
                                    /\ cell.kind = "NUMBER" => i \in stored
                                    /\ \/ i \in stored \/ i \in Unreadable(r.file, r.name)
                                       \/ IsMissing(cell)
                                    /\ \A reading \in r.rows :
                                          reading.indicator = i /\ reading.value = 0 =>
                                             \E zero \in Given(r, i) :
                                                \/ zero.kind = "NO"
                                                \/ /\ zero.kind = "NUMBER"
                                                   /\ IF Catalogue[i].boolean THEN zero.number < 1
                                                                              ELSE zero.number = 0
                            ELSE \/ Drifted(r.file)
                                 \/ Cardinality(Meant(r.file) \ Told(r.rows)) <= r.unmapped
        BY DEF AnswersAreKept, Told
    <2>1. FromExport(returns[u]) \/ FromTemplate(returns[u])
        BY DEF Provenance, Sourced
    <2>2. CASE FromExport(returns[u])
        <3>1. FromKobo(returns[u])
            BY <2>2, ExportsAreKept
        <3> QED BY <2>2, <3>1, ExportsAreKept
    <2>3. CASE FromTemplate(returns[u])
        <3>1. ~FromKobo(returns[u])
            BY <2>3 DEF FromTemplate, FromKobo
        <3> QED BY <2>3, <3>1, TemplatesAreKept
    <2> QED BY <2>1, <2>2, <2>3
<1> QED BY <1>1, AlwaysProvenance, PTL
=============================================================================
