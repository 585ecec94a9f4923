------------------------ MODULE ReturnsFiguresProofs ------------------------
(***************************************************************************)
(* What Returns keeps about figures: the counts stored on a return, the    *)
(* trail of revisions of a figure, and that only an accepted response      *)
(* moves one.                                                              *)
(*                                                                         *)
(* The helpers that relabel figures or move queries leave the counts of    *)
(* some returns out of date until RefreshCounts, which they call last:     *)
(* SoundBut(d, S) says that all is well but for the counts of S.           *)
(***************************************************************************)
EXTENDS ReturnsProofs

(* The revisions of a figure lead from what was reported to what it says,  *)
(* and the original is where they start or, if that was a blank, the first *)
(* correction.                                                             *)
Explained(row) ==
    LET n == Len(row.trail)
    IN  /\ row.restated <=> n > 0
        /\ row.value = IF n = 0 THEN row.original ELSE row.trail[n].new
        /\ n > 0 => row.original = Origin(row.trail)
        /\ \A k \in 1..(n - 1) : row.trail[k].new = row.trail[k + 1].previous

CountedAt(d, s) ==
    /\ d.submission[s].heldCount = Cardinality(HeldOn(d, s))
    /\ d.submission[s].openCount <= Cardinality(OpenQueriesOn(d, s))

(* No figure is without its return, every figure is explained, and the     *)
(* counts of every return outside S are right.                             *)
SoundBut(d, S) ==
    /\ \A v \in DOMAIN d.value : v[1] \in DOMAIN d.submission /\ Explained(d.value[v])
    /\ \A s \in DOMAIN d.submission \ S : CountedAt(d, s)

Sound(d) == SoundBut(d, {})

(* No figure is lost and none says something else.                         *)
SameFigures(d, e) ==
    \A v \in DOMAIN d.value : v \in DOMAIN e.value /\ e.value[v].value = d.value[v].value

(* Two helpers that move no figure, one after the other, move none.        *)
LEMMA SameFiguresTransitive ==
    ASSUME NEW d, NEW e, NEW f, SameFigures(d, e), SameFigures(e, f)
    PROVE  SameFigures(d, f)
BY DEF SameFigures

(* The counts only look at the figures and the queries.                    *)
LEMMA CountsLookAt ==
    ASSUME NEW d, NEW e, e.value = d.value, e.query = d.query
    PROVE  \A s : HeldOn(e, s) = HeldOn(d, s) /\ OpenQueriesOn(e, s) = OpenQueriesOn(d, s)
BY DEF HeldOn, OpenQueriesOn, IsOpen

(* RefreshCounts puts the counts of S right.                               *)
LEMMA RefreshSound ==
    ASSUME NEW d, Tables(d), NEW S, SoundBut(d, S)
    PROVE  Sound(RefreshCounts(d, S)) /\ SameFigures(d, RefreshCounts(d, S))
<1> DEFINE e == RefreshCounts(d, S)
           recounted(s) == [d.submission[s] EXCEPT !.openCount = Cardinality(OpenQueriesOn(d, s)),
                                                   !.heldCount = Cardinality(HeldOn(d, s))]
           rows == [s \in DOMAIN d.submission |->
                      IF s \in S THEN recounted(s) ELSE d.submission[s]]
<1>1. e.value = d.value /\ e.query = d.query /\ DOMAIN e.submission = DOMAIN d.submission
    BY RefreshKeeps DEF Keeps
<1>2. e.submission = rows
    BY DEF RefreshCounts, Tables
<1>3. \A s \in DOMAIN d.submission :
         /\ recounted(s).openCount = Cardinality(OpenQueriesOn(d, s))
         /\ recounted(s).heldCount = Cardinality(HeldOn(d, s))
    BY DEF Tables, Table, Submission
<1> HIDE DEF e, recounted
<1>4. ASSUME NEW s \in DOMAIN d.submission
      PROVE  CountedAt(e, s)
    <2>1. CASE s \in S
        <3>1. Cardinality(OpenQueriesOn(d, s)) \in Nat
            BY Counts
        <3>2. e.submission[s] = recounted(s)
            BY <1>2, <2>1
        <3> QED BY <1>1, <1>3, <3>1, <3>2, CountsLookAt DEF CountedAt
    <2>2. CASE s \notin S
        <3>1. e.submission[s] = d.submission[s] /\ CountedAt(d, s)
            BY <1>2, <2>2 DEF SoundBut
        <3> QED BY <1>1, <3>1, CountsLookAt DEF CountedAt
    <2> QED BY <2>1, <2>2
<1> QED BY <1>1, <1>4 DEF Sound, SoundBut, SameFigures, e

(* Returns are rewritten and keep their counts.                            *)
LEMMA RowsSound ==
    ASSUME NEW d, NEW e, NEW S, SoundBut(d, S), e.value = d.value, e.query = d.query,
           DOMAIN e.submission = DOMAIN d.submission,
           \A s \in DOMAIN d.submission :
              /\ e.submission[s].openCount = d.submission[s].openCount
              /\ e.submission[s].heldCount = d.submission[s].heldCount
    PROVE  SoundBut(e, S) /\ SameFigures(d, e)
BY CountsLookAt DEF SoundBut, CountedAt, SameFigures

(* A relabelled figure says the same for the same reasons.                 *)
LEMMA LabelExplained ==
    ASSUME NEW row \in Value, NEW label, Explained(row)
    PROVE  LET new == [row EXCEPT !.label = label]
           IN  Explained(new) /\ new.value = row.value /\ new.label = label
BY DEF Explained, Value

(* Figures are relabelled and queries rewritten, of the returns in S only. *)
Relabels(d, e, S) ==
    /\ e.submission = d.submission /\ DOMAIN e.value = DOMAIN d.value
    /\ \A v \in DOMAIN d.value : e.value[v] = [d.value[v] EXCEPT !.label = e.value[v].label]
    /\ \A v \in DOMAIN d.value : v[1] \notin S => e.value[v].label = d.value[v].label
    /\ \A s \in DOMAIN d.submission \ S : OpenQueriesOn(e, s) = OpenQueriesOn(d, s)

(* That is sound but for the counts of these returns.                      *)
LEMMA RelabelSound ==
    ASSUME NEW d, Tables(d), NEW S, SoundBut(d, S), NEW e, Relabels(d, e, S)
    PROVE  SoundBut(e, S) /\ SameFigures(d, e)
<1> USE DEF Relabels
<1>1. ASSUME NEW v \in DOMAIN d.value
      PROVE  Explained(e.value[v]) /\ e.value[v].value = d.value[v].value
    <2>1. d.value[v] \in Value /\ Explained(d.value[v])
        BY DEF SoundBut, Tables, Table
    <2>2. LET new == [d.value[v] EXCEPT !.label = e.value[v].label]
          IN  Explained(new) /\ new.value = d.value[v].value
        BY <2>1, LabelExplained
    <2> QED BY <2>2
<1>2. \A s \in DOMAIN d.submission \ S : HeldOn(e, s) = HeldOn(d, s)
    <2> SUFFICES ASSUME NEW s \in DOMAIN d.submission \ S PROVE HeldOn(e, s) = HeldOn(d, s)
        OBVIOUS
    <2>1. \A v \in DOMAIN d.value : v[1] = s => e.value[v].label = d.value[v].label
        OBVIOUS
    <2> QED BY <2>1 DEF HeldOn
<1> QED BY <1>1, <1>2 DEF SoundBut, CountedAt, SameFigures

(* CarryForward touches the labels of s, and the queries of s and of the   *)
(* returns they came from, and recounts all of these.                      *)
LEMMA CarriedSound ==
    ASSUME NEW d, Tables(d), Sound(d), NEW S, NEW s \in SubmissionId
    PROVE  LET e == Carried(d, S, s)
           IN  /\ SoundBut(e, Touched(d, S, s)) /\ SameFigures(d, e)
               /\ DOMAIN e.value = DOMAIN d.value
<1> DEFINE moved == Moved(d, S)
           label(v) == Relabel(d.value[v].label,
                               \E q \in OnFigure(d, S, s, v) : d.query[q].severity = "ERROR",
                               OnFigure(d, S, s, v) # {})
           queries == [q \in DOMAIN d.query |->
                         IF q \in moved THEN [d.query[q] EXCEPT !.submission = s]
                                        ELSE d.query[q]]
           values == [v \in DOMAIN d.value |-> [d.value[v] EXCEPT !.label = label(v)]]
           touched == Touched(d, S, s)
           e == Carried(d, S, s)
<1>1. e.submission = d.submission /\ e.value = values /\ e.query = queries
    <2>1. Carried(d, S, s) = [d EXCEPT !.query = queries, !.value = values]
        BY DEF Carried
    <2> HIDE DEF values, queries
    <2> QED BY <2>1 DEF Tables
<1>2. ASSUME NEW v \in DOMAIN d.value
      PROVE  /\ values[v] = [d.value[v] EXCEPT !.label = values[v].label]
             /\ v[1] \notin touched => values[v].label = d.value[v].label
    <2>1. d.value[v] \in Value
        BY DEF Tables, Table
    <2>2. values[v] = [d.value[v] EXCEPT !.label = values[v].label]
        <3> HIDE DEF label
        <3> QED BY <2>1 DEF Value
    <2>3. CASE v[1] \notin touched
        <3>1. OnFigure(d, S, s, v) = {}
            BY <2>3 DEF OnFigure, Touched
        <3>2. label(v) = d.value[v].label
            BY <3>1 DEF Relabel
        <3> HIDE DEF label
        <3> QED BY <2>1, <3>2 DEF Value
    <2> QED BY <2>2, <2>3
<1>3. ASSUME NEW t \in DOMAIN d.submission \ touched
      PROVE  OpenQueriesOn(e, t) = OpenQueriesOn(d, t)
    <2>1. ASSUME NEW q \in DOMAIN d.query
          PROVE  /\ queries[q].submission = t <=> d.query[q].submission = t
                 /\ queries[q].status = d.query[q].status
        <3>1. d.query[q] \in Query
            BY DEF Tables, Table
        <3>2. CASE q \in moved
            <4>1. queries[q] = [d.query[q] EXCEPT !.submission = s]
                BY <3>2
            <4>2. queries[q].submission = s /\ queries[q].status = d.query[q].status
                BY <3>1, <4>1 DEF Query
            <4>3. t # s /\ t # d.query[q].submission
                BY <3>2 DEF Touched
            <4> QED BY <4>2, <4>3
        <3>3. CASE q \notin moved
            <4>1. queries[q] = d.query[q]
                BY <3>3
            <4> HIDE DEF queries
            <4> QED BY <4>1
        <3> QED BY <3>2, <3>3
    <2>2. DOMAIN queries = DOMAIN d.query
        OBVIOUS
    <2> HIDE DEF queries, e
    <2> QED BY <1>1, <2>1, <2>2 DEF OpenQueriesOn, IsOpen
<1>4. DOMAIN values = DOMAIN d.value /\ SoundBut(d, touched)
    BY DEF Sound, SoundBut
<1> HIDE DEF values, queries, e, touched, label
<1>5. Relabels(d, e, touched)
    BY <1>1, <1>2, <1>3, <1>4 DEF Relabels
<1>6. SoundBut(e, touched) /\ SameFigures(d, e)
    BY <1>4, <1>5, RelabelSound
<1> QED BY <1>1, <1>4, <1>6 DEF e, touched

(* The recount at the end of CarryForward leaves nothing out of date.      *)
LEMMA CarrySound ==
    ASSUME NEW d, Tables(d), Sound(d), NEW S, NEW s \in SubmissionId
    PROVE  LET e == CarryForward(d, S, s)
           IN  Sound(e) /\ SameFigures(d, e) /\ DOMAIN e.value = DOMAIN d.value
<1>1. Tables(Carried(d, S, s))
    BY CarriedKeeps DEF Keeps
<1>2. Sound(RefreshCounts(Carried(d, S, s), Touched(d, S, s)))
      /\ SameFigures(Carried(d, S, s), RefreshCounts(Carried(d, S, s), Touched(d, S, s)))
      /\ RefreshCounts(Carried(d, S, s), Touched(d, S, s)).value = Carried(d, S, s).value
    BY <1>1, CarriedSound, RefreshSound, RefreshKeeps
<1>3. SameFigures(d, d)
    BY DEF SameFigures
<1> QED BY <1>2, <1>3, CarryIs, CarriedSound, SameFiguresTransitive

(* Retiring the versions in force leaves figures and counts alone.         *)
LEMMA SupersedeSound ==
    ASSUME NEW d, Tables(d), Sound(d), NEW s \in DOMAIN d.submission
    PROVE  LET e == SupersedePrevious(d, s)
           IN  Sound(e) /\ SameFigures(d, e) /\ DOMAIN e.value = DOMAIN d.value
<1> DEFINE previous == {t \in DOMAIN d.submission :
                          t # s /\ SameUnit(d, s, t) /\ d.submission[t].current}
           retired(row) == [row EXCEPT !.current = FALSE,
                                       !.status = IF @ = "APPROVED" THEN "SUPERSEDED" ELSE @]
           rows == [t \in DOMAIN d.submission |->
                      IF t \in previous THEN retired(d.submission[t]) ELSE d.submission[t]]
           swept == [d EXCEPT !.submission = rows]
<1>1. SupersedePrevious(d, s) = CarryForward(swept, previous, s)
    BY DEF SupersedePrevious
<1>2. ASSUME NEW t \in DOMAIN d.submission
      PROVE  /\ rows[t] \in Submission
             /\ rows[t].openCount = d.submission[t].openCount
             /\ rows[t].heldCount = d.submission[t].heldCount
    <2>1. d.submission[t] \in Submission
        BY DEF Tables, Table
    <2>2. CASE t \in previous
        BY <2>1, <2>2, Retired DEF Submission
    <2>3. CASE t \notin previous
        <3>1. rows[t] = d.submission[t]
            BY <2>3
        <3> HIDE DEF rows
        <3> QED BY <2>1, <3>1
    <2> QED BY <2>2, <2>3
<1>3. DOMAIN rows = DOMAIN d.submission
    OBVIOUS
<1>4. Table(rows, SubmissionId, Submission)
    BY <1>2 DEF Tables, Table
<1> HIDE DEF rows, previous
<1>5. /\ Tables(swept) /\ swept.submission = rows
      /\ swept.value = d.value /\ swept.query = d.query
    BY <1>4, ReplaceSubmission
<1> HIDE DEF swept
<1>6. Sound(swept) /\ SameFigures(d, swept)
    BY <1>2, <1>3, <1>5, RowsSound DEF Sound
<1>7. s \in SubmissionId
    BY DEF Tables, Table
<1> DEFINE e == CarryForward(swept, previous, s)
<1>8. Sound(e) /\ SameFigures(swept, e) /\ DOMAIN e.value = DOMAIN swept.value
    BY <1>5, <1>6, <1>7, CarrySound
<1> HIDE DEF e
<1> QED BY <1>1, <1>5, <1>6, <1>8, SameFiguresTransitive DEF e

(* A query that is opened was not open before, even if it had been raised. *)
LEMMA OpenedWasNotOpen ==
    ASSUME NEW d, NEW s, NEW q \in NewQueries(d, s), q \in DOMAIN d.query
    PROVE  ~IsOpen(d, q)
<1> DEFINE row == d.submission[s]
           raisedBy(f) == {o \in DOMAIN d.query :
                          /\ o.state = row.state /\ o.period = row.period
                          /\ o.rule = f.rule /\ o.indicator = f.indicator}
           missing == {g \in Queryable(d, s) : \A o \in raisedBy(g) : ~IsOpen(d, o)}
           id(f) == [state |-> row.state, period |-> row.period, rule |-> f.rule,
                     indicator |-> f.indicator, n |-> Cardinality(raisedBy(f)) + 1]
<1>1. NewQueries(d, s) = {id(f) : f \in missing}
    BY DEF NewQueries
<1>2. PICK f \in missing : q = id(f)
    BY <1>1
<1>3. q \in raisedBy(f)
    BY <1>2
<1> QED BY <1>2, <1>3

(* RaiseQueries labels and queries what is on the returns of S, and        *)
(* recounts them.                                                          *)
LEMMA RaiseSound ==
    ASSUME NEW d, Tables(d), Sound(d), NEW S \in SUBSET DOMAIN d.submission
    PROVE  Sound(RaiseQueries(d, S)) /\ SameFigures(d, RaiseQueries(d, S))
<1> DEFINE label(v) == Relabel(d.value[v].label, \E f \in FoundOn(d, S, v) : f.blocks,
                               FoundOn(d, S, v) # {})
           values == [v \in DOMAIN d.value |-> [d.value[v] EXCEPT !.label = label(v)]]
           queries == [q \in DOMAIN d.query \cup Opened(d, S) |->
                         IF q \in Opened(d, S) THEN Fresh(d, S, q) ELSE d.query[q]]
           e == Raised(d, S)
<1>1. e.submission = d.submission /\ e.value = values /\ e.query = queries
    <2>1. Raised(d, S) = [d EXCEPT !.value = values, !.query = queries]
        BY DEF Raised
    <2> HIDE DEF values, queries
    <2> QED BY <2>1 DEF Tables
<1>2. ASSUME NEW v \in DOMAIN d.value
      PROVE  /\ values[v] = [d.value[v] EXCEPT !.label = values[v].label]
             /\ v[1] \notin S => values[v].label = d.value[v].label
    <2>1. d.value[v] \in Value
        BY DEF Tables, Table
    <2>2. values[v] = [d.value[v] EXCEPT !.label = values[v].label]
        <3> HIDE DEF label
        <3> QED BY <2>1 DEF Value
    <2>3. CASE v[1] \notin S
        <3>1. label(v) = d.value[v].label
            BY <2>3 DEF Relabel, FoundOn
        <3> HIDE DEF label
        <3> QED BY <2>1, <3>1 DEF Value
    <2> QED BY <2>2, <2>3
<1>3. ASSUME NEW t \in DOMAIN d.submission \ S
      PROVE  OpenQueriesOn(e, t) = OpenQueriesOn(d, t)
    <2>1. \A q \in Opened(d, S) : queries[q].submission # t
        BY OpenedType DEF Fresh
    <2>2. \A q \in DOMAIN d.query \ Opened(d, S) : queries[q] = d.query[q]
        OBVIOUS
    <2>3. \A q \in DOMAIN d.query \cap Opened(d, S) : ~IsOpen(d, q)
        BY OpenedType, OpenedWasNotOpen
    <2>4. DOMAIN queries = DOMAIN d.query \cup Opened(d, S)
        OBVIOUS
    <2> HIDE DEF queries, e
    <2> QED BY <1>1, <2>1, <2>2, <2>3, <2>4 DEF OpenQueriesOn, IsOpen
<1>4. DOMAIN values = DOMAIN d.value /\ SoundBut(d, S)
    BY DEF Sound, SoundBut
<1>5. Tables(e)
    BY RaisedKeeps DEF Keeps
<1> HIDE DEF values, queries, e, label
<1>6. Relabels(d, e, S)
    BY <1>1, <1>2, <1>3, <1>4 DEF Relabels
<1>7. SoundBut(e, S) /\ SameFigures(d, e)
    BY <1>4, <1>6, RelabelSound
<1>8. Sound(RefreshCounts(e, S)) /\ SameFigures(e, RefreshCounts(e, S))
    BY <1>5, <1>7, RefreshSound
<1> QED BY <1>7, <1>8, RaiseIs, SameFiguresTransitive DEF e

(* A run of the rules replaces findings; the queries it opens are counted. *)
LEMMA ValidationSound ==
    ASSUME NEW d, Tables(d), Sound(d), NEW found
    PROVE  Sound(RunValidation(d, found)) /\ SameFigures(d, RunValidation(d, found))
<1> DEFINE new(s) == [d.submission[s] EXCEPT !.findings = found[s],
                        !.status = IF @ = "APPROVED" THEN @ ELSE "VALIDATED"]
           rows == [s \in DOMAIN d.submission |->
                      IF s \in DOMAIN found THEN new(s) ELSE d.submission[s]]
           e == RunValidation(d, found)
<1>1. e.submission = rows /\ e.value = d.value /\ e.query = d.query
    <2>1. e = [d EXCEPT !.submission = rows]
        BY DEF RunValidation
    <2> HIDE DEF rows, e
    <2> QED BY <2>1 DEF Tables
<1>2. ASSUME NEW s \in DOMAIN d.submission
      PROVE  /\ rows[s].openCount = d.submission[s].openCount
             /\ rows[s].heldCount = d.submission[s].heldCount
    <2>1. d.submission[s] \in Submission
        BY DEF Tables, Table
    <2> QED BY <2>1 DEF Submission
<1>3. DOMAIN rows = DOMAIN d.submission
    OBVIOUS
<1> HIDE DEF rows, e
<1> QED BY <1>1, <1>2, <1>3, RowsSound DEF Sound, e

(* Rules and queries together.                                             *)
LEMMA CheckSound ==
    ASSUME NEW d, Tables(d), Sound(d), NEW S \in SUBSET InForce(d), NEW raise,
           NEW found, DOMAIN found = S, \A s \in S : found[s] \in SUBSET Finding
    PROVE  Sound(Check(d, found, raise)) /\ SameFigures(d, Check(d, found, raise))
<1> DEFINE checked == RunValidation(d, found)
<1>1. Keeps(d, checked) /\ Sound(checked) /\ SameFigures(d, checked)
    BY ValidationKeeps, ValidationSound
<1>2. Check(d, found, raise) = IF raise THEN RaiseQueries(checked, S) ELSE checked
    BY DEF Check
<1> HIDE DEF checked
<1>3. Sound(RaiseQueries(checked, S)) /\ SameFigures(checked, RaiseQueries(checked, S))
    BY <1>1, RaiseSound DEF Keeps, InForce
<1> QED BY <1>1, <1>2, <1>3, SameFiguresTransitive

(* A new return has no figures, so none that is held.                      *)
LEMMA AddedSound ==
    ASSUME NEW d, Tables(d), Sound(d), NEW s \in SubmissionId, s \notin DOMAIN d.submission,
           NEW st \in State, NEW p \in Period
    PROVE  LET e == AddSubmission(d, s, st, p)
           IN  Sound(e) /\ e.value = d.value /\ \A v \in DOMAIN d.value : v[1] # s
<1> DEFINE e == AddSubmission(d, s, st, p)
           row == [state |-> st, period |-> p, version |-> NextVersion(d, st, p),
                   status |-> "UPLOADED", current |-> TRUE, findings |-> {},
                   openCount |-> 0, heldCount |-> 0]
           rows == [t \in DOMAIN d.submission \cup {s} |->
                      IF t = s THEN row ELSE d.submission[t]]
<1>1. e.submission = rows /\ e.value = d.value /\ e.query = d.query
    <2>1. e = [d EXCEPT !.submission = rows]
        BY DEF AddSubmission
    <2> HIDE DEF rows, e
    <2> QED BY <2>1 DEF Tables
<1>2. \A v \in DOMAIN d.value : v[1] # s
    BY DEF Sound, SoundBut
<1>3. rows[s].openCount = 0 /\ rows[s].heldCount = 0
    OBVIOUS
<1>4. \A t \in DOMAIN d.submission : rows[t] = d.submission[t]
    OBVIOUS
<1>5. DOMAIN rows = DOMAIN d.submission \cup {s}
    OBVIOUS
<1> HIDE DEF rows, row, e
<1>6. CountedAt(e, s)
    <2>1. HeldOn(d, s) = {}
        BY <1>2 DEF HeldOn
    <2>2. Cardinality(HeldOn(e, s)) = 0
        BY <1>1, <2>1, CountsLookAt, FS_EmptySet
    <2>3. Cardinality(OpenQueriesOn(e, s)) \in Nat
        BY <1>1, CountsLookAt, Counts
    <2> QED BY <1>1, <1>3, <2>2, <2>3 DEF CountedAt
<1>7. \A t \in DOMAIN d.submission : CountedAt(e, t)
    BY <1>1, <1>4, CountsLookAt DEF Sound, SoundBut, CountedAt
<1>8. Sound(e)
    BY <1>1, <1>5, <1>6, <1>7 DEF Sound, SoundBut
<1> QED BY <1>1, <1>2, <1>8 DEF e

(* Its figures come in as reported and clean.                              *)
LEMMA PersistSound ==
    ASSUME NEW d, Tables(d), Sound(d), NEW s \in DOMAIN d.submission,
           \A v \in DOMAIN d.value : v[1] # s, NEW report \in Reports
    PROVE  Sound(PersistValues(d, s, report)) /\ SameFigures(d, PersistValues(d, s, report))
<1> DEFINE e == PersistValues(d, s, report)
           arrived == {s} \X DOMAIN report
           first(v) == [value |-> report[v[2]], original |-> report[v[2]], restated |-> FALSE,
                        label |-> "CLEAN", trail |-> <<>>]
           rows == [v \in DOMAIN d.value \cup arrived |-> IF v \in arrived THEN first(v) ELSE d.value[v]]
<1>1. e.submission = d.submission /\ e.value = rows /\ e.query = d.query
    <2>1. e = [d EXCEPT !.value = rows]
        BY DEF PersistValues
    <2> HIDE DEF rows, e
    <2> QED BY <2>1 DEF Tables
<1>2. ASSUME NEW v \in arrived
      PROVE  Explained(first(v)) /\ IsValid(first(v).label)
    BY DEF Explained, IsValid
<1>3. \A v \in arrived : v[1] = s
    OBVIOUS
<1> HIDE DEF first, arrived
<1>4. /\ \A v \in arrived : rows[v] = first(v)
      /\ \A v \in DOMAIN d.value : v \notin arrived /\ rows[v] = d.value[v]
      /\ DOMAIN rows = DOMAIN d.value \cup arrived
    BY <1>3
<1> HIDE DEF rows, e
<1>5. ASSUME NEW t
      PROVE  HeldOn(e, t) = HeldOn(d, t) /\ OpenQueriesOn(e, t) = OpenQueriesOn(d, t)
    BY <1>1, <1>2, <1>4 DEF HeldOn, OpenQueriesOn, IsOpen
<1>6. \A t \in DOMAIN d.submission : CountedAt(e, t)
    BY <1>1, <1>5 DEF Sound, SoundBut, CountedAt
<1>7. \A v \in DOMAIN rows : v[1] \in DOMAIN d.submission /\ Explained(rows[v])
    BY <1>2, <1>3, <1>4 DEF Sound, SoundBut
<1>8. SameFigures(d, e)
    BY <1>1, <1>4 DEF SameFigures
<1> QED BY <1>1, <1>6, <1>7, <1>8 DEF Sound, SoundBut, e

(* A decision on a return is no matter of its figures.                     *)
LEMMA DecisionSound ==
    ASSUME NEW d, Tables(d), Sound(d), NEW s \in DOMAIN d.submission, NEW status, NEW current
    PROVE  LET e == [d EXCEPT !.submission[s].status = status, !.submission[s].current = current]
           IN  Sound(e) /\ SameFigures(d, e)
<1> DEFINE row == [d.submission[s] EXCEPT !.status = status, !.current = current]
           rows == [d.submission EXCEPT ![s] = row]
           e == [d EXCEPT !.submission[s].status = status, !.submission[s].current = current]
<1>1. e.submission = rows /\ e.value = d.value /\ e.query = d.query
    BY DEF Tables
<1>2. row.openCount = d.submission[s].openCount /\ row.heldCount = d.submission[s].heldCount
    BY DEF Tables, Table, Submission
<1> HIDE DEF row
<1>3. /\ DOMAIN rows = DOMAIN d.submission /\ rows[s] = row
      /\ \A t \in DOMAIN d.submission \ {s} : rows[t] = d.submission[t]
    OBVIOUS
<1> HIDE DEF rows, e
<1>4. \A t \in DOMAIN d.submission : /\ e.submission[t].openCount = d.submission[t].openCount
                                     /\ e.submission[t].heldCount = d.submission[t].heldCount
    BY <1>1, <1>2, <1>3
<1> QED BY <1>1, <1>3, <1>4, RowsSound DEF Sound, e

(* The flag of a settled query comes off its figure and the return is      *)
(* recounted.                                                              *)
LEMMA ReleaseSound ==
    ASSUME NEW d, Tables(d), Sound(d), NEW q \in DOMAIN d.query
    PROVE  LET e == ReleaseQuarantine(d, q)
           IN  SoundBut(e, {d.query[q].submission}) /\ SameFigures(d, e)
<1> DEFINE S == {d.query[q].submission}
           v == <<d.query[q].submission, q.indicator>>
           others == {o \in OpenQueriesOn(d, v[1]) \ {q} : o.indicator = q.indicator}
           label == Cleared(d.value[v].restated)
           rows == [d.value EXCEPT ![v].label = label]
           e == ReleaseQuarantine(d, q)
<1>1. SoundBut(d, S)
    BY DEF Sound, SoundBut
<1>2. CASE v \in DOMAIN d.value /\ ~IsValid(d.value[v].label) /\ others = {}
    <2>1. e = [d EXCEPT !.value[v].label = label]
        BY <1>2 DEF ReleaseQuarantine
    <2>2. e.submission = d.submission /\ e.value = rows /\ e.query = d.query
        <3> HIDE DEF v, label, e
        <3> QED BY <2>1 DEF Tables
    <2>3. ASSUME NEW w \in DOMAIN d.value
          PROVE  /\ rows[w] = [d.value[w] EXCEPT !.label = rows[w].label]
                 /\ w[1] \notin S => rows[w].label = d.value[w].label
        <3>1. d.value[w] \in Value
            BY DEF Tables, Table
        <3>2. CASE w = v
            <4>1. w[1] \in S
                BY <3>2
            <4>2. rows[w] = [d.value[w] EXCEPT !.label = label]
                BY <3>2
            <4> HIDE DEF rows, v, label
            <4> QED BY <3>1, <4>1, <4>2 DEF Value
        <3>3. CASE w # v
            <4>1. rows[w] = d.value[w]
                BY <3>3
            <4> HIDE DEF rows, v
            <4> QED BY <3>1, <4>1 DEF Value
        <3> QED BY <3>2, <3>3
    <2>4. DOMAIN rows = DOMAIN d.value
        OBVIOUS
    <2> HIDE DEF rows, e, S
    <2>5. \A t : OpenQueriesOn(e, t) = OpenQueriesOn(d, t)
        BY <2>2 DEF OpenQueriesOn, IsOpen
    <2>6. Relabels(d, e, S)
        BY <2>2, <2>3, <2>4, <2>5 DEF Relabels
    <2> QED BY <1>1, <2>6, RelabelSound DEF e, S
<1>3. CASE ~(v \in DOMAIN d.value /\ ~IsValid(d.value[v].label) /\ others = {})
    <2>1. e = d
        BY <1>3 DEF ReleaseQuarantine
    <2> HIDE DEF e
    <2> QED BY <1>1, <2>1 DEF SameFigures, e
<1> QED BY <1>2, <1>3

(* The recount covers what the release and the new status disturbed.       *)
LEMMA SettledSound ==
    ASSUME NEW d, Tables(d), Sound(d), NEW q \in DOMAIN d.query, NEW status \in QueryStatus
    PROVE  LET e == Settle(ReleaseQuarantine(d, q), q, status)
           IN  /\ Sound(e) /\ SameFigures(d, e)
               /\ q \in DOMAIN e.query /\ e.query[q].status = status
<1> DEFINE S == {d.query[q].submission}
           r == ReleaseQuarantine(d, q)
           row == [d.query[q] EXCEPT !.status = status]
           rows == [d.query EXCEPT ![q] = row]
           f == [r EXCEPT !.query = rows]
<1>1. Tables(r) /\ r.query = d.query /\ DOMAIN r.submission = DOMAIN d.submission
    BY ReleaseKeeps DEF Keeps
<1>2. SoundBut(r, S) /\ SameFigures(d, r)
    BY ReleaseSound
<1> HIDE DEF r
<1>3. row \in Query /\ row.status = status /\ row.submission = d.query[q].submission
    BY DEF Tables, Table, Query
<1>4. Settle(r, q, status) = RefreshCounts(f, S)
    <2>1. [r EXCEPT !.query[q].status = status] = f
        BY <1>1 DEF Tables
    <2> HIDE DEF f, S
    <2> QED BY <1>1, <2>1 DEF Settle, S
<1> HIDE DEF row
<1>5. /\ rows[q] = row /\ DOMAIN rows = DOMAIN d.query
      /\ \A o \in DOMAIN d.query \ {q} : rows[o] = d.query[o]
    OBVIOUS
<1>6. Table(rows, QueryId, Query)
    BY <1>3 DEF Tables, Table
<1> HIDE DEF rows
<1>7. Tables(f) /\ f.value = r.value /\ f.submission = r.submission /\ f.query = rows
    <2>1. f.query = rows
        BY <1>1 DEF Tables
    <2> QED BY <1>1, <1>6, <2>1, ReplaceQuery DEF Keeps
<1> HIDE DEF f
<1>8. Relabels(r, f, S)
    <2>1. ASSUME NEW t \in DOMAIN r.submission \ S
          PROVE  OpenQueriesOn(f, t) = OpenQueriesOn(r, t)
        BY <1>1, <1>3, <1>5, <1>7 DEF OpenQueriesOn, IsOpen
    <2>2. \A v \in DOMAIN r.value : r.value[v] = [r.value[v] EXCEPT !.label = r.value[v].label]
        BY <1>1 DEF Tables, Table, Value
    <2> QED BY <1>7, <2>1, <2>2 DEF Relabels
<1>9. SoundBut(f, S) /\ SameFigures(r, f)
    BY <1>1, <1>2, <1>8, RelabelSound
<1>10. /\ Sound(RefreshCounts(f, S)) /\ SameFigures(f, RefreshCounts(f, S))
       /\ RefreshCounts(f, S).query = rows
    BY <1>7, <1>9, RefreshSound, RefreshKeeps
<1>11. Sound(Settle(r, q, status)) /\ SameFigures(d, Settle(r, q, status))
    BY <1>2, <1>4, <1>9, <1>10, SameFiguresTransitive
<1>12. /\ q \in DOMAIN Settle(r, q, status).query
       /\ Settle(r, q, status).query[q].status = status
    BY <1>3, <1>4, <1>5, <1>10
<1> QED BY <1>11, <1>12 DEF r

(* A query row that is rewritten and open is counted at least as before.   *)
LEMMA AnswerSound ==
    ASSUME NEW d, Tables(d), Sound(d), NEW q \in DOMAIN d.query, NEW row \in Query,
           row.submission = d.query[q].submission, row.status \in OpenQueryStatuses
    PROVE  LET e == [d EXCEPT !.query = [d.query EXCEPT ![q] = row]]
           IN  Sound(e) /\ SameFigures(d, e)
<1> DEFINE rows == [d.query EXCEPT ![q] = row]
           e == [d EXCEPT !.query = rows]
<1>1. Tables(e)
    BY AnswerKeeps DEF Keeps
<1>2. e.submission = d.submission /\ e.value = d.value /\ e.query = rows
    <2> HIDE DEF rows
    <2> QED BY DEF Tables
<1>3. /\ rows[q] = row /\ DOMAIN rows = DOMAIN d.query
      /\ \A o \in DOMAIN d.query \ {q} : rows[o] = d.query[o]
    OBVIOUS
<1> HIDE DEF rows, e
<1>4. ASSUME NEW s \in DOMAIN d.submission
      PROVE  CountedAt(e, s)
    <2>1. OpenQueriesOn(d, s) \in SUBSET OpenQueriesOn(e, s)
        BY <1>2, <1>3 DEF OpenQueriesOn, IsOpen
    <2>2. IsFiniteSet(OpenQueriesOn(e, s))
        <3>1. OpenQueriesOn(e, s) \in SUBSET DOMAIN e.query
            BY DEF OpenQueriesOn
        <3> QED BY <1>1, <3>1, FS_Subset DEF Tables, Table
    <2>3. Cardinality(OpenQueriesOn(d, s)) <= Cardinality(OpenQueriesOn(e, s))
        BY <2>1, <2>2, FS_Subset
    <2>4. /\ Cardinality(OpenQueriesOn(d, s)) \in Nat /\ Cardinality(OpenQueriesOn(e, s)) \in Nat
          /\ d.submission[s].openCount \in Nat
        BY <1>1, Counts DEF Tables, Table, Submission
    <2>5. HeldOn(e, s) = HeldOn(d, s)
        BY <1>2 DEF HeldOn
    <2> QED BY <1>2, <2>3, <2>4, <2>5 DEF Sound, SoundBut, CountedAt
<1>5. SameFigures(d, e)
    BY <1>2 DEF SameFigures
<1>6. Sound(e)
    BY <1>2, <1>4 DEF Sound, SoundBut
<1> QED BY <1>5, <1>6 DEF e, rows

(* A restatement is the next step of the trail.                            *)
LEMMA TrailGrows ==
    ASSUME NEW row \in Value, Explained(row), NEW q \in QueryId,
           query[q].answer.proposed \in Figure
    PROVE  Explained(Restatement(row, q))
<1> DEFINE new == Restatement(row, q)
           proposed == query[q].answer.proposed
           revision == [query |-> q, previous |-> row.value, new |-> proposed]
           first == IF row.original = None THEN row.value ELSE row.original
           trail == Append(row.trail, revision)
           n == Len(row.trail)
<1>1. row.trail \in Seq(Revision) /\ n \in Nat
    BY DEF Value
<1>2. /\ Len(trail) = n + 1 /\ trail[n + 1] = revision
      /\ \A k \in 1..n : trail[k] = row.trail[k]
    BY <1>1
<1>3. /\ new.value = revision.new /\ new.restated = TRUE /\ new.trail = trail
      /\ new.original = first
    BY RestatementType
<1> HIDE DEF trail, new
<1>4. first = Origin(trail)
    <2>1. CASE n = 0
        BY <1>1, <1>2, <2>1 DEF Explained, Origin
    <2>2. CASE n = 1
        <3>1. trail[1] = row.trail[1] /\ Len(trail) > 1
            BY <1>1, <1>2, <2>2
        <3>2. /\ row.value = row.trail[1].new
              /\ row.original = row.trail[1].previous
            BY <2>2 DEF Explained, Origin
        <3> QED BY <3>1, <3>2 DEF Origin
    <2>3. CASE n > 1
        <3>1. trail[1] = row.trail[1] /\ Len(trail) > 1
            BY <1>1, <1>2, <2>3
        <3>2. row.trail[1].new # None
            <4>1. row.trail[1] \in Revision
                BY <1>1, <2>3
            <4>2. row.trail[1].new \in Figure
                BY <4>1 DEF Revision
            <4>3. None \notin Figure
                BY ReturnsAssumption
            <4> QED BY <4>2, <4>3
        <3>3. n > 0
            BY <1>1, <2>3
        <3>4. row.original = Origin(row.trail)
            BY <3>3 DEF Explained, Origin
        <3> QED BY <2>3, <3>1, <3>2, <3>4 DEF Origin
    <2> HIDE DEF n, first
    <2>4. n \in Nat
        BY <1>1
    <2>5. n = 0 \/ n = 1 \/ n > 1
        BY <2>4
    <2> QED BY <2>1, <2>2, <2>3, <2>5
<1>5. \A k \in 1..n : trail[k].new = trail[k + 1].previous
    <2> SUFFICES ASSUME NEW k \in 1..n PROVE trail[k].new = trail[k + 1].previous
        OBVIOUS
    <2>1. CASE k = n
        BY <1>1, <1>2, <2>1 DEF Explained
    <2>2. CASE k # n
        BY <1>1, <1>2, <2>2 DEF Explained
    <2> QED BY <2>1, <2>2
<1> HIDE DEF first
<1>6. Explained(new)
    BY <1>1, <1>2, <1>3, <1>4, <1>5 DEF Explained
<1> QED BY <1>6 DEF new

(* One figure is restated, with its trail, and no count is about its       *)
(* value.                                                                  *)
LEMMA RestatedSound ==
    ASSUME NEW d, Tables(d), Sound(d), NEW v \in DOMAIN d.value, NEW q \in QueryId,
           query[q].answer.proposed \in Figure
    PROVE  LET e == Restated(d, v, q)
           IN  /\ Sound(e) /\ e.value[v].value = query[q].answer.proposed
               /\ DOMAIN e.value = DOMAIN d.value
               /\ \A w \in DOMAIN d.value \ {v} : e.value[w] = d.value[w]
<1> DEFINE row == Restatement(d.value[v], q)
           rows == [d.value EXCEPT ![v] = row]
           e == Restated(d, v, q)
<1>1. e.submission = d.submission /\ e.value = rows /\ e.query = d.query
    BY RestatedKeeps
<1>2. d.value[v] \in Value /\ Explained(d.value[v])
    BY DEF Tables, Table, Sound, SoundBut
<1>3. row.value = query[q].answer.proposed /\ row.label = d.value[v].label
    BY <1>2, RestatementType
<1>4. Explained(row)
    BY <1>2, TrailGrows
<1> HIDE DEF row
<1>5. /\ rows[v] = row /\ DOMAIN rows = DOMAIN d.value
      /\ \A w \in DOMAIN d.value \ {v} : rows[w] = d.value[w]
    OBVIOUS
<1> HIDE DEF rows, e
<1>6. \A s : HeldOn(e, s) = HeldOn(d, s)
    BY <1>1, <1>3, <1>5 DEF HeldOn
<1>7. \A s : OpenQueriesOn(e, s) = OpenQueriesOn(d, s)
    BY <1>1 DEF OpenQueriesOn, IsOpen
<1>8. Sound(e)
    BY <1>1, <1>4, <1>5, <1>6, <1>7 DEF Sound, SoundBut, CountedAt
<1> QED BY <1>1, <1>3, <1>5, <1>8 DEF e

-----------------------------------------------------------------------------
(* No figure that is there before and after a step says something else.    *)
Still == \A v \in Figures : value'[v].value = value[v].value

(* What a transaction leaves behind is what it committed.                  *)
LEMMA CommitSound ==
    ASSUME NEW d, Commit(d), Tables(d), Sound(d)
    PROVE  Sound(Db)' /\ value' = d.value /\ query' = d.query
<1>1. d = [submission |-> d.submission, value |-> d.value, query |-> d.query]
    BY DEF Tables
<1>2. Db' = d
    BY <1>1 DEF Commit, Db
<1> QED
    BY <1>2 DEF Commit, Sound, SoundBut, CountedAt, HeldOn, OpenQueriesOn, IsOpen, Explained

(* A transaction that moves no figure.                                     *)
LEMMA StillStep ==
    ASSUME NEW d, Commit(d), Tables(d), Sound(d), SameFigures(Db, d)
    PROVE  Sound(Db)' /\ Still
BY CommitSound DEF SameFigures, Still, Figures, Db

(* A return lands: what it brings is new, and what was there stands.       *)
LEMMA IngestSound ==
    ASSUME IInv, Sound(Db), NEW st \in State, NEW p \in Period, NEW report \in Reports,
           NEW found \in SUBSET Finding, NEW auto \in BOOLEAN, NEW raise \in BOOLEAN,
           NEW foundQ \in SUBSET Finding,
           Ingest(st, p, report, found, auto, raise, foundQ)
    PROVE  Sound(Db)' /\ Still
<1> DEFINE s == filed + 1
           added == AddSubmission(Db, s, st, p)
           alone == SupersedePrevious(added, s)
           stored == PersistValues(alone, s, report)
           checked == Check(stored, [t \in {s} |-> found], raise)
           decided == IF auto THEN Approved(checked, s) ELSE checked
           coarser == EnclosingReturns(decided, st, p)
           final == Check(decided, [t \in coarser |-> foundQ], raise)
<1>1. /\ filed \in Nat /\ Tables(Db) /\ Standing(Db)
      /\ DOMAIN Db.submission \subseteq 1..filed
    BY DEF IInv, Db
<1>2. s \in SubmissionId /\ s \notin DOMAIN Db.submission
    BY <1>1 DEF SubmissionId
<1>3. Commit(final)
    BY DEF Ingest
<1> HIDE DEF s
<1>4. /\ Tables(added) /\ StandingBeside(added, s)
      /\ DOMAIN added.submission = DOMAIN Db.submission \cup {s}
      /\ added.submission[s].current
    <2>1. /\ Tables(added)
          /\ DOMAIN added.submission = DOMAIN Db.submission \cup {s}
          /\ \A t \in DOMAIN Db.submission : added.submission[t] = Db.submission[t]
          /\ added.submission[s].status = "UPLOADED" /\ added.submission[s].current
        BY <1>1, <1>2, AddedTables
    <2> HIDE DEF added
    <2> QED BY <1>1, <2>1 DEF StandingBeside, Standing, SameUnit
<1>5. Sound(added) /\ added.value = Db.value /\ \A v \in DOMAIN Db.value : v[1] # s
    BY <1>1, <1>2, AddedSound
<1> HIDE DEF added
<1>6. SameFigures(Db, added)
    BY <1>5 DEF SameFigures
<1>7. /\ Tables(alone) /\ Standing(alone) /\ Sole(alone, s)
      /\ DOMAIN alone.submission = DOMAIN added.submission
      /\ alone.submission[s].current
    BY <1>4, SupersedeStanding
<1>8. Sound(alone) /\ SameFigures(added, alone) /\ DOMAIN alone.value = DOMAIN added.value
    BY <1>4, <1>5, SupersedeSound
<1> HIDE DEF alone
<1>9. Keeps(alone, stored)
    BY <1>2, <1>7, PersistKeeps
<1>10. Sound(stored) /\ SameFigures(alone, stored)
    BY <1>4, <1>5, <1>7, <1>8, PersistSound
<1> HIDE DEF stored
<1>11. Keeps(stored, checked) /\ Sound(checked) /\ SameFigures(stored, checked)
    <2> DEFINE S == {s}
               f == [t \in S |-> found]
    <2>1. S \in SUBSET InForce(stored) /\ Tables(stored)
        BY <1>4, <1>7, <1>9 DEF Keeps, SameStanding, InForce
    <2>2. DOMAIN f = S /\ \A t \in S : f[t] \in SUBSET Finding
        OBVIOUS
    <2>3. checked = Check(stored, f, raise)
        OBVIOUS
    <2> HIDE DEF S, f, checked
    <2> QED BY <1>10, <2>1, <2>2, <2>3, CheckKeeps, CheckSound
<1> HIDE DEF checked
<1>12. /\ Tables(checked) /\ Standing(checked) /\ Sole(checked, s)
       /\ s \in DOMAIN checked.submission
    <2>1. Keeps(alone, checked)
        BY <1>9, <1>11, KeepsTransitive
    <2> QED BY <1>4, <1>7, <2>1, KeepsStanding, KeepsSole DEF Keeps
<1>13. Tables(decided) /\ Sound(decided) /\ SameFigures(checked, decided)
    <2>1. Tables(Approved(checked, s))
        BY <1>12, ApprovedStanding
    <2>2. Sound(Approved(checked, s)) /\ SameFigures(checked, Approved(checked, s))
        BY <1>11, <1>12, DecisionSound DEF Approved
    <2> QED BY <1>11, <1>12, <2>1, <2>2 DEF SameFigures
<1> HIDE DEF decided
<1>14. Keeps(decided, final) /\ Sound(final) /\ SameFigures(decided, final)
    <2> DEFINE f == [t \in coarser |-> foundQ]
    <2>1. coarser \in SUBSET InForce(decided)
        BY DEF EnclosingReturns, CurrentFor, InForce
    <2>2. DOMAIN f = coarser /\ \A t \in coarser : f[t] \in SUBSET Finding
        OBVIOUS
    <2>3. final = Check(decided, f, raise)
        OBVIOUS
    <2> HIDE DEF coarser, f, final
    <2> QED BY <1>13, <2>1, <2>2, <2>3, CheckKeeps, CheckSound
<1> HIDE DEF final
<1>15. SameFigures(Db, final)
    BY <1>6, <1>8, <1>10, <1>11, <1>13, <1>14, SameFiguresTransitive
<1> QED BY <1>3, <1>14, <1>15, StillStep DEF Keeps

(* The decisions move no figure.                                           *)
LEMMA ReviewSound ==
    ASSUME IInv, Sound(Db), NEW s \in DOMAIN submission, Approve(s) \/ Reject(s)
    PROVE  Sound(Db)' /\ Still
<1>1. Tables(Db) /\ s \in DOMAIN Db.submission
    BY DEF IInv, Db
<1>2. CASE Approve(s)
    <2> DEFINE alone == SupersedePrevious(Db, s)
               final == Approved(alone, s)
    <2>1. Commit(final)
        BY <1>2 DEF Approve
    <2>2. StandingBeside(Db, s)
        BY DEF IInv, Standing, StandingBeside
    <2>3. /\ Tables(alone) /\ Standing(alone) /\ Sole(alone, s)
          /\ DOMAIN alone.submission = DOMAIN Db.submission
        BY <1>1, <2>2, SupersedeStanding
    <2>4. Sound(alone) /\ SameFigures(Db, alone)
        BY <1>1, SupersedeSound
    <2> HIDE DEF alone
    <2>5. Tables(final)
        BY <1>1, <2>3, ApprovedStanding
    <2>6. Sound(final) /\ SameFigures(alone, final)
        BY <1>1, <2>3, <2>4, DecisionSound DEF Approved
    <2> HIDE DEF final
    <2>7. SameFigures(Db, final)
        BY <2>4, <2>6, SameFiguresTransitive
    <2> QED BY <2>1, <2>5, <2>6, <2>7, StillStep
<1>3. CASE Reject(s)
    <2> DEFINE final == [Db EXCEPT !.submission[s].status = "REJECTED",
                                   !.submission[s].current = FALSE]
    <2>1. Commit(final)
        BY <1>3 DEF Reject
    <2>2. Sound(final) /\ SameFigures(Db, final)
        BY <1>1, DecisionSound
    <2>3. Tables(final)
        <3> DEFINE row == [submission[s] EXCEPT !.status = "REJECTED", !.current = FALSE]
                   rows == [submission EXCEPT ![s] = row]
        <3>1. final = [Db EXCEPT !.submission = rows]
            BY DEF Db
        <3>2. row \in Submission
            <4>1. submission[s] \in Submission
                BY <1>1 DEF Tables, Table, Db
            <4> QED BY <4>1 DEF Submission, SubmissionStatus
        <3> HIDE DEF row
        <3>3. Table(rows, SubmissionId, Submission)
            BY <1>1, <3>2 DEF Tables, Table, Db
        <3> HIDE DEF rows, final
        <3> QED BY <1>1, <3>1, <3>3, ReplaceSubmission
    <2> HIDE DEF final
    <2> QED BY <2>1, <2>2, <2>3, StillStep
<1> QED BY <1>2, <1>3

(* A deleted return takes its own figures and no other's.                  *)
LEMMA DeleteSound ==
    ASSUME IInv, Sound(Db), NEW s \in DOMAIN submission, Delete(s)
    PROVE  Sound(Db)' /\ Still
<1> DEFINE rows == [t \in DOMAIN submission \ {s} |-> submission[t]]
           values == [v \in {w \in DOMAIN value : w[1] # s} |-> value[v]]
           queries == [q \in DOMAIN query |->
                         IF query[q].submission = s
                         THEN [query[q] EXCEPT !.submission = None] ELSE query[q]]
<1>1. submission' = rows /\ value' = values /\ query' = queries
    BY DEF Delete, Commit
<1>2. Tables(Db) /\ Tables(Db)'
    BY DeleteStep DEF IInv
<1>3. ASSUME NEW t \in DOMAIN rows
      PROVE  CountedAt(Db, t)'
    <2>1. t \in DOMAIN submission /\ t # s /\ rows[t] = submission[t] /\ t # None
        BY <1>2, ReturnsAssumption DEF Tables, Table, SubmissionId, Db
    <2>2. HeldOn(Db, t)' = HeldOn(Db, t)
        BY <1>1, <2>1 DEF HeldOn, Db
    <2>3. OpenQueriesOn(Db, t)' = OpenQueriesOn(Db, t)
        <3>1. ASSUME NEW q \in DOMAIN query
              PROVE  /\ queries[q].submission = t <=> query[q].submission = t
                     /\ queries[q].submission = t => queries[q].status = query[q].status
            <4>1. query[q] \in Query
                BY <1>2 DEF Tables, Table, Db
            <4>2. CASE query[q].submission = s
                <5>1. queries[q].submission = None
                    BY <4>1, <4>2 DEF Query
                <5> HIDE DEF queries
                <5> QED BY <2>1, <4>2, <5>1
            <4>3. CASE query[q].submission # s
                <5>1. queries[q] = query[q]
                    BY <4>3
                <5> HIDE DEF queries
                <5> QED BY <5>1
            <4> QED BY <4>2, <4>3
        <3>2. DOMAIN queries = DOMAIN query
            OBVIOUS
        <3> HIDE DEF queries
        <3> QED BY <1>1, <3>1, <3>2 DEF OpenQueriesOn, IsOpen, Db
    <2>4. CountedAt(Db, t)
        BY <2>1 DEF Sound, SoundBut, Db
    <2> HIDE DEF rows
    <2> QED BY <1>1, <2>1, <2>2, <2>3, <2>4 DEF CountedAt, Db
<1>4. ASSUME NEW v \in DOMAIN values
      PROVE  v[1] \in DOMAIN rows /\ values[v] = value[v] /\ Explained(value[v])
    BY DEF Sound, SoundBut, Db
<1>5. Still
    BY <1>1, <1>4 DEF Still, Figures
<1> HIDE DEF rows, values, queries
<1>6. Sound(Db)'
    BY <1>1, <1>3, <1>4 DEF Sound, SoundBut, Db, Explained
<1> QED BY <1>5, <1>6

(* Re-validation of a period relabels, queries and recounts.               *)
LEMMA RevalidateSound ==
    ASSUME IInv, Sound(Db), \E p \in Period : RevalidatePeriod(p)
    PROVE  Sound(Db)' /\ Still
<1>1. Tables(Db) /\ Db.submission = submission
    BY DEF IInv, Db
<1>2. PICK p \in Period : RevalidatePeriod(p)
    OBVIOUS
<1> DEFINE S == {s \in DOMAIN submission : submission[s].period = p /\ submission[s].current}
<1>3. PICK f \in [S -> SUBSET Finding] : Commit(Check(Db, f, TRUE))
    BY <1>2 DEF RevalidatePeriod
<1> DEFINE final == Check(Db, f, TRUE)
<1>4. S \in SUBSET InForce(Db)
    BY <1>1 DEF InForce
<1>5. DOMAIN f = S /\ \A t \in S : f[t] \in SUBSET Finding
    OBVIOUS
<1> HIDE DEF S
<1>6. Keeps(Db, final) /\ Sound(final) /\ SameFigures(Db, final)
    BY <1>1, <1>4, <1>5, CheckKeeps, CheckSound
<1>7. Commit(final)
    BY <1>3
<1> HIDE DEF final
<1> QED BY <1>6, <1>7, StillStep DEF Keeps

(* A figure only moves with an accepted response behind it.                *)
Moves ==
    \A v \in Figures :
        value'[v].value # value[v].value
        => \E q \in Queries :
              /\ query'[q].status = "ACCEPTED"
              /\ query[q].answer.proposed = value'[v].value
              /\ q.indicator = v[2]
              /\ v[1] \in CurrentFor(Db, q.state, query[q].answer.target)

(* A response, a rejected answer and an escalation leave the query open.   *)
LEMMA AnswerStepSound ==
    ASSUME IInv, Sound(Db), NEW q \in DOMAIN query,
           \/ \E proposed \in Figure \cup {None}, target \in Period : Respond(q, proposed, target)
           \/ RejectAnswer(q)
           \/ Escalate(q)
    PROVE  Sound(Db)' /\ Still
<1>1. query[q] \in Query /\ Tables(Db) /\ Db.query = query
    BY DEF IInv, Tables, Table, Db
<1>2. ASSUME NEW row \in Query, row.submission = query[q].submission,
             row.status \in OpenQueryStatuses,
             Commit([Db EXCEPT !.query = [query EXCEPT ![q] = row]])
      PROVE  Sound(Db)' /\ Still
    <2> DEFINE final == [Db EXCEPT !.query = [Db.query EXCEPT ![q] = row]]
    <2>1. Tables(final)
        BY <1>1, AnswerKeeps DEF Keeps
    <2>2. Sound(final) /\ SameFigures(Db, final)
        BY <1>1, <1>2, AnswerSound
    <2>3. Commit(final)
        BY <1>1, <1>2
    <2> HIDE DEF final
    <2> QED BY <2>1, <2>2, <2>3, StillStep
<1>3. ASSUME NEW proposed \in Figure \cup {None}, NEW target \in Period,
             Respond(q, proposed, target)
      PROVE  Sound(Db)' /\ Still
    <2> DEFINE answer == [proposed |-> proposed, target |-> target]
               row == [query[q] EXCEPT !.answer = answer, !.status = "RESPONDED"]
    <2>1. row \in Query
        BY <1>1 DEF Query, QueryStatus, Answer
    <2>2. row.submission = query[q].submission /\ row.status \in OpenQueryStatuses
        BY <1>1 DEF Query, OpenQueryStatuses
    <2>3. [Db EXCEPT !.query[q].answer = answer, !.query[q].status = "RESPONDED"]
            = [Db EXCEPT !.query = [query EXCEPT ![q] = row]]
        BY DEF Db
    <2>4. Commit([Db EXCEPT !.query = [query EXCEPT ![q] = row]])
        BY <1>3, <2>3 DEF Respond
    <2> HIDE DEF row
    <2> QED BY <1>2, <2>1, <2>2, <2>4
<1>4. ASSUME NEW status \in OpenQueryStatuses, Commit([Db EXCEPT !.query[q].status = status])
      PROVE  Sound(Db)' /\ Still
    <2> DEFINE row == [query[q] EXCEPT !.status = status]
    <2>1. row \in Query /\ row.submission = query[q].submission /\ row.status = status
        BY <1>1 DEF Query, QueryStatus, OpenQueryStatuses
    <2>2. [Db EXCEPT !.query[q].status = status] = [Db EXCEPT !.query = [query EXCEPT ![q] = row]]
        BY DEF Db
    <2>3. Commit([Db EXCEPT !.query = [query EXCEPT ![q] = row]])
        BY <1>4, <2>2
    <2> HIDE DEF row
    <2> QED BY <1>2, <2>1, <2>3
<1>5. CASE RejectAnswer(q)
    BY <1>4, <1>5 DEF RejectAnswer, OpenQueryStatuses
<1>6. CASE Escalate(q)
    BY <1>4, <1>6 DEF Escalate, OpenQueryStatuses
<1> QED BY <1>3, <1>5, <1>6

(* Settling a query, perhaps after its response restated a figure.         *)
LEMMA SettleStepSound ==
    ASSUME IInv, Sound(Db), NEW q \in DOMAIN query, Accept(q) \/ Withdraw(q)
    PROVE  Sound(Db)' /\ Moves
<1>1. /\ Tables(Db) /\ Db.query = query /\ Db.value = value
      /\ query[q] \in Query /\ q \in QueryId
    BY DEF IInv, Tables, Table, Db
<1>2. ASSUME NEW d, Tables(d), Sound(d), q \in DOMAIN d.query, NEW status \in QueryStatus,
             Commit(Settle(ReleaseQuarantine(d, q), q, status))
      PROVE  /\ Sound(Db)'
             /\ \A w \in DOMAIN d.value : w \in DOMAIN value' /\ value'[w].value = d.value[w].value
             /\ q \in DOMAIN query' /\ query'[q].status = status
    <2> DEFINE final == Settle(ReleaseQuarantine(d, q), q, status)
    <2>1. Tables(final)
        BY <1>2, SettledKeeps DEF Keeps
    <2>2. /\ Sound(final) /\ SameFigures(d, final)
          /\ q \in DOMAIN final.query /\ final.query[q].status = status
        BY <1>2, SettledSound
    <2>3. Commit(final)
        BY <1>2
    <2> HIDE DEF final
    <2> QED BY <2>1, <2>2, <2>3, CommitSound DEF SameFigures
<1>3. ASSUME NEW status \in QueryStatus, Commit(Settle(ReleaseQuarantine(Db, q), q, status))
      PROVE  Sound(Db)' /\ Moves
    BY <1>1, <1>2, <1>3 DEF Moves, Figures
<1>4. CASE Withdraw(q)
    BY <1>3, <1>4 DEF Withdraw, QueryStatus
<1>5. CASE Accept(q) /\ query[q].answer.proposed = None
    BY <1>3, <1>5 DEF Accept, QueryStatus
<1>6. CASE Accept(q) /\ query[q].answer.proposed # None
    <2>1. PICK v \in Corrects(q) :
             Commit(Settle(ReleaseQuarantine(Restated(Db, v, q), q), q, "ACCEPTED"))
        BY <1>6 DEF Accept
    <2> DEFINE d == Restated(Db, v, q)
               proposed == query[q].answer.proposed
    <2>2. v \in DOMAIN Db.value /\ Db.value[v] = value[v]
        BY <1>1 DEF Corrects
    <2>3. proposed \in Figure
        <3>1. query[q].answer \in Answer
            BY <1>1 DEF Query
        <3> QED BY <1>6, <3>1 DEF Answer
    <2>4. Keeps(Db, d) /\ d.query = query
        BY <1>1, <2>2, <2>3, RestatedKeeps
    <2>5. /\ Sound(d) /\ d.value[v].value = proposed /\ DOMAIN d.value = DOMAIN Db.value
          /\ \A w \in DOMAIN Db.value \ {v} : d.value[w] = Db.value[w]
        BY <1>1, <2>2, <2>3, RestatedSound
    <2>6. Commit(Settle(ReleaseQuarantine(d, q), q, "ACCEPTED"))
        BY <2>1
    <2> HIDE DEF d
    <2>7. /\ Sound(Db)'
          /\ \A w \in DOMAIN d.value : w \in DOMAIN value' /\ value'[w].value = d.value[w].value
          /\ q \in DOMAIN query' /\ query'[q].status = "ACCEPTED"
        BY <1>2, <2>4, <2>5, <2>6 DEF Keeps, QueryStatus
    <2>8. ASSUME NEW w \in Figures, value'[w].value # value[w].value
          PROVE  w = v /\ value'[w].value = proposed
        BY <1>1, <2>2, <2>5, <2>7, <2>8 DEF Figures
    <2>9. q \in Queries
        BY <2>7 DEF Queries
    <2>10. v[2] = q.indicator /\ v[1] \in CurrentFor(Db, q.state, query[q].answer.target)
        BY DEF Corrects
    <2>11. Moves
        BY <2>7, <2>8, <2>9, <2>10 DEF Moves
    <2> QED BY <2>7, <2>11
<1> QED BY <1>4, <1>5, <1>6

(* There is nothing to count and nothing to explain at first.              *)
LEMMA InitSound == Init => Sound(Db)
<1> SUFFICES ASSUME Init PROVE Sound(Db)
    OBVIOUS
<1>1. submission = <<>> /\ value = <<>> /\ DOMAIN <<>> = {}
    BY DEF Init
<1> QED BY <1>1 DEF Sound, SoundBut, Db

(* No step leaves a count, a trail or a figure unaccounted for.            *)
LEMMA NextSound == IInv /\ Sound(Db) /\ [Next]_vars => Sound(Db)' /\ Moves
<1> SUFFICES ASSUME IInv, Sound(Db), [Next]_vars PROVE Sound(Db)' /\ Moves
    OBVIOUS
<1>1. ASSUME Still PROVE Moves
    BY <1>1 DEF Still, Moves
<1>2. CASE Filing
    BY <1>1, <1>2, IngestSound DEF Filing
<1>3. CASE Review
    BY <1>1, <1>3, ReviewSound, DeleteSound, RevalidateSound DEF Review
<1>4. CASE Workflow
    BY <1>1, <1>4, AnswerStepSound, SettleStepSound DEF Workflow
<1>5. CASE UNCHANGED tables
    <2>1. submission' = submission /\ value' = value /\ query' = query
        BY <1>5 DEF tables
    <2>2. Sound(Db)'
        <3>1. \A s : CountedAt(Db, s)' <=> CountedAt(Db, s)
            BY <2>1 DEF CountedAt, HeldOn, OpenQueriesOn, IsOpen, Db
        <3> QED BY <2>1, <3>1 DEF Sound, SoundBut, Explained, Db
    <2>3. Still
        BY <2>1 DEF Still, Figures
    <2> QED BY <1>1, <2>2, <2>3
<1>6. CASE Administration
    BY <1>5, <1>6 DEF Administration
<1>7. CASE UNCHANGED vars
    BY <1>5, <1>7 DEF vars, tables
<1> QED BY <1>2, <1>3, <1>4, <1>6, <1>7 DEF Next

(* So all is well in every database the handlers produce.                  *)
LEMMA AlwaysSound == Spec => [](IInv /\ Sound(Db))
BY InitIInv, NextIInv, InitSound, NextSound, PTL DEF Spec

-----------------------------------------------------------------------------
(* The count of unfit figures stored on a return is the number there is,   *)
(* after any sequence of filings, decisions, answers and deletions.        *)
THEOREM HeldCountExactAlways == Spec => []HeldCountExact
<1>1. Sound(Db) => HeldCountExact
    BY DEF Sound, SoundBut, CountedAt, HeldCountExact, Db
<1> QED BY <1>1, AlwaysSound, PTL

(* The stored count of open queries never promises more than are open: an  *)
(* answer that reopens a settled query is the only thing it misses.        *)
THEOREM OpenCountNeverOverstatesAlways == Spec => []OpenCountNeverOverstates
<1>1. Sound(Db) => OpenCountNeverOverstates
    BY DEF Sound, SoundBut, CountedAt, OpenCountNeverOverstates, Db
<1> QED BY <1>1, AlwaysSound, PTL

(* The trail of every figure leads, without a gap, from what the state     *)
(* reported to what the figure says now.                                   *)
THEOREM RevisionsExplainFigureAlways == Spec => []RevisionsExplainFigure
<1>1. Sound(Db) => RevisionsExplainFigure
    BY DEF Sound, SoundBut, Explained, RevisionsExplainFigure, Db
<1> QED BY <1>1, AlwaysSound, PTL

(* No figure changes without an accepted response that proposes just that  *)
(* figure, for the return in force for the period the response names.      *)
THEOREM FiguresMoveByAcceptanceAlways == Spec => FiguresMoveByAcceptance
<1>1. IInv /\ Sound(Db) /\ [Next]_vars => [Moves]_vars
    BY NextSound
<1>2. Spec => [][Moves]_vars
    BY <1>1, AlwaysSound, PTL DEF Spec
<1> QED BY <1>2 DEF FiguresMoveByAcceptance, Moves
=============================================================================
