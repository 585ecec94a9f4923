--------------------------- MODULE ReturnsProofs ---------------------------
(***************************************************************************)
(* Type correctness of Returns, that one return stays in force for a state *)
(* and period and only that one is ever approved, and how it stops being.  *)
(*                                                                         *)
(* A handler is a composition of helpers on the record of tables, so the   *)
(* proof goes helper by helper: most of them keep the standing of every    *)
(* return (Keeps), which composes; superseding, approving, rejecting and   *)
(* deleting do not, and are followed on their own (Retires, TakesOver).    *)
(***************************************************************************)
EXTENDS ReturnsProperties, TLAPS, FiniteSetTheorems, WellFoundedInduction

(* A table: finitely many rows, under keys, of the type of its rows.       *)
Table(T, Key, Row) ==
    /\ IsFiniteSet(DOMAIN T)
    /\ DOMAIN T \subseteq Key
    /\ T \in [DOMAIN T -> Row]

(* The record of tables the helpers of the pipeline work on.               *)
Tables(d) ==
    /\ d = [submission |-> d.submission, value |-> d.value, query |-> d.query]
    /\ Table(d.submission, SubmissionId, Submission)
    /\ Table(d.value, ValueId, Value)
    /\ Table(d.query, QueryId, Query)

(* A row rewritten in place: still the same unit, as current and as        *)
(* approved as before.  Only a current one can have been validated again.  *)
SameStanding(row, new) ==
    /\ new.state = row.state /\ new.period = row.period
    /\ new.current = row.current
    /\ new.status = "APPROVED" <=> row.status = "APPROVED"
    /\ ~row.current => new.status = row.status

(* A helper that adds and removes no return and keeps the standing of each.*)
Keeps(d, e) ==
    /\ Tables(e)
    /\ DOMAIN e.submission = DOMAIN d.submission
    /\ \A s \in DOMAIN d.submission : SameStanding(d.submission[s], e.submission[s])

(* Two such helpers in a row are one.                                      *)
LEMMA KeepsTransitive ==
    ASSUME NEW d, NEW e, NEW f, Keeps(d, e), Keeps(e, f)
    PROVE  Keeps(d, f)
BY DEF Keeps, SameStanding

(* The table of returns is replaced, the others are left.                  *)
LEMMA ReplaceSubmission ==
    ASSUME NEW d, Tables(d), NEW rows, Table(rows, SubmissionId, Submission)
    PROVE  LET e == [d EXCEPT !.submission = rows]
           IN /\ Tables(e) /\ e.submission = rows /\ e.value = d.value /\ e.query = d.query
<1>1. [d EXCEPT !.submission = rows] = [submission |-> rows, value |-> d.value, query |-> d.query]
    BY DEF Tables
<1> QED BY <1>1 DEF Tables

(* The counts RefreshCounts stores are numbers: the tables are finite.     *)
LEMMA Counts ==
    ASSUME NEW d, Tables(d), NEW s
    PROVE  Cardinality(OpenQueriesOn(d, s)) \in Nat /\ Cardinality(HeldOn(d, s)) \in Nat
<1>1. IsFiniteSet(OpenQueriesOn(d, s))
    <2>1. OpenQueriesOn(d, s) \in SUBSET DOMAIN d.query
       BY DEF OpenQueriesOn
    <2> QED BY <2>1, FS_Subset DEF Tables, Table
<1>2. IsFiniteSet(HeldOn(d, s))
    <2>1. HeldOn(d, s) \in SUBSET DOMAIN d.value
       BY DEF HeldOn
    <2> QED BY <2>1, FS_Subset DEF Tables, Table
<1> QED BY <1>1, <1>2, FS_CardinalityType

(* A return whose counts are refreshed.                                    *)
LEMMA Recounted ==
    ASSUME NEW row \in Submission, NEW o \in Nat, NEW h \in Nat
    PROVE  /\ [row EXCEPT !.openCount = o, !.heldCount = h] \in Submission
           /\ SameStanding(row, [row EXCEPT !.openCount = o, !.heldCount = h])
BY DEF SameStanding, Submission

(* RefreshCounts writes two counters.                                      *)
LEMMA RefreshKeeps ==
    ASSUME NEW d, Tables(d), NEW S
    PROVE  /\ Keeps(d, RefreshCounts(d, S))
           /\ RefreshCounts(d, S).value = d.value /\ RefreshCounts(d, S).query = d.query
<1> DEFINE row(s) == IF s \in S
            THEN [d.submission[s] EXCEPT !.openCount = Cardinality(OpenQueriesOn(d, s)),
                                         !.heldCount = Cardinality(HeldOn(d, s))]
            ELSE d.submission[s]
           rows == [s \in DOMAIN d.submission |-> row(s)]
<1>1. ASSUME NEW s \in DOMAIN d.submission
      PROVE  row(s) \in Submission /\ SameStanding(d.submission[s], row(s))
    <2>1. d.submission[s] \in Submission
        BY DEF Tables, Table
    <2>2. CASE s \in S
        BY <2>1, <2>2, Counts, Recounted
    <2>3. CASE s \notin S
        BY <2>1, <2>3 DEF SameStanding
    <2> QED BY <2>2, <2>3
<1>2. RefreshCounts(d, S) = [d EXCEPT !.submission = rows]
    BY DEF RefreshCounts
<1> HIDE DEF row
<1>3. Table(rows, SubmissionId, Submission)
    BY <1>1 DEF Tables, Table
<1> QED
    BY <1>1, <1>2, <1>3, ReplaceSubmission DEF Keeps

(* A figure is relabelled within the labels.                               *)
LEMMA RelabelType ==
    ASSUME NEW label \in Label, NEW b, NEW f
    PROVE  Relabel(label, b, f) \in Label
BY DEF Relabel, MarkUnfit, MarkQueried, Label, IsValid

(* The table of figures is replaced.                                       *)
LEMMA ReplaceValue ==
    ASSUME NEW d, Tables(d), NEW rows, Table(rows, ValueId, Value)
    PROVE  /\ Keeps(d, [d EXCEPT !.value = rows])
           /\ [d EXCEPT !.value = rows].query = d.query
           /\ [d EXCEPT !.value = rows].submission = d.submission
<1>1. [d EXCEPT !.value = rows] = [submission |-> d.submission, value |-> rows, query |-> d.query]
    BY DEF Tables
<1> QED BY <1>1 DEF Tables, Keeps, SameStanding

(* The table of queries is replaced.                                       *)
LEMMA ReplaceQuery ==
    ASSUME NEW d, Tables(d), NEW rows, Table(rows, QueryId, Query)
    PROVE  /\ Keeps(d, [d EXCEPT !.query = rows])
           /\ [d EXCEPT !.query = rows].value = d.value
           /\ [d EXCEPT !.query = rows].submission = d.submission
<1>1. [d EXCEPT !.query = rows] = [submission |-> d.submission, value |-> d.value, query |-> rows]
    BY DEF Tables
<1> QED BY <1>1 DEF Tables, Keeps, SameStanding

(* A figure row with another label.                                        *)
LEMMA Relabelled ==
    ASSUME NEW row \in Value, NEW b, NEW f
    PROVE  [row EXCEPT !.label = Relabel(@, b, f)] \in Value
<1>1. row.label \in Label
    BY DEF Value
<1>2. Relabel(row.label, b, f) \in Label
    BY <1>1, RelabelType
<1> QED BY <1>2 DEF Value

(* CarryForward before it recounts: the open queries of S are moved to s,  *)
(* and the figures of s they are about relabelled.                         *)
Moved(d, S) == {q \in DOMAIN d.query : d.query[q].submission \in S /\ IsOpen(d, q)}

OnFigure(d, S, s, v) == {q \in Moved(d, S) : v = <<s, q.indicator>>}

Carried(d, S, s) ==
    [d EXCEPT
        !.query = [q \in DOMAIN d.query |->
                     IF q \in Moved(d, S) THEN [d.query[q] EXCEPT !.submission = s]
                                          ELSE d.query[q]],
        !.value = [v \in DOMAIN d.value |->
                     [d.value[v] EXCEPT !.label =
                        Relabel(@, \E q \in OnFigure(d, S, s, v) : d.query[q].severity = "ERROR",
                                OnFigure(d, S, s, v) # {})]]]

Touched(d, S, s) == {s} \cup {d.query[q].submission : q \in Moved(d, S)}

(* CarryForward by its parts.                                              *)
LEMMA CarryIs ==
    ASSUME NEW d, NEW S, NEW s
    PROVE  CarryForward(d, S, s) =
              IF Moved(d, S) = {} THEN d
              ELSE RefreshCounts(Carried(d, S, s), Touched(d, S, s))
BY DEF CarryForward, Moved, OnFigure, Carried, Touched

(* Carrying the queries and their labels, before the recount.              *)
LEMMA CarriedKeeps ==
    ASSUME NEW d, Tables(d), NEW S, NEW s \in SubmissionId
    PROVE  Keeps(d, Carried(d, S, s))
<1> DEFINE queries == [q \in DOMAIN d.query |->
                         IF q \in Moved(d, S) THEN [d.query[q] EXCEPT !.submission = s]
                                              ELSE d.query[q]]
           label(v) == [d.value[v] EXCEPT !.label =
                          Relabel(@, \E q \in OnFigure(d, S, s, v) : d.query[q].severity = "ERROR",
                                  OnFigure(d, S, s, v) # {})]
           values == [v \in DOMAIN d.value |-> label(v)]
<1>1. Table(queries, QueryId, Query)
    <2>1. \A q \in DOMAIN d.query : queries[q] \in Query
        BY DEF Tables, Table, Query
    <2> QED BY <2>1 DEF Tables, Table
<1>2. Table(values, ValueId, Value)
    <2>1. \A v \in DOMAIN d.value : label(v) \in Value
        BY Relabelled DEF Tables, Table
    <2> HIDE DEF label
    <2> QED BY <2>1 DEF Tables, Table
<1>3. Carried(d, S, s) = [[d EXCEPT !.query = queries] EXCEPT !.value = values]
    BY DEF Carried
<1> HIDE DEF queries, values
<1>4. Keeps(d, [d EXCEPT !.query = queries])
    BY <1>1, ReplaceQuery
<1>5. Keeps([d EXCEPT !.query = queries], [[d EXCEPT !.query = queries] EXCEPT !.value = values])
    BY <1>2, <1>4, ReplaceValue DEF Keeps
<1> QED BY <1>3, <1>4, <1>5, KeepsTransitive

(* CarryForward moves queries and relabels figures.                        *)
LEMMA CarryKeeps ==
    ASSUME NEW d, Tables(d), NEW S, NEW s \in SubmissionId
    PROVE  Keeps(d, CarryForward(d, S, s))
<1>1. Keeps(d, Carried(d, S, s))
    BY CarriedKeeps
<1>2. Keeps(Carried(d, S, s), RefreshCounts(Carried(d, S, s), Touched(d, S, s)))
    BY <1>1, RefreshKeeps DEF Keeps
<1>3. Keeps(d, d)
    BY DEF Keeps, SameStanding
<1> QED BY <1>1, <1>2, <1>3, CarryIs, KeepsTransitive

(* The two properties of interest, of any record of tables.                *)
Standing(d) ==
    /\ \A s, t \in DOMAIN d.submission :
          /\ SameUnit(d, s, t) /\ d.submission[s].current /\ d.submission[t].current => s = t
    /\ \A s \in DOMAIN d.submission :
          d.submission[s].status = "APPROVED" => d.submission[s].current

(* What keeps the standing of each return keeps both properties.           *)
LEMMA KeepsStanding ==
    ASSUME NEW d, NEW e, Standing(d), Keeps(d, e)
    PROVE  Standing(e)
BY DEF Standing, Keeps, SameStanding, SameUnit

(* d with the current returns of the unit of s retired, s excepted.        *)
Retires(d, e, s) ==
    /\ Tables(e)
    /\ DOMAIN e.submission = DOMAIN d.submission
    /\ \A t \in DOMAIN d.submission :
          LET row == d.submission[t]
              new == e.submission[t]
          IN  /\ new.state = row.state /\ new.period = row.period
              /\ new.current <=> row.current /\ (t = s \/ ~SameUnit(d, s, t))
              /\ new.status = "APPROVED" =>
                    row.status = "APPROVED" /\ (new.current <=> row.current)
              /\ row.status = "APPROVED" =>
                    \/ new.status = "APPROVED"
                    \/ new.status = "SUPERSEDED" /\ row.current /\ ~new.current

(* A return that gives way: no longer current, no longer approved.         *)
LEMMA Retired ==
    ASSUME NEW row \in Submission
    PROVE  LET new == [row EXCEPT !.current = FALSE,
                                  !.status = IF @ = "APPROVED" THEN "SUPERSEDED" ELSE @]
           IN  /\ new \in Submission /\ new.state = row.state /\ new.period = row.period
               /\ ~new.current /\ new.status # "APPROVED"
               /\ row.status = "APPROVED" => new.status = "SUPERSEDED"
BY DEF Submission, SubmissionStatus

(* SupersedePrevious retires every rival of return s and touches the       *)
(* standing of no other return.                                            *)
LEMMA SupersedeRetires ==
    ASSUME NEW d, Tables(d), NEW s \in DOMAIN d.submission
    PROVE  Retires(d, SupersedePrevious(d, s), s)
<1> DEFINE previous == {t \in DOMAIN d.submission :
                          t # s /\ SameUnit(d, s, t) /\ d.submission[t].current}
           retired(row) == [row EXCEPT !.current = FALSE,
                                       !.status = IF @ = "APPROVED" THEN "SUPERSEDED" ELSE @]
           rows == [t \in DOMAIN d.submission |->
                      IF t \in previous THEN retired(d.submission[t]) ELSE d.submission[t]]
           swept == [d EXCEPT !.submission = rows]
<1>1. \A t \in DOMAIN d.submission : d.submission[t] \in Submission
    BY DEF Tables, Table
<1>2. ASSUME NEW t \in DOMAIN d.submission
      PROVE  /\ rows[t] \in Submission
             /\ rows[t].state = d.submission[t].state
             /\ rows[t].period = d.submission[t].period
             /\ rows[t].current <=> d.submission[t].current /\ (t = s \/ ~SameUnit(d, s, t))
             /\ rows[t].status = "APPROVED" =>
                   /\ d.submission[t].status = "APPROVED"
                   /\ rows[t].current <=> d.submission[t].current
             /\ d.submission[t].status = "APPROVED" =>
                   \/ rows[t].status = "APPROVED"
                   \/ /\ rows[t].status = "SUPERSEDED"
                      /\ d.submission[t].current /\ ~rows[t].current
    <2>1. CASE t \in previous
        <3>1. rows[t] = retired(d.submission[t])
            BY <2>1
        <3>2. /\ retired(d.submission[t]) \in Submission
              /\ retired(d.submission[t]).state = d.submission[t].state
              /\ retired(d.submission[t]).period = d.submission[t].period
              /\ ~retired(d.submission[t]).current
              /\ retired(d.submission[t]).status # "APPROVED"
              /\ d.submission[t].status = "APPROVED" =>
                    retired(d.submission[t]).status = "SUPERSEDED"
            BY <1>1, Retired
        <3> HIDE DEF retired, rows
        <3> QED BY <2>1, <3>1, <3>2
    <2>2. CASE t \notin previous
        <3>1. rows[t] = d.submission[t]
            BY <2>2
        <3> HIDE DEF rows
        <3> QED BY <1>1, <2>2, <3>1
    <2> QED BY <2>1, <2>2
<1>3. SupersedePrevious(d, s) = CarryForward(swept, previous, s)
    BY DEF SupersedePrevious
<1>4. DOMAIN rows = DOMAIN d.submission
    OBVIOUS
<1>5. Table(rows, SubmissionId, Submission)
    BY <1>2 DEF Tables, Table
<1> HIDE DEF rows, previous
<1>6. Tables(swept) /\ swept.submission = rows
    BY <1>5, ReplaceSubmission
<1>7. s \in SubmissionId
    BY DEF Tables, Table
<1>8. Keeps(swept, CarryForward(swept, previous, s))
    BY <1>6, <1>7, CarryKeeps
<1> HIDE DEF swept
<1> QED
    BY <1>2, <1>3, <1>4, <1>6, <1>8 DEF Retires, Keeps, SameStanding

(* A return whose findings are replaced.                                   *)
LEMMA Revalidated ==
    ASSUME NEW row \in Submission, row.current, NEW f \in SUBSET Finding
    PROVE  LET new == [row EXCEPT !.findings = f,
                         !.status = IF @ = "APPROVED" THEN @ ELSE "VALIDATED"]
           IN  new \in Submission /\ SameStanding(row, new)
BY DEF Submission, SubmissionStatus, SameStanding

(* The returns the rules are run over.                                     *)
InForce(d) == {s \in DOMAIN d.submission : d.submission[s].current}

(* RunValidation writes findings and never makes an approval.              *)
LEMMA ValidationKeeps ==
    ASSUME NEW d, Tables(d), NEW S \in SUBSET InForce(d),
           NEW found, DOMAIN found = S, \A s \in S : found[s] \in SUBSET Finding
    PROVE  Keeps(d, RunValidation(d, found))
<1> DEFINE new(s) == [d.submission[s] EXCEPT !.findings = found[s],
                        !.status = IF @ = "APPROVED" THEN @ ELSE "VALIDATED"]
           rows == [s \in DOMAIN d.submission |->
                      IF s \in DOMAIN found THEN new(s) ELSE d.submission[s]]
<1>1. \A s \in DOMAIN d.submission : d.submission[s] \in Submission
    BY DEF Tables, Table
<1>2. \A s \in DOMAIN d.submission \cap DOMAIN found :
         new(s) \in Submission /\ SameStanding(d.submission[s], new(s))
    BY <1>1, Revalidated DEF InForce
<1>3. RunValidation(d, found) = [d EXCEPT !.submission = rows]
    BY DEF RunValidation
<1> HIDE DEF new
<1>4. \A s \in DOMAIN d.submission :
         rows[s] \in Submission /\ SameStanding(d.submission[s], rows[s])
    BY <1>1, <1>2 DEF SameStanding
<1>5. Table(rows, SubmissionId, Submission) /\ DOMAIN rows = DOMAIN d.submission
    BY <1>4 DEF Tables, Table
<1> HIDE DEF rows
<1> QED
    BY <1>3, <1>4, <1>5, ReplaceSubmission DEF Keeps

(* The image of a finite set is finite.                                    *)
LEMMA ImageFinite ==
    ASSUME NEW S, IsFiniteSet(S), NEW f, DOMAIN f = S
    PROVE  IsFiniteSet({f[x] : x \in S})
<1> DEFINE T == {f[x] : x \in S}
           g == [x \in S |-> f[x]]
<1>1. g \in Surjection(S, T)
    BY DEF Surjection
<1> HIDE DEF g
<1> QED BY <1>1, FS_Surjection

(* The queries a finding opens have keys, are finitely many, and each comes*)
(* from a finding of the return.                                           *)
LEMMA NewQueriesType ==
    ASSUME NEW d, Tables(d), NEW s \in DOMAIN d.submission
    PROVE  /\ NewQueries(d, s) \subseteq QueryId
           /\ IsFiniteSet(NewQueries(d, s))
           /\ \A q \in NewQueries(d, s) : \E f \in Queryable(d, s) :
                 f.rule = q.rule /\ f.indicator = q.indicator
<1> DEFINE row == d.submission[s]
           raisedBy(f) == {q \in DOMAIN d.query :
                          /\ q.state = row.state /\ q.period = row.period
                          /\ q.rule = f.rule /\ q.indicator = f.indicator}
           missing == {g \in Queryable(d, s) : \A q \in raisedBy(g) : ~IsOpen(d, q)}
           id(f) == [state |-> row.state, period |-> row.period, rule |-> f.rule,
                     indicator |-> f.indicator, n |-> Cardinality(raisedBy(f)) + 1]
           ids == [f \in missing |-> id(f)]
<1>1. row \in Submission
    BY DEF Tables, Table
<1>2. missing \subseteq Finding
    BY <1>1 DEF Queryable, Submission
<1>3. IsFiniteSet(missing)
    BY <1>2, ReturnsAssumption, FS_Subset
<1>4. ASSUME NEW f \in missing
      PROVE  id(f) \in QueryId
    <2>1. raisedBy(f) \in SUBSET DOMAIN d.query
        OBVIOUS
    <2>2. Cardinality(raisedBy(f)) \in Nat
        <3> HIDE DEF raisedBy
        <3> QED BY <2>1, FS_Subset, FS_CardinalityType DEF Tables, Table
    <2>3. f \in [rule: Rule, indicator: Indicator \cup {None}, severity: Severity, blocks: BOOLEAN]
        BY <1>2, ReturnsAssumption
    <2> HIDE DEF raisedBy, row
    <2> QED BY <1>1, <2>2, <2>3 DEF QueryId, Submission
<1>5. NewQueries(d, s) = {id(f) : f \in missing}
    BY DEF NewQueries
<1>6. {id(f) : f \in missing} = {ids[f] : f \in missing} /\ DOMAIN ids = missing
    OBVIOUS
<1>8. \A f \in missing :
         f \in Queryable(d, s) /\ id(f).rule = f.rule /\ id(f).indicator = f.indicator
    OBVIOUS
<1> HIDE DEF id, missing, ids
<1>7. IsFiniteSet({ids[f] : f \in missing})
    BY <1>3, <1>6, ImageFinite
<1> QED BY <1>4, <1>5, <1>6, <1>7, <1>8

(* RaiseQueries before it recounts: the figures of S are labelled by their *)
(* findings, and the queries that are missing are opened.                  *)
Opened(d, S) == UNION {NewQueries(d, s) : s \in S}

Owner(d, S, q) == CHOOSE s \in S : q \in NewQueries(d, s)

Fresh(d, S, q) ==
    [submission |-> Owner(d, S, q),
     severity |-> (CHOOSE f \in Queryable(d, Owner(d, S, q)) :
                      f.rule = q.rule /\ f.indicator = q.indicator).severity,
     status |-> "OPEN", answer |-> NoAnswer]

FoundOn(d, S, v) ==
    IF v[1] \in S THEN {f \in Queryable(d, v[1]) : f.indicator = v[2]} ELSE {}

Raised(d, S) ==
    [d EXCEPT
        !.value = [v \in DOMAIN d.value |->
                     [d.value[v] EXCEPT !.label =
                        Relabel(@, \E f \in FoundOn(d, S, v) : f.blocks, FoundOn(d, S, v) # {})]],
        !.query = [q \in DOMAIN d.query \cup Opened(d, S) |->
                     IF q \in Opened(d, S) THEN Fresh(d, S, q) ELSE d.query[q]]]

(* RaiseQueries by its parts.                                              *)
LEMMA RaiseIs ==
    ASSUME NEW d, NEW S
    PROVE  RaiseQueries(d, S) = RefreshCounts(Raised(d, S), S)
BY DEF RaiseQueries, Raised, Opened, Owner, Fresh, FoundOn

(* The queries opened are rows like the others.                            *)
LEMMA OpenedType ==
    ASSUME NEW d, Tables(d), NEW S \in SUBSET DOMAIN d.submission
    PROVE  /\ IsFiniteSet(Opened(d, S)) /\ Opened(d, S) \subseteq QueryId
           /\ \A q \in Opened(d, S) : /\ Owner(d, S, q) \in S
                                     /\ q \in NewQueries(d, Owner(d, S, q))
                                     /\ Fresh(d, S, q) \in Query
<1>1. IsFiniteSet(Opened(d, S)) /\ Opened(d, S) \subseteq QueryId
    <2> DEFINE new == [s \in S |-> NewQueries(d, s)]
    <2>1. \A s \in S : IsFiniteSet(new[s]) /\ new[s] \subseteq QueryId
        BY NewQueriesType
    <2>2. Opened(d, S) = UNION {new[s] : s \in S} /\ DOMAIN new = S
        BY DEF Opened
    <2> HIDE DEF new
    <2>3. IsFiniteSet(S)
        BY FS_Subset DEF Tables, Table
    <2>4. IsFiniteSet({new[s] : s \in S})
        BY <2>2, <2>3, ImageFinite
    <2>5. \A T \in {new[s] : s \in S} : IsFiniteSet(T)
        BY <2>1
    <2>6. IsFiniteSet(UNION {new[s] : s \in S})
        BY <2>4, <2>5, FS_UNION
    <2> QED BY <2>1, <2>2, <2>6
<1>2. ASSUME NEW q \in Opened(d, S)
      PROVE  /\ Owner(d, S, q) \in S /\ q \in NewQueries(d, Owner(d, S, q))
             /\ Fresh(d, S, q) \in Query
    <2> DEFINE s == Owner(d, S, q)
               f == CHOOSE f \in Queryable(d, s) : f.rule = q.rule /\ f.indicator = q.indicator
    <2>1. s \in S /\ q \in NewQueries(d, s)
        <3>1. PICK t \in S : q \in NewQueries(d, t)
            BY DEF Opened
        <3> QED BY <3>1 DEF Owner
    <2>2. s \in SubmissionId /\ d.submission[s] \in Submission
        BY <2>1 DEF Tables, Table
    <2>3. Fresh(d, S, q) = [submission |-> s, severity |-> f.severity,
                            status |-> "OPEN", answer |-> NoAnswer]
        BY DEF Fresh
    <2> HIDE DEF s
    <2>4. \E g \in Queryable(d, s) : g.rule = q.rule /\ g.indicator = q.indicator
        BY <2>1, NewQueriesType
    <2>5. f.severity \in Severity
        <3>1. \A g \in Queryable(d, s) : g.severity \in Severity
            BY <2>2 DEF Queryable, Severity
        <3> QED BY <2>4, <3>1
    <2> HIDE DEF f
    <2>6. Fresh(d, S, q) \in Query
        BY <2>2, <2>3, <2>5 DEF Query, QueryStatus, Answer, NoAnswer
    <2> QED BY <2>1, <2>6 DEF s
<1> QED BY <1>1, <1>2

(* Opening the queries and labelling, before the recount.                  *)
LEMMA RaisedKeeps ==
    ASSUME NEW d, Tables(d), NEW S \in SUBSET DOMAIN d.submission
    PROVE  Keeps(d, Raised(d, S))
<1> DEFINE values == [v \in DOMAIN d.value |->
                        [d.value[v] EXCEPT !.label =
                           Relabel(@, \E f \in FoundOn(d, S, v) : f.blocks, FoundOn(d, S, v) # {})]]
           queries == [q \in DOMAIN d.query \cup Opened(d, S) |->
                         IF q \in Opened(d, S) THEN Fresh(d, S, q) ELSE d.query[q]]
<1>1. Table(values, ValueId, Value)
    <2>1. \A v \in DOMAIN d.value : values[v] \in Value
        BY Relabelled DEF Tables, Table
    <2> QED BY <2>1 DEF Tables, Table
<1>2. Table(queries, QueryId, Query)
    <2>1. \A q \in DOMAIN queries : queries[q] \in Query
        BY OpenedType DEF Tables, Table
    <2>2. IsFiniteSet(DOMAIN queries)
        BY OpenedType, FS_Union DEF Tables, Table
    <2> QED BY <2>1, <2>2, OpenedType DEF Tables, Table
<1>3. Raised(d, S) = [[d EXCEPT !.value = values] EXCEPT !.query = queries]
    BY DEF Raised
<1> HIDE DEF values, queries
<1>4. Keeps(d, [d EXCEPT !.value = values])
    BY <1>1, ReplaceValue
<1>5. Keeps([d EXCEPT !.value = values], [[d EXCEPT !.value = values] EXCEPT !.query = queries])
    BY <1>2, <1>4, ReplaceQuery DEF Keeps
<1> QED BY <1>3, <1>4, <1>5, KeepsTransitive

(* RaiseQueries labels figures and opens queries.                          *)
LEMMA RaiseKeeps ==
    ASSUME NEW d, Tables(d), NEW S \in SUBSET DOMAIN d.submission
    PROVE  Keeps(d, RaiseQueries(d, S))
<1>1. Keeps(d, Raised(d, S))
    BY RaisedKeeps
<1>2. Keeps(Raised(d, S), RefreshCounts(Raised(d, S), S))
    BY <1>1, RefreshKeeps DEF Keeps
<1> QED BY <1>1, <1>2, RaiseIs, KeepsTransitive

(* ReleaseQuarantine lifts a label.                                        *)
LEMMA ReleaseKeeps ==
    ASSUME NEW d, Tables(d), NEW q \in DOMAIN d.query
    PROVE  Keeps(d, ReleaseQuarantine(d, q)) /\ ReleaseQuarantine(d, q).query = d.query
<1> DEFINE v == <<d.query[q].submission, q.indicator>>
           others == {o \in OpenQueriesOn(d, v[1]) \ {q} : o.indicator = q.indicator}
           rows == [d.value EXCEPT ![v].label = Cleared(d.value[v].restated)]
<1>1. CASE v \in DOMAIN d.value /\ ~IsValid(d.value[v].label) /\ others = {}
    <2>1. ReleaseQuarantine(d, q) = [d EXCEPT !.value[v].label = Cleared(d.value[v].restated)]
        BY <1>1 DEF ReleaseQuarantine
    <2>2. [d EXCEPT !.value[v].label = Cleared(d.value[v].restated)] = [d EXCEPT !.value = rows]
        BY DEF Tables
    <2>3. Table(rows, ValueId, Value)
        <3> HIDE DEF others, v
        <3>1. Cleared(d.value[v].restated) \in Label
            BY DEF Cleared, Label
        <3>2. [d.value[v] EXCEPT !.label = Cleared(d.value[v].restated)] \in Value
            BY <1>1, <3>1 DEF Tables, Table, Value
        <3>3. rows = [d.value EXCEPT ![v] = [d.value[v] EXCEPT !.label = Cleared(d.value[v].restated)]]
            OBVIOUS
        <3> QED BY <1>1, <3>2, <3>3 DEF Tables, Table
    <2> HIDE DEF v, rows
    <2> QED BY <2>1, <2>2, <2>3, ReplaceValue
<1>2. CASE ~(v \in DOMAIN d.value /\ ~IsValid(d.value[v].label) /\ others = {})
    <2>1. ReleaseQuarantine(d, q) = d
        BY <1>2 DEF ReleaseQuarantine
    <2> QED BY <2>1 DEF Keeps, SameStanding
<1> QED BY <1>1, <1>2

(* Settle closes the query and recounts its return.                        *)
LEMMA SettleKeeps ==
    ASSUME NEW d, Tables(d), NEW q \in DOMAIN d.query, NEW status \in QueryStatus
    PROVE  Keeps(d, Settle(d, q, status))
<1> DEFINE rows == [d.query EXCEPT ![q].status = status]
           settled == [d EXCEPT !.query[q].status = status]
<1>1. settled = [d EXCEPT !.query = rows]
    BY DEF Tables
<1>2. Table(rows, QueryId, Query)
    <2>1. [d.query[q] EXCEPT !.status = status] \in Query
        BY DEF Tables, Table, Query
    <2>2. rows = [d.query EXCEPT ![q] = [d.query[q] EXCEPT !.status = status]]
        OBVIOUS
    <2> QED BY <2>1, <2>2 DEF Tables, Table
<1>3. Settle(d, q, status) = RefreshCounts(settled, {d.query[q].submission})
    BY DEF Settle
<1> HIDE DEF rows, settled
<1>4. Keeps(d, settled)
    BY <1>1, <1>2, ReplaceQuery
<1>5. Keeps(settled, RefreshCounts(settled, {d.query[q].submission}))
    BY <1>4, RefreshKeeps DEF Keeps
<1> QED BY <1>3, <1>4, <1>5, KeepsTransitive

(* One row of the table of queries is rewritten.                           *)
LEMMA AnswerKeeps ==
    ASSUME NEW d, Tables(d), NEW q \in DOMAIN d.query, NEW row \in Query
    PROVE  Keeps(d, [d EXCEPT !.query = [d.query EXCEPT ![q] = row]])
<1>1. Table([d.query EXCEPT ![q] = row], QueryId, Query)
    BY DEF Tables, Table
<1> QED BY <1>1, ReplaceQuery

(* A restatement is a figure again.                                        *)
LEMMA RestatementType ==
    ASSUME NEW row \in Value, NEW q \in QueryId, query[q].answer.proposed \in Figure
    PROVE  LET new == Restatement(row, q)
               proposed == query[q].answer.proposed
           IN  /\ new \in Value /\ new.label = row.label
               /\ new.value = proposed /\ new.restated = TRUE
               /\ new.original = IF row.original = None THEN row.value ELSE row.original
               /\ new.trail = Append(row.trail, [query |-> q, previous |-> row.value,
                                                 new |-> proposed])
<1> DEFINE proposed == query[q].answer.proposed
           revision == [query |-> q, previous |-> row.value, new |-> proposed]
           first == IF row.original = None THEN row.value ELSE row.original
           trail == Append(row.trail, revision)
           new == [row EXCEPT !.value = proposed, !.original = first, !.restated = TRUE,
                              !.trail = trail]
<1>1. revision \in Revision
    BY DEF Revision, Value
<1>2. trail \in Seq(Revision)
    <2>1. row.trail \in Seq(Revision)
        BY DEF Value
    <2> HIDE DEF revision
    <2> QED BY <1>1, <2>1
<1>3. proposed \in Reported /\ first \in Reported
    BY DEF Value, Reported
<1>4. Restatement(row, q) = new
    BY DEF Restatement
<1> HIDE DEF trail, proposed, first
<1>5. /\ new \in Value /\ new.label = row.label /\ new.value = proposed
      /\ new.restated = TRUE /\ new.original = first /\ new.trail = trail
    BY <1>2, <1>3 DEF Value
<1> QED BY <1>4, <1>5 DEF trail, proposed, first

(* A restatement changes a figure and lengthens its trail.                 *)
LEMMA RestatedKeeps ==
    ASSUME NEW d, Tables(d), NEW v \in DOMAIN d.value, NEW q \in QueryId,
           query[q].answer.proposed \in Figure
    PROVE  LET e == Restated(d, v, q)
           IN  /\ Keeps(d, e) /\ e.query = d.query /\ e.submission = d.submission
               /\ e.value = [d.value EXCEPT ![v] = Restatement(d.value[v], q)]
<1> DEFINE row == Restatement(d.value[v], q)
           rows == [d.value EXCEPT ![v] = row]
<1>1. row \in Value
    BY RestatementType DEF Tables, Table
<1> HIDE DEF row
<1>2. Restated(d, v, q) = [d EXCEPT !.value = rows]
    BY DEF Restated, Tables, row
<1>3. Table(rows, ValueId, Value)
    BY <1>1 DEF Tables, Table
<1>4. [d EXCEPT !.value = rows].value = rows /\ [d EXCEPT !.value = rows].submission = d.submission
    <2> HIDE DEF rows
    <2> QED BY DEF Tables
<1> HIDE DEF rows
<1>5. Keeps(d, [d EXCEPT !.value = rows]) /\ [d EXCEPT !.value = rows].query = d.query
    BY <1>3, ReplaceValue
<1> QED BY <1>2, <1>4, <1>5 DEF rows, row

(* A finite set of numbers has a largest one.                              *)
LEMMA LargestExists ==
    ASSUME NEW V \in SUBSET Nat, IsFiniteSet(V), V # {}
    PROVE  \E n \in V : \A m \in V : m <= n
<1> DEFINE above(n) == {m \in V : m > n}
           T == {above(n) : n \in V}
<1>1. T \subseteq FiniteSubsetsOf(V) /\ T # {}
    <2>1. \A n \in V : above(n) \in SUBSET V
        OBVIOUS
    <2> HIDE DEF above
    <2>2. \A n \in V : IsFiniteSet(above(n))
        BY <2>1, FS_Subset
    <2> QED BY <2>1, <2>2 DEF FiniteSubsetsOf
<1>2. PICK A \in T : \A B \in T : ~(<<B, A>> \in StrictSubsetOrdering(V))
    <2> HIDE DEF T
    <2>1. IsWellFoundedOn(StrictSubsetOrdering(V), FiniteSubsetsOf(V))
        BY FS_StrictSubsetOrderingWellFounded
    <2> QED BY <1>1, <2>1, WFMin
<1>3. PICK n \in V : A = above(n)
    OBVIOUS
<1>4. ASSUME NEW m \in V, m > n
      PROVE  FALSE
    <2>1. above(m) \in T
        OBVIOUS
    <2>2. above(m) \subseteq above(n)
        <3>1. \A k \in V : k > m => k > n
            BY <1>4
        <3> QED BY <3>1
    <2>3. m \in above(n) /\ m \notin above(m)
        BY <1>4
    <2>4. above(m) \subseteq V /\ above(n) \subseteq V
        OBVIOUS
    <2> HIDE DEF above
    <2>5. <<above(m), above(n)>> \in StrictSubsetOrdering(V)
        BY <2>2, <2>3, <2>4 DEF StrictSubsetOrdering
    <2> QED BY <1>2, <1>3, <2>1, <2>5
<1> QED BY <1>4

(* A version is a number: the returns of a unit are finitely many.         *)
LEMMA NextVersionType ==
    ASSUME NEW d, Tables(d), NEW st, NEW p
    PROVE  NextVersion(d, st, p) \in Nat
<1> DEFINE same == {t \in DOMAIN d.submission :
                      d.submission[t].state = st /\ d.submission[t].period = p}
           version == [s \in same |-> d.submission[s].version]
           filedAs == {version[s] : s \in same}
           versions == {0} \cup filedAs
<1>1. IsFiniteSet(same) /\ DOMAIN version = same
    BY FS_Subset DEF Tables, Table
<1>2. \A s \in same : version[s] \in Nat
    BY DEF Tables, Table, Submission
<1>3. NextVersion(d, st, p) = 1 + CHOOSE n \in versions : \A m \in versions : m <= n
    <2>1. versions = {0} \cup {d.submission[s].version : s \in same}
        OBVIOUS
    <2> HIDE DEF versions
    <2> QED BY <2>1 DEF NextVersion
<1> HIDE DEF version, same
<1>4. IsFiniteSet(filedAs)
    BY <1>1, ImageFinite
<1>5. versions \in SUBSET Nat /\ versions # {}
    BY <1>2
<1> HIDE DEF filedAs
<1>6. IsFiniteSet(versions)
    BY <1>4, FS_Union, FS_Singleton
<1> HIDE DEF versions
<1>7. \E n \in versions : \A m \in versions : m <= n
    BY <1>5, <1>6, LargestExists
<1>8. (CHOOSE n \in versions : \A m \in versions : m <= n) \in Nat
    BY <1>5, <1>7
<1> QED BY <1>3, <1>8

(* The new row is uploaded and current; every other return is as it was.   *)
LEMMA AddedTables ==
    ASSUME NEW d, Tables(d), NEW s \in SubmissionId, s \notin DOMAIN d.submission,
           NEW st \in State, NEW p \in Period
    PROVE  LET e == AddSubmission(d, s, st, p)
           IN  /\ Tables(e)
               /\ DOMAIN e.submission = DOMAIN d.submission \cup {s}
               /\ \A t \in DOMAIN d.submission : e.submission[t] = d.submission[t]
               /\ e.submission[s].status = "UPLOADED" /\ e.submission[s].current
               /\ e.submission[s].state = st /\ e.submission[s].period = p
<1> DEFINE row == [state |-> st, period |-> p, version |-> NextVersion(d, st, p),
                   status |-> "UPLOADED", current |-> TRUE, findings |-> {},
                   openCount |-> 0, heldCount |-> 0]
           rows == [t \in DOMAIN d.submission \cup {s} |->
                      IF t = s THEN row ELSE d.submission[t]]
<1>1. row \in Submission
    BY NextVersionType DEF Submission, SubmissionStatus
<1>2. row.status = "UPLOADED" /\ row.current /\ row.state = st /\ row.period = p
    OBVIOUS
<1>3. AddSubmission(d, s, st, p) = [d EXCEPT !.submission = rows]
    BY DEF AddSubmission
<1> HIDE DEF row
<1>4. Table(rows, SubmissionId, Submission)
    <2>1. IsFiniteSet(DOMAIN d.submission \cup {s})
        BY FS_AddElement DEF Tables, Table
    <2> QED BY <1>1, <2>1 DEF Tables, Table
<1>5. /\ DOMAIN rows = DOMAIN d.submission \cup {s}
      /\ \A t \in DOMAIN d.submission : rows[t] = d.submission[t]
      /\ rows[s] = row
    OBVIOUS
<1> HIDE DEF rows
<1> QED BY <1>2, <1>3, <1>4, <1>5, ReplaceSubmission

(* PersistValues adds figures.                                             *)
LEMMA PersistKeeps ==
    ASSUME NEW d, Tables(d), NEW s \in SubmissionId, NEW report \in Reports
    PROVE  Keeps(d, PersistValues(d, s, report))
<1> DEFINE keys == DOMAIN d.value \cup ({s} \X DOMAIN report)
           first(v) == [value |-> report[v[2]], original |-> report[v[2]], restated |-> FALSE,
                        label |-> "CLEAN", trail |-> <<>>]
           rows == [v \in keys |-> IF v \in {s} \X DOMAIN report THEN first(v) ELSE d.value[v]]
<1>1. PICK I \in SUBSET Indicator : report \in [I -> Reported]
    BY ReturnsAssumption
<1>2. PersistValues(d, s, report) = [d EXCEPT !.value = rows]
    BY DEF PersistValues
<1>3. IsFiniteSet(keys) /\ keys \subseteq ValueId
    <2>1. IsFiniteSet(I)
        BY ReturnsAssumption, FS_Subset
    <2>2. IsFiniteSet({s} \X I)
        BY <2>1, FS_Singleton, FS_Product
    <2>3. DOMAIN report = I
        BY <1>1
    <2> QED BY <2>2, <2>3, FS_Union DEF Tables, Table, ValueId
<1>4. ASSUME NEW v \in {s} \X DOMAIN report
      PROVE  first(v) \in Value
    <2>1. report[v[2]] \in Reported
        BY <1>1
    <2>2. <<>> \in Seq(Revision)
        OBVIOUS
    <2> QED BY <2>1, <2>2 DEF Value, Label
<1> HIDE DEF first, keys
<1>5. \A v \in keys : rows[v] \in Value
    BY <1>4 DEF Tables, Table, keys
<1>6. Table(rows, ValueId, Value)
    BY <1>3, <1>5 DEF Table
<1> HIDE DEF rows
<1> QED BY <1>2, <1>6, ReplaceValue

(* A run of the rules, with or without the queries it opens.               *)
LEMMA CheckKeeps ==
    ASSUME NEW d, Tables(d), NEW S \in SUBSET InForce(d), NEW raise,
           NEW found, DOMAIN found = S, \A s \in S : found[s] \in SUBSET Finding
    PROVE  Keeps(d, Check(d, found, raise))
<1> DEFINE checked == RunValidation(d, found)
<1>1. Keeps(d, checked)
    BY ValidationKeeps
<1>2. Check(d, found, raise) = IF raise THEN RaiseQueries(checked, S) ELSE checked
    BY DEF Check
<1> HIDE DEF checked
<1>3. Keeps(checked, RaiseQueries(checked, S))
    BY <1>1, RaiseKeeps DEF Keeps, InForce
<1> QED BY <1>1, <1>2, <1>3, KeepsTransitive

(* Return s has no current rival.                                          *)
Sole(d, s) ==
    \A t \in DOMAIN d.submission : t # s /\ SameUnit(d, s, t) => ~d.submission[t].current

(* The standing of every return but s, which may be a rival of the current *)
(* one: what holds between adding a version and retiring the others.       *)
StandingBeside(d, s) ==
    /\ \A t, u \in DOMAIN d.submission \ {s} :
          /\ SameUnit(d, t, u) /\ d.submission[t].current /\ d.submission[u].current => t = u
    /\ \A t \in DOMAIN d.submission :
          d.submission[t].status = "APPROVED" => d.submission[t].current

(* Retiring the others leaves at most one current return of the unit.      *)
LEMMA SupersedeStanding ==
    ASSUME NEW d, Tables(d), NEW s \in DOMAIN d.submission, StandingBeside(d, s)
    PROVE  LET e == SupersedePrevious(d, s)
           IN  /\ Tables(e) /\ Standing(e) /\ Sole(e, s)
               /\ DOMAIN e.submission = DOMAIN d.submission
               /\ d.submission[s].current => e.submission[s].current
<1> DEFINE e == SupersedePrevious(d, s)
<1>1. Retires(d, e, s)
    BY SupersedeRetires
<1> HIDE DEF e
<1>2. \A t, u \in DOMAIN e.submission : SameUnit(e, t, u) <=> SameUnit(d, t, u)
    BY <1>1 DEF Retires, SameUnit
<1>3. Sole(e, s)
    BY <1>1, <1>2 DEF Sole, Retires
<1>4. ASSUME NEW t \in DOMAIN e.submission, NEW u \in DOMAIN e.submission,
             SameUnit(e, t, u), e.submission[t].current, e.submission[u].current
      PROVE  t = u
    <2>1. CASE t = s \/ u = s
        <3>1. SameUnit(e, u, t)
            BY <1>4 DEF SameUnit
        <3> QED BY <1>3, <1>4, <2>1, <3>1 DEF Sole
    <2>2. CASE t # s /\ u # s
        <3>1. d.submission[t].current /\ d.submission[u].current
            BY <1>1, <1>4 DEF Retires
        <3> QED BY <1>1, <1>2, <1>4, <2>2, <3>1 DEF StandingBeside, Retires
    <2> QED BY <2>1, <2>2
<1>5. \A t \in DOMAIN e.submission : e.submission[t].status = "APPROVED" => e.submission[t].current
    BY <1>1 DEF StandingBeside, Retires
<1> QED BY <1>1, <1>3, <1>4, <1>5 DEF Standing, Retires, e

(* A helper that keeps the standing creates no rival.                      *)
LEMMA KeepsSole ==
    ASSUME NEW d, NEW e, NEW s \in DOMAIN d.submission, Sole(d, s), Keeps(d, e)
    PROVE  Sole(e, s)
BY DEF Sole, Keeps, SameStanding, SameUnit

(* Approving a return that has no current rival keeps both properties.     *)
LEMMA ApprovedStanding ==
    ASSUME NEW d, Tables(d), NEW s \in DOMAIN d.submission, Standing(d), Sole(d, s)
    PROVE  LET e == Approved(d, s)
           IN  Tables(e) /\ Standing(e) /\ DOMAIN e.submission = DOMAIN d.submission
<1> DEFINE row == [d.submission[s] EXCEPT !.status = "APPROVED", !.current = TRUE]
           rows == [d.submission EXCEPT ![s] = row]
           e == Approved(d, s)
<1>1. d.submission[s] \in Submission
    BY DEF Tables, Table
<1>2. /\ row \in Submission /\ row.current
      /\ row.state = d.submission[s].state /\ row.period = d.submission[s].period
    BY <1>1 DEF Submission, SubmissionStatus
<1>3. e = [d EXCEPT !.submission = rows]
    BY DEF Approved, Tables
<1> HIDE DEF row, e
<1>4. Table(rows, SubmissionId, Submission)
    BY <1>2 DEF Tables, Table
<1>5. /\ DOMAIN rows = DOMAIN d.submission /\ rows[s] = row
      /\ \A t \in DOMAIN d.submission \ {s} : rows[t] = d.submission[t]
    BY DEF Tables, Table
<1> HIDE DEF rows
<1>6. Tables(e) /\ e.submission = rows
    BY <1>3, <1>4, ReplaceSubmission
<1>7. Standing(e)
    BY <1>2, <1>5, <1>6 DEF Standing, Sole, SameUnit
<1> QED BY <1>5, <1>6, <1>7 DEF e

(* Return s takes the place of the others of its state and period: an      *)
(* approval is withdrawn from these only.                                  *)
TakesOver(d, e, s) ==
    /\ s \in DOMAIN d.submission /\ DOMAIN e.submission = DOMAIN d.submission
    /\ \A t \in DOMAIN d.submission :
          /\ e.submission[t].state = d.submission[t].state
          /\ e.submission[t].period = d.submission[t].period
    /\ \A t \in DOMAIN d.submission :
          d.submission[t].status = "APPROVED" =>
             \/ e.submission[t].status = "APPROVED"
             \/ /\ e.submission[t].status = "SUPERSEDED" /\ ~e.submission[t].current
                /\ t # s /\ SameUnit(e, t, s)

(* Superseding withdraws approvals from rivals of s and from no other.     *)
LEMMA SupersedeTakesOver ==
    ASSUME NEW d, Tables(d), NEW s \in DOMAIN d.submission
    PROVE  TakesOver(d, SupersedePrevious(d, s), s)
BY SupersedeRetires DEF Retires, TakesOver, SameUnit

(* What keeps the standing keeps that.                                     *)
LEMMA KeepsTakesOver ==
    ASSUME NEW d, NEW e, NEW f, NEW s, TakesOver(d, e, s), Keeps(e, f)
    PROVE  TakesOver(d, f, s) /\ (e.submission[s].current => f.submission[s].current)
BY DEF TakesOver, Keeps, SameStanding, SameUnit

(* So does approving s itself, which ends up current.                      *)
LEMMA ApprovedTakesOver ==
    ASSUME NEW d, NEW e, Tables(e), NEW s, TakesOver(d, e, s)
    PROVE  TakesOver(d, Approved(e, s), s) /\ Approved(e, s).submission[s].current
<1> DEFINE row == [e.submission[s] EXCEPT !.status = "APPROVED", !.current = TRUE]
           rows == [e.submission EXCEPT ![s] = row]
<1>1. s \in DOMAIN e.submission /\ e.submission[s] \in Submission
    BY DEF TakesOver, Tables, Table
<1>2. /\ row.status = "APPROVED" /\ row.current
      /\ row.state = e.submission[s].state /\ row.period = e.submission[s].period
    BY <1>1 DEF Submission
<1>3. Approved(e, s).submission = rows
    BY DEF Approved, Tables
<1> HIDE DEF row
<1>4. /\ DOMAIN rows = DOMAIN e.submission /\ rows[s] = row
      /\ \A t \in DOMAIN e.submission \ {s} : rows[t] = e.submission[t]
    BY <1>1
<1> HIDE DEF rows
<1> QED BY <1>2, <1>3, <1>4 DEF TakesOver, SameUnit

-----------------------------------------------------------------------------
(* The inductive invariant.  Neither property is inductive alone: that an  *)
(* approval is withdrawn from the return that gives way needs it to be the *)
(* current one, and that approving a return makes no second current one    *)
(* needs the rows to be typed and the ids to be fresh.                     *)
IInv ==
    /\ filed \in Nat
    /\ DOMAIN submission \subseteq 1..filed
    /\ Tables(Db)
    /\ Standing(Db)

(* What ApprovalStands says of a step.                                     *)
Stands ==
    \A s \in Rows :
        submission[s].status = "APPROVED" /\ submission'[s].status # "APPROVED"
        => \/ submission'[s].status = "REJECTED"
           \/ /\ submission'[s].status = "SUPERSEDED"
              /\ \E t \in DOMAIN submission' :
                    t # s /\ SameUnit(Db, s, t)' /\ submission'[t].current

(* What only keeps the standing withdraws no approval.                     *)
LEMMA KeepingStands ==
    ASSUME NEW d, Commit(d), Keeps(Db, d)
    PROVE  Stands
BY DEF Commit, Keeps, SameStanding, Stands, Rows, Db

(* A return that takes over is current in the end.                         *)
LEMMA TakingOverStands ==
    ASSUME NEW d, NEW e, NEW s, Commit(e), TakesOver(d, e, s), e.submission[s].current,
           \A t \in DOMAIN submission : t \in DOMAIN d.submission /\ d.submission[t] = submission[t]
    PROVE  Stands
<1>1. submission' = e.submission
    BY DEF Commit
<1>2. \A t \in DOMAIN e.submission : SameUnit(Db, t, s)' <=> SameUnit(e, t, s)
    BY <1>1 DEF SameUnit, Db
<1> QED BY <1>1, <1>2 DEF TakesOver, Stands, Rows

(* What a transaction leaves behind is what it committed.                  *)
LEMMA CommitStep ==
    ASSUME NEW d, Commit(d), Tables(d), Standing(d),
           filed' \in Nat, DOMAIN d.submission \subseteq 1..filed'
    PROVE  IInv'
<1>1. d = [submission |-> d.submission, value |-> d.value, query |-> d.query]
    BY DEF Tables
<1>2. Db' = d
    BY <1>1 DEF Commit, Db
<1>3. DOMAIN submission' \subseteq 1..filed'
    BY DEF Commit
<1> QED BY <1>2, <1>3 DEF IInv, Tables, Standing, Table, SameUnit

(* A handler that files nothing and only keeps the standing.               *)
LEMMA KeepingStep ==
    ASSUME IInv, NEW d, Commit(d), Keeps(Db, d), UNCHANGED filed
    PROVE  IInv' /\ Stands
<1>1. Tables(d) /\ Standing(d)
    BY KeepsStanding DEF IInv, Keeps
<1>2. DOMAIN d.submission \subseteq 1..filed' /\ filed' \in Nat
    BY DEF IInv, Keeps, Db
<1> QED BY <1>1, <1>2, CommitStep, KeepingStands

(* An empty database satisfies the invariant.                              *)
LEMMA InitIInv == Init => IInv
<1> SUFFICES ASSUME Init PROVE IInv
    OBVIOUS
<1>1. submission = <<>> /\ value = <<>> /\ query = <<>> /\ filed = 0
    BY DEF Init
<1>2. DOMAIN <<>> = {}
    OBVIOUS
<1>3. IsFiniteSet({})
    BY FS_EmptySet
<1> QED BY <1>1, <1>2, <1>3 DEF IInv, Tables, Table, Standing, Db

(* A filed return: the version lands, the others give way, then come the   *)
(* figures, the rules, the decision on the spot and the enclosing quarter. *)
LEMMA IngestStep ==
    ASSUME IInv, NEW st \in State, NEW p \in Period, NEW report \in Reports,
           NEW found \in SUBSET Finding, NEW auto \in BOOLEAN, NEW raise \in BOOLEAN,
           NEW foundQ \in SUBSET Finding,
           Ingest(st, p, report, found, auto, raise, foundQ)
    PROVE  /\ IInv' /\ Stands
           /\ submission'[filed'].state = st /\ submission'[filed'].period = p
<1> DEFINE s == filed + 1
           added == AddSubmission(Db, s, st, p)
           alone == SupersedePrevious(added, s)
           stored == PersistValues(alone, s, report)
           checked == Check(stored, [t \in {s} |-> found], raise)
           decided == IF auto THEN Approved(checked, s) ELSE checked
           coarser == EnclosingReturns(decided, st, p)
           final == Check(decided, [t \in coarser |-> foundQ], raise)
<1>1. /\ filed \in Nat /\ Tables(Db) /\ Standing(Db)
      /\ DOMAIN Db.submission \subseteq 1..filed
    BY DEF IInv, Db
<1>2. s \in SubmissionId /\ s \notin DOMAIN Db.submission
    BY <1>1 DEF SubmissionId
<1>3. filed' = s /\ Commit(final)
    BY DEF Ingest
<1> HIDE DEF s
<1>4. /\ Tables(added) /\ StandingBeside(added, s)
      /\ DOMAIN added.submission = DOMAIN Db.submission \cup {s}
      /\ \A t \in DOMAIN Db.submission : added.submission[t] = Db.submission[t]
      /\ added.submission[s].current
      /\ added.submission[s].state = st /\ added.submission[s].period = p
    <2>1. /\ Tables(added)
          /\ DOMAIN added.submission = DOMAIN Db.submission \cup {s}
          /\ \A t \in DOMAIN Db.submission : added.submission[t] = Db.submission[t]
          /\ added.submission[s].status = "UPLOADED" /\ added.submission[s].current
          /\ added.submission[s].state = st /\ added.submission[s].period = p
        BY <1>1, <1>2, AddedTables
    <2> HIDE DEF added
    <2> QED BY <1>1, <2>1 DEF StandingBeside, Standing, SameUnit
<1> HIDE DEF added
<1>5. /\ Tables(alone) /\ Standing(alone) /\ Sole(alone, s)
      /\ DOMAIN alone.submission = DOMAIN added.submission
      /\ alone.submission[s].current /\ TakesOver(added, alone, s)
    BY <1>4, SupersedeStanding, SupersedeTakesOver
<1> HIDE DEF alone
<1>6. Keeps(alone, stored)
    BY <1>2, <1>5, PersistKeeps
<1> HIDE DEF stored
<1>7. Keeps(stored, checked)
    <2> DEFINE S == {s}
               f == [t \in S |-> found]
    <2>1. S \in SUBSET InForce(stored) /\ Tables(stored)
        BY <1>4, <1>5, <1>6 DEF Keeps, SameStanding, InForce
    <2>2. DOMAIN f = S /\ \A t \in S : f[t] \in SUBSET Finding
        OBVIOUS
    <2>3. checked = Check(stored, f, raise)
        OBVIOUS
    <2> HIDE DEF S, f, checked
    <2> QED BY <2>1, <2>2, <2>3, CheckKeeps
<1> HIDE DEF checked
<1>8. /\ Tables(checked) /\ Standing(checked) /\ Sole(checked, s)
      /\ DOMAIN checked.submission = DOMAIN added.submission
      /\ TakesOver(added, checked, s) /\ checked.submission[s].current
    <2>1. Keeps(alone, checked)
        BY <1>6, <1>7, KeepsTransitive
    <2>2. TakesOver(added, checked, s) /\ checked.submission[s].current
        BY <1>5, <2>1, KeepsTakesOver
    <2> QED BY <1>4, <1>5, <2>1, <2>2, KeepsStanding, KeepsSole DEF Keeps
<1>9. /\ Tables(decided) /\ Standing(decided)
      /\ DOMAIN decided.submission = DOMAIN added.submission
      /\ TakesOver(added, decided, s) /\ decided.submission[s].current
    BY <1>4, <1>8, ApprovedStanding, ApprovedTakesOver
<1> HIDE DEF decided
<1>10. Keeps(decided, final)
    <2> DEFINE f == [t \in coarser |-> foundQ]
    <2>1. coarser \in SUBSET InForce(decided)
        BY DEF EnclosingReturns, CurrentFor, InForce
    <2>2. DOMAIN f = coarser /\ \A t \in coarser : f[t] \in SUBSET Finding
        OBVIOUS
    <2>3. final = Check(decided, f, raise)
        OBVIOUS
    <2> HIDE DEF coarser, f, final
    <2> QED BY <1>9, <2>1, <2>2, <2>3, CheckKeeps
<1> HIDE DEF final
<1>11. Tables(final) /\ Standing(final)
    BY <1>9, <1>10, KeepsStanding DEF Keeps
<1>12. filed' \in Nat /\ DOMAIN final.submission \subseteq 1..filed'
    BY <1>1, <1>3, <1>4, <1>9, <1>10 DEF Keeps, s
<1>13. TakesOver(added, final, s) /\ final.submission[s].current
    BY <1>9, <1>10, KeepsTakesOver
<1>14. Stands
    <2>1. \A t \in DOMAIN submission : t \in DOMAIN added.submission
                                       /\ added.submission[t] = submission[t]
        BY <1>4 DEF Db
    <2> QED BY <1>3, <1>13, <2>1, TakingOverStands
<1>15. submission'[filed'].state = st /\ submission'[filed'].period = p
    BY <1>3, <1>4, <1>13 DEF TakesOver, Commit
<1> QED BY <1>3, <1>11, <1>12, <1>14, <1>15, CommitStep

(* A version is approved: the one in force gives way to it first.          *)
LEMMA ApproveStep ==
    ASSUME IInv, NEW s \in DOMAIN submission, Approve(s)
    PROVE  IInv' /\ Stands
<1> DEFINE alone == SupersedePrevious(Db, s)
           final == Approved(alone, s)
<1>1. Commit(final) /\ filed' = filed
    BY DEF Approve
<1>2. StandingBeside(Db, s) /\ s \in DOMAIN Db.submission
    BY DEF IInv, Standing, StandingBeside, Db
<1>3. /\ Tables(alone) /\ Standing(alone) /\ Sole(alone, s)
      /\ DOMAIN alone.submission = DOMAIN Db.submission
    BY <1>2, SupersedeStanding DEF IInv
<1> HIDE DEF alone
<1>4. /\ Tables(final) /\ Standing(final)
      /\ DOMAIN final.submission = DOMAIN Db.submission
    BY <1>2, <1>3, ApprovedStanding
<1> HIDE DEF final
<1>5. filed' \in Nat /\ DOMAIN final.submission \subseteq 1..filed'
    BY <1>1, <1>4 DEF IInv, Db
<1>6. Stands
    <2>1. final.submission[s].current /\ TakesOver(Db, final, s)
        BY <1>2, <1>3, SupersedeTakesOver, ApprovedTakesOver DEF IInv, final, alone
    <2> QED BY <1>1, <2>1, TakingOverStands DEF Db
<1> QED BY <1>1, <1>4, <1>5, <1>6, CommitStep

(* A rejected version is no longer current, and no other becomes it.       *)
LEMMA RejectStep ==
    ASSUME IInv, NEW s \in DOMAIN submission, Reject(s)
    PROVE  IInv' /\ Stands
<1> DEFINE row == [submission[s] EXCEPT !.status = "REJECTED", !.current = FALSE]
           rows == [submission EXCEPT ![s] = row]
           final == [Db EXCEPT !.submission = rows]
<1>1. Commit(final) /\ filed' = filed
    <2>1. [Db EXCEPT !.submission[s].status = "REJECTED", !.submission[s].current = FALSE]
            = final
        BY DEF Db
    <2> QED BY <2>1 DEF Reject
<1>2. Db.submission = submission /\ Table(submission, SubmissionId, Submission)
    BY DEF IInv, Tables, Db
<1>3. /\ row \in Submission /\ row.status = "REJECTED" /\ ~row.current
      /\ row.state = submission[s].state /\ row.period = submission[s].period
    BY <1>2 DEF Table, Submission, SubmissionStatus
<1> HIDE DEF row
<1>4. /\ Table(rows, SubmissionId, Submission) /\ DOMAIN rows = DOMAIN submission
      /\ rows[s] = row /\ \A t \in DOMAIN submission \ {s} : rows[t] = submission[t]
    BY <1>2, <1>3 DEF Table
<1> HIDE DEF rows
<1>5. Tables(final) /\ final.submission = rows
    BY <1>4, ReplaceSubmission DEF IInv
<1> HIDE DEF final
<1>6. Standing(final)
    BY <1>2, <1>3, <1>4, <1>5 DEF Standing, SameUnit, IInv
<1>7. filed' \in Nat /\ DOMAIN final.submission \subseteq 1..filed'
    BY <1>1, <1>4, <1>5 DEF IInv
<1>8. Stands
    BY <1>1, <1>2, <1>3, <1>4, <1>5 DEF Stands, Rows, Commit
<1> QED BY <1>1, <1>5, <1>6, <1>7, <1>8, CommitStep

(* A deleted return takes its figures along and leaves its queries behind. *)
LEMMA DeleteStep ==
    ASSUME IInv, NEW s \in DOMAIN submission, Delete(s)
    PROVE  IInv' /\ Stands
<1> DEFINE rows == [t \in DOMAIN submission \ {s} |-> submission[t]]
           values == [v \in {w \in DOMAIN value : w[1] # s} |-> value[v]]
           orphan(q) == [query[q] EXCEPT !.submission = None]
           queries == [q \in DOMAIN query |->
                         IF query[q].submission = s THEN orphan(q) ELSE query[q]]
           final == [submission |-> rows, value |-> values, query |-> queries]
<1>1. Commit(final) /\ filed' = filed
    BY DEF Delete
<1>2. /\ Table(submission, SubmissionId, Submission)
      /\ Table(value, ValueId, Value) /\ Table(query, QueryId, Query)
    BY DEF IInv, Tables, Db
<1>3. Table(rows, SubmissionId, Submission)
    BY <1>2, FS_Subset DEF Table
<1>4. Table(values, ValueId, Value)
    <2>1. DOMAIN values \in SUBSET DOMAIN value
        OBVIOUS
    <2>2. IsFiniteSet(DOMAIN values)
        BY <1>2, <2>1, FS_Subset DEF Table
    <2>3. \A v \in DOMAIN values : values[v] \in Value
        BY <1>2 DEF Table
    <2> QED BY <1>2, <2>1, <2>2, <2>3 DEF Table
<1>5. Table(queries, QueryId, Query)
    <2>1. \A q \in DOMAIN query : orphan(q) \in Query
        BY <1>2 DEF Table, Query
    <2> HIDE DEF orphan
    <2> QED BY <1>2, <2>1 DEF Table
<1>6. \A t \in DOMAIN rows : t \in DOMAIN submission /\ rows[t] = submission[t]
    OBVIOUS
<1>7. /\ Tables(final) /\ final.submission = rows
    <2> HIDE DEF rows, values, queries
    <2> QED BY <1>3, <1>4, <1>5 DEF Tables
<1> HIDE DEF rows, final
<1>8. Standing(final)
    BY <1>6, <1>7 DEF Standing, SameUnit, IInv, Db
<1>9. filed' \in Nat /\ DOMAIN final.submission \subseteq 1..filed'
    BY <1>1, <1>6, <1>7 DEF IInv
<1>10. Stands
    BY <1>1, <1>6, <1>7 DEF Stands, Rows, Commit
<1> QED BY <1>1, <1>7, <1>8, <1>9, <1>10, CommitStep

(* The rules are run again for all of a period.                            *)
LEMMA RevalidateStep ==
    ASSUME IInv, \E p \in Period : RevalidatePeriod(p)
    PROVE  IInv' /\ Stands
<1>1. Tables(Db) /\ Db.submission = submission
    BY DEF IInv, Db
<1>2. PICK p \in Period : RevalidatePeriod(p)
    OBVIOUS
<1> DEFINE S == {s \in DOMAIN submission : submission[s].period = p /\ submission[s].current}
<1>3. PICK f \in [S -> SUBSET Finding] : Commit(Check(Db, f, TRUE))
    BY <1>2 DEF RevalidatePeriod
<1> DEFINE final == Check(Db, f, TRUE)
<1>4. filed' = filed
    BY <1>2 DEF RevalidatePeriod
<1>5. S \in SUBSET InForce(Db)
    BY <1>1 DEF InForce
<1>6. DOMAIN f = S /\ \A t \in S : f[t] \in SUBSET Finding
    OBVIOUS
<1> HIDE DEF S
<1>7. Keeps(Db, final)
    BY <1>1, <1>5, <1>6, CheckKeeps
<1>8. Commit(final)
    BY <1>3
<1> HIDE DEF final
<1> QED BY <1>4, <1>7, <1>8, KeepingStep

(* The steps of the query workflow that only write the query's own row.    *)
LEMMA QueryRowStep ==
    ASSUME IInv, NEW q \in DOMAIN query, NEW row \in Query,
           Commit([Db EXCEPT !.query = [query EXCEPT ![q] = row]]), UNCHANGED filed
    PROVE  IInv' /\ Stands
<1> DEFINE final == [Db EXCEPT !.query = [Db.query EXCEPT ![q] = row]]
<1>1. Tables(Db) /\ Db.query = query
    BY DEF IInv, Db
<1>2. Keeps(Db, final)
    BY <1>1, AnswerKeeps
<1>3. Commit(final)
    BY <1>1
<1> HIDE DEF final
<1> QED BY <1>2, <1>3, KeepingStep

(* A response, a rejected answer and an escalation.                        *)
LEMMA AnswerStep ==
    ASSUME IInv, NEW q \in DOMAIN query,
           \/ \E proposed \in Figure \cup {None}, target \in Period : Respond(q, proposed, target)
           \/ RejectAnswer(q)
           \/ Escalate(q)
    PROVE  IInv' /\ Stands
<1>1. query[q] \in Query
    BY DEF IInv, Tables, Table, Db
<1>2. ASSUME NEW proposed \in Figure \cup {None}, NEW target \in Period,
             Respond(q, proposed, target)
      PROVE  IInv' /\ Stands
    <2> DEFINE answer == [proposed |-> proposed, target |-> target]
               row == [query[q] EXCEPT !.answer = answer, !.status = "RESPONDED"]
    <2>1. row \in Query
        BY <1>1 DEF Query, QueryStatus, Answer
    <2>2. [Db EXCEPT !.query[q].answer = answer, !.query[q].status = "RESPONDED"]
            = [Db EXCEPT !.query = [query EXCEPT ![q] = row]]
        BY DEF Db
    <2>3. Commit([Db EXCEPT !.query = [query EXCEPT ![q] = row]]) /\ filed' = filed
        BY <1>2, <2>2 DEF Respond
    <2> HIDE DEF row
    <2> QED BY <2>1, <2>3, QueryRowStep
<1>3. ASSUME NEW status \in QueryStatus,
             Commit([Db EXCEPT !.query[q].status = status]), UNCHANGED filed
      PROVE  IInv' /\ Stands
    <2> DEFINE row == [query[q] EXCEPT !.status = status]
    <2>1. row \in Query
        BY <1>1 DEF Query
    <2>2. [Db EXCEPT !.query[q].status = status] = [Db EXCEPT !.query = [query EXCEPT ![q] = row]]
        BY DEF Db
    <2>3. Commit([Db EXCEPT !.query = [query EXCEPT ![q] = row]])
        BY <1>3, <2>2
    <2> HIDE DEF row
    <2> QED BY <1>3, <2>1, <2>3, QueryRowStep
<1>4. CASE RejectAnswer(q)
    BY <1>3, <1>4 DEF RejectAnswer, QueryStatus
<1>5. CASE Escalate(q)
    BY <1>3, <1>5 DEF Escalate, QueryStatus
<1> QED BY <1>2, <1>4, <1>5

(* A query is settled: its flag may come off, its return is recounted.     *)
LEMMA SettledKeeps ==
    ASSUME NEW d, Tables(d), NEW q \in DOMAIN d.query, NEW status \in QueryStatus
    PROVE  Keeps(d, Settle(ReleaseQuarantine(d, q), q, status))
<1> DEFINE e == ReleaseQuarantine(d, q)
<1>1. Keeps(d, e) /\ e.query = d.query
    BY ReleaseKeeps
<1> HIDE DEF e
<1>2. Keeps(e, Settle(e, q, status))
    BY <1>1, SettleKeeps DEF Keeps
<1> QED BY <1>1, <1>2, KeepsTransitive DEF e

(* Withdrawal, and acceptance with or without a figure to correct.         *)
LEMMA SettleStep ==
    ASSUME IInv, NEW q \in DOMAIN query, Accept(q) \/ Withdraw(q)
    PROVE  IInv' /\ Stands
<1>1. /\ Tables(Db) /\ Db.query = query /\ Db.value = value
      /\ query[q] \in Query
    BY DEF IInv, Tables, Table, Db
<1>2. filed' = filed
    BY DEF Accept, Withdraw
<1>3. ASSUME NEW d, Keeps(Db, d), d.query = query, NEW status \in QueryStatus,
             Commit(Settle(ReleaseQuarantine(d, q), q, status))
      PROVE  IInv' /\ Stands
    <2> DEFINE final == Settle(ReleaseQuarantine(d, q), q, status)
    <2>1. Keeps(d, final)
        BY <1>3, SettledKeeps DEF Keeps
    <2>2. Commit(final)
        BY <1>3
    <2> HIDE DEF final
    <2>3. Keeps(Db, final)
        BY <1>3, <2>1, KeepsTransitive
    <2> QED BY <1>2, <2>2, <2>3, KeepingStep
<1>4. Keeps(Db, Db)
    BY <1>1 DEF Keeps, SameStanding
<1>5. CASE Withdraw(q)
    BY <1>1, <1>3, <1>4, <1>5 DEF Withdraw, QueryStatus
<1>6. CASE Accept(q)
    <2>1. CASE query[q].answer.proposed = None
        BY <1>1, <1>3, <1>4, <1>6, <2>1 DEF Accept, QueryStatus
    <2>2. CASE query[q].answer.proposed # None
        <3>1. PICK v \in Corrects(q) :
                 Commit(Settle(ReleaseQuarantine(Restated(Db, v, q), q), q, "ACCEPTED"))
            BY <1>6, <2>2 DEF Accept
        <3>2. v \in DOMAIN Db.value /\ Db.value[v] = value[v]
            BY <1>1 DEF Corrects
        <3>3. q \in QueryId
            BY <1>1 DEF Tables, Table
        <3>4. query[q].answer.proposed \in Figure
            <4>1. query[q].answer \in Answer \cup {NoAnswer}
                BY <1>1 DEF Query
            <4> QED BY <2>2, <4>1 DEF Answer, NoAnswer
        <3>5. Keeps(Db, Restated(Db, v, q)) /\ Restated(Db, v, q).query = query
            BY <1>1, <3>2, <3>3, <3>4, RestatedKeeps
        <3> QED BY <1>3, <3>1, <3>5 DEF QueryStatus
    <2> QED BY <2>1, <2>2
<1> QED BY <1>5, <1>6

(* No step breaks the invariant or quietly withdraws an approval.          *)
LEMMA NextIInv == IInv /\ [Next]_vars => IInv' /\ Stands
<1> SUFFICES ASSUME IInv, [Next]_vars PROVE IInv' /\ Stands
    OBVIOUS
<1>1. CASE Filing
    BY <1>1, IngestStep DEF Filing
<1>2. CASE Review
    BY <1>2, ApproveStep, RejectStep, DeleteStep, RevalidateStep DEF Review
<1>3. CASE Workflow
    BY <1>3, AnswerStep, SettleStep DEF Workflow
<1>4. CASE UNCHANGED tables
    <2>1. IInv'
        BY <1>4 DEF tables, IInv, Tables, Table, Standing, SameUnit, Db
    <2>2. Stands
        BY <1>4 DEF tables, Stands, Rows
    <2> QED BY <2>1, <2>2
<1>5. CASE Administration
    BY <1>4, <1>5 DEF Administration
<1>6. CASE UNCHANGED vars
    BY <1>4, <1>6 DEF vars, tables
<1> QED BY <1>1, <1>2, <1>3, <1>5, <1>6 DEF Next

(* So the invariant holds of every database the handlers produce.          *)
LEMMA Always == Spec => []IInv
BY InitIInv, NextIInv, PTL DEF Spec

-----------------------------------------------------------------------------
(* Every stored row has its type, in every database the handlers produce.  *)
THEOREM TypeCorrect == Spec => []TypeOK
<1>1. IInv => TypeOK
    BY DEF IInv, Tables, Table, TypeOK, Db
<1> QED BY <1>1, Always, PTL

(* Exactly one return stays authoritative for a state and period, whatever *)
(* is filed, approved, rejected, re-validated and deleted in what order.   *)
THEOREM OneCurrentReturnAlways == Spec => []OneCurrentReturn
<1>1. IInv => OneCurrentReturn
    BY DEF IInv, Standing, OneCurrentReturn, Db
<1> QED BY <1>1, Always, PTL

(* Every approved return is the current one: what the history checks of    *)
(* the rules read is what the analysis reads.                              *)
THEOREM ApprovedIsCurrentAlways == Spec => []ApprovedIsCurrent
<1>1. IInv => ApprovedIsCurrent
    BY DEF IInv, Standing, ApprovedIsCurrent, Db
<1> QED BY <1>1, Always, PTL

(* Running the rules again withdraws no approval: an approved return is    *)
(* rejected, or gives way to another of its state and period.              *)
THEOREM ApprovalStandsAlways == Spec => ApprovalStands
<1>1. IInv /\ [Next]_vars => [Stands]_vars
    BY NextIInv
<1>2. Spec => [][Stands]_vars
    BY <1>1, Always, PTL DEF Spec
<1> QED BY <1>2 DEF ApprovalStands, Stands
=============================================================================
