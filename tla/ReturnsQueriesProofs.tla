------------------------ MODULE ReturnsQueriesProofs ------------------------
(***************************************************************************)
(* What Returns keeps about queries: a finding has one open at a time, the *)
(* open ones follow the figure to the version that replaces it, and a flag *)
(* comes off a figure only with the last of them.                          *)
(*                                                                         *)
(* The helpers a filing, an approval and a re-validation are made of never *)
(* close a query and never lift a flag; what each does to the open queries *)
(* is Attends, which composes.                                             *)
(***************************************************************************)
EXTENDS ReturnsFiguresProofs, Corrections

(* Two queries by one rule about one figure of a state's period.           *)
SameMatter(o, q) ==
    o.state = q.state /\ o.period = q.period /\ o.rule = q.rule /\ o.indicator = q.indicator

(* The only query on its matter that is open.                              *)
OnlyOpen(d, q) == \A o \in DOMAIN d.query : SameMatter(o, q) /\ IsOpen(d, o) => o = q

(* The queries ever raised on a matter.                                    *)
RaisedBy(d, st, p, r, i) ==
    {q \in DOMAIN d.query : q.state = st /\ q.period = p /\ q.rule = r /\ q.indicator = i}

(* The queries raised on a matter are numbered from one, so the next       *)
(* number is free.                                                         *)
Numbered(d) ==
    \A q \in DOMAIN d.query :
        q.n <= Cardinality(RaisedBy(d, q.state, q.period, q.rule, q.indicator))

(* From d to e no open query closes and each of them stays where it is, or *)
(* goes to return s if it was on one in S; what is open and was not has no *)
(* other open beside it; no flag comes off; and no query takes the row of  *)
(* another and the response in it.                                         *)
Attends(d, e, S, s) ==
    /\ \A q \in DOMAIN d.query : q \in DOMAIN e.query
    /\ \A q \in DOMAIN d.query : IsOpen(d, q) =>
          /\ IsOpen(e, q)
          /\ d.query[q].submission \in S => e.query[q].submission = s
          /\ d.query[q].submission \notin S => e.query[q].submission = d.query[q].submission
    /\ \A q \in DOMAIN e.query :
          /\ q \notin DOMAIN d.query => IsOpen(e, q)
          /\ IsOpen(e, q) => (q \in DOMAIN d.query /\ IsOpen(d, q)) \/ OnlyOpen(e, q)
    /\ \A v \in DOMAIN d.value :
          /\ v \in DOMAIN e.value
          /\ ~IsValid(d.value[v].label) => ~IsValid(e.value[v].label)
    /\ Numbered(d) =>
          Numbered(e) /\ \A q \in DOMAIN d.query : e.query[q].answer = d.query[q].answer

(* The numbers depend on which queries there are, not on what they say.    *)
LEMMA SameNumbers ==
    ASSUME NEW d, NEW e, DOMAIN e.query = DOMAIN d.query
    PROVE  Numbered(e) <=> Numbered(d)
BY DEF Numbered, RaisedBy

(* Helpers that leave the queries and the labels alone.                    *)
LEMMA SameAttends ==
    ASSUME NEW d, NEW e, NEW s, e.query = d.query,
           \A v \in DOMAIN d.value : v \in DOMAIN e.value /\ e.value[v].label = d.value[v].label
    PROVE  Attends(d, e, {}, s)
BY SameNumbers DEF Attends, IsOpen

(* Two helpers in a row, of which at most one moves queries.               *)
LEMMA AttendsTransitive ==
    ASSUME NEW d, NEW e, NEW f, NEW S, NEW T, NEW s,
           Attends(d, e, S, s), Attends(e, f, T, s), S = {} \/ T = {}
    PROVE  (T = {} => Attends(d, f, S, s)) /\ (S = {} => Attends(d, f, T, s))
<1>1. \A q \in DOMAIN d.query : q \in DOMAIN f.query
    BY DEF Attends
<1>2. ASSUME NEW q \in DOMAIN d.query, IsOpen(d, q)
      PROVE  /\ IsOpen(f, q)
             /\ d.query[q].submission \in S \cup T => f.query[q].submission = s
             /\ d.query[q].submission \notin S \cup T
                   => f.query[q].submission = d.query[q].submission
    BY <1>2 DEF Attends
<1>3. ASSUME NEW q \in DOMAIN f.query
      PROVE  /\ q \notin DOMAIN d.query => IsOpen(f, q)
             /\ IsOpen(f, q) => (q \in DOMAIN d.query /\ IsOpen(d, q)) \/ OnlyOpen(f, q)
    <2>1. CASE q \in DOMAIN e.query /\ IsOpen(e, q) /\ OnlyOpen(e, q)
        <3>1. ASSUME NEW o \in DOMAIN f.query, SameMatter(o, q), IsOpen(f, o)
              PROVE  o = q
            <4>1. CASE o \in DOMAIN e.query /\ IsOpen(e, o)
                BY <2>1, <3>1, <4>1 DEF OnlyOpen
            <4>2. CASE OnlyOpen(f, o)
                <5>1. IsOpen(f, q) /\ SameMatter(q, o)
                    BY <2>1, <3>1 DEF Attends, SameMatter
                <5> QED BY <4>2, <5>1 DEF OnlyOpen
            <4> QED BY <3>1, <4>1, <4>2 DEF Attends
        <3>2. OnlyOpen(f, q) /\ IsOpen(f, q)
            BY <2>1, <3>1 DEF OnlyOpen, Attends
        <3> QED BY <3>2
    <2>2. CASE ~(q \in DOMAIN e.query /\ IsOpen(e, q) /\ OnlyOpen(e, q))
        BY <2>2 DEF Attends
    <2> QED BY <2>1, <2>2
<1>4. \A v \in DOMAIN d.value : /\ v \in DOMAIN f.value
                                /\ ~IsValid(d.value[v].label) => ~IsValid(f.value[v].label)
    BY DEF Attends
<1>5. Attends(d, f, S \cup T, s)
    <2>1. Numbered(d) =>
             Numbered(f) /\ \A q \in DOMAIN d.query : f.query[q].answer = d.query[q].answer
        BY DEF Attends
    <2> QED BY <1>1, <1>2, <1>3, <1>4, <2>1 DEF Attends
<1>6. (T = {} => S \cup T = S) /\ (S = {} => S \cup T = T)
    OBVIOUS
<1> QED BY <1>5, <1>6

(* A recount is no matter of the queries.                                  *)
LEMMA RefreshAttends ==
    ASSUME NEW d, Tables(d), NEW S, NEW s
    PROVE  Attends(d, RefreshCounts(d, S), {}, s)
BY RefreshKeeps, SameAttends

(* Applying findings never lifts a flag.                                   *)
LEMMA RelabelKeepsUnfit ==
    ASSUME NEW label, ~IsValid(label), NEW b, NEW f
    PROVE  ~IsValid(Relabel(label, b, f))
BY DEF Relabel, MarkUnfit, MarkQueried, IsValid

(* The open queries of S go to s.                                          *)
LEMMA CarriedAttends ==
    ASSUME NEW d, Tables(d), NEW S, NEW s \in SubmissionId
    PROVE  Attends(d, Carried(d, S, s), S, s)
<1> DEFINE moved == Moved(d, S)
           label(v) == Relabel(d.value[v].label,
                               \E q \in OnFigure(d, S, s, v) : d.query[q].severity = "ERROR",
                               OnFigure(d, S, s, v) # {})
           queries == [q \in DOMAIN d.query |->
                         IF q \in moved THEN [d.query[q] EXCEPT !.submission = s]
                                        ELSE d.query[q]]
           values == [v \in DOMAIN d.value |-> [d.value[v] EXCEPT !.label = label(v)]]
           e == Carried(d, S, s)
<1>1. e.value = values /\ e.query = queries
    <2>1. Carried(d, S, s) = [d EXCEPT !.query = queries, !.value = values]
        BY DEF Carried
    <2> HIDE DEF values, queries
    <2> QED BY <2>1 DEF Tables
<1>2. ASSUME NEW v \in DOMAIN d.value, ~IsValid(d.value[v].label)
      PROVE  ~IsValid(values[v].label)
    <2>1. d.value[v] \in Value
        BY DEF Tables, Table
    <2>2. ~IsValid(label(v))
        BY <1>2, RelabelKeepsUnfit
    <2> HIDE DEF label
    <2>3. values[v].label = label(v)
        BY <2>1 DEF Value
    <2> QED BY <2>2, <2>3
<1>3. ASSUME NEW q \in DOMAIN d.query
      PROVE  /\ queries[q].status = d.query[q].status
             /\ queries[q].answer = d.query[q].answer
             /\ q \in moved => queries[q].submission = s
             /\ q \notin moved => queries[q] = d.query[q]
    <2>1. d.query[q] \in Query
        BY DEF Tables, Table
    <2>2. CASE q \in moved
        <3>1. queries[q] = [d.query[q] EXCEPT !.submission = s]
            BY <2>2
        <3> HIDE DEF queries
        <3> QED BY <2>1, <2>2, <3>1 DEF Query
    <2>3. CASE q \notin moved
        BY <2>3
    <2> QED BY <2>2, <2>3
<1>4. DOMAIN values = DOMAIN d.value /\ DOMAIN queries = DOMAIN d.query
    OBVIOUS
<1> HIDE DEF values, queries, e
<1>5. Attends(d, e, S, s)
    BY <1>1, <1>2, <1>3, <1>4, SameNumbers DEF Attends, IsOpen, Moved
<1> QED BY <1>5 DEF e

(* CarryForward takes the open queries of S to s, if there are any.        *)
LEMMA CarryAttends ==
    ASSUME NEW d, Tables(d), NEW S, NEW s \in SubmissionId
    PROVE  Attends(d, CarryForward(d, S, s), S, s)
<1>1. CASE Moved(d, S) = {}
    <2>1. CarryForward(d, S, s) = d
        BY <1>1, CarryIs
    <2>2. Attends(d, d, S, s)
        BY <1>1 DEF Attends, Moved
    <2> QED BY <2>1, <2>2
<1>2. CASE Moved(d, S) # {}
    <2> DEFINE e == Carried(d, S, s)
               f == RefreshCounts(e, Touched(d, S, s))
    <2>1. Attends(d, e, S, s) /\ Attends(e, f, {}, s)
        BY CarriedAttends, CarriedKeeps, RefreshAttends DEF Keeps
    <2>2. CarryForward(d, S, s) = f
        BY <1>2, CarryIs
    <2> HIDE DEF e, f
    <2>3. Attends(d, f, S, s)
        BY <2>1, AttendsTransitive
    <2> QED BY <2>2, <2>3
<1> QED BY <1>1, <1>2
(* The current returns that have to give way to s.                         *)
Rivals(d, s) ==
    {t \in DOMAIN d.submission : t # s /\ SameUnit(d, s, t) /\ d.submission[t].current}

(* The rivals' open queries go to the version that supersedes them.        *)
LEMMA SupersedeAttends ==
    ASSUME NEW d, Tables(d), NEW s \in DOMAIN d.submission
    PROVE  Attends(d, SupersedePrevious(d, s), Rivals(d, s), s)
<1> DEFINE retired(row) == [row EXCEPT !.current = FALSE,
                                       !.status = IF @ = "APPROVED" THEN "SUPERSEDED" ELSE @]
           rows == [t \in DOMAIN d.submission |->
                      IF t \in Rivals(d, s) THEN retired(d.submission[t]) ELSE d.submission[t]]
           swept == [d EXCEPT !.submission = rows]
           e == CarryForward(swept, Rivals(d, s), s)
<1>1. SupersedePrevious(d, s) = e
    BY DEF SupersedePrevious, Rivals
<1>2. ASSUME NEW t \in DOMAIN d.submission
      PROVE  rows[t] \in Submission
    <2>1. d.submission[t] \in Submission
        BY DEF Tables, Table
    <2>2. retired(d.submission[t]) \in Submission
        BY <2>1, Retired
    <2> HIDE DEF retired
    <2> QED BY <2>1, <2>2
<1>3. Table(rows, SubmissionId, Submission)
    BY <1>2 DEF Tables, Table
<1> HIDE DEF rows
<1>4. Tables(swept) /\ swept.value = d.value /\ swept.query = d.query
    BY <1>3, ReplaceSubmission
<1> HIDE DEF swept
<1>5. s \in SubmissionId
    BY DEF Tables, Table
<1>6. Attends(d, swept, {}, s)
    BY <1>4, SameAttends
<1>7. Attends(swept, e, Rivals(d, s), s)
    BY <1>4, <1>5, CarryAttends
<1> HIDE DEF e
<1>8. Attends(d, e, Rivals(d, s), s)
    BY <1>6, <1>7, AttendsTransitive
<1> QED BY <1>1, <1>8

(* A query that is opened is the next one on its matter, and none on it is *)
(* open.                                                                   *)
LEMMA NewQueryIs ==
    ASSUME NEW d, NEW s, NEW q \in NewQueries(d, s)
    PROVE  LET row == d.submission[s]
           IN  /\ q = [state |-> row.state, period |-> row.period, rule |-> q.rule,
                       indicator |-> q.indicator,
                       n |-> Cardinality(RaisedBy(d, row.state, row.period, q.rule,
                                                  q.indicator)) + 1]
               /\ \A o \in DOMAIN d.query : SameMatter(o, q) => ~IsOpen(d, o)
<1> DEFINE row == d.submission[s]
           raisedBy(f) == {o \in DOMAIN d.query :
                          /\ o.state = row.state /\ o.period = row.period
                          /\ o.rule = f.rule /\ o.indicator = f.indicator}
           missing == {g \in Queryable(d, s) : \A o \in raisedBy(g) : ~IsOpen(d, o)}
           id(f) == [state |-> row.state, period |-> row.period, rule |-> f.rule,
                     indicator |-> f.indicator, n |-> Cardinality(raisedBy(f)) + 1]
<1>1. NewQueries(d, s) = {id(f) : f \in missing}
    BY DEF NewQueries
<1>2. PICK f \in missing : q = id(f)
    BY <1>1
<1>3. raisedBy(f) = RaisedBy(d, row.state, row.period, f.rule, f.indicator)
    BY DEF RaisedBy
<1>4. /\ q.rule = f.rule /\ q.indicator = f.indicator
      /\ q.state = row.state /\ q.period = row.period
    BY <1>2
<1>5. \A o \in DOMAIN d.query : SameMatter(o, q) => ~IsOpen(d, o)
    <2>1. \A o \in DOMAIN d.query : SameMatter(o, q) => o \in raisedBy(f)
        BY <1>4 DEF SameMatter
    <2>2. \A o \in raisedBy(f) : ~IsOpen(d, o)
        OBVIOUS
    <2> QED BY <2>1, <2>2
<1>6. q = [state |-> row.state, period |-> row.period, rule |-> q.rule,
           indicator |-> q.indicator,
           n |-> Cardinality(RaisedBy(d, row.state, row.period, q.rule, q.indicator)) + 1]
    <2> HIDE DEF raisedBy, row
    <2> QED BY <1>2, <1>3, <1>4
<1> QED BY <1>5, <1>6

(* RaiseQueries opens at most one query on a matter, and none on a matter  *)
(* that has one open.                                                      *)
LEMMA RaisedAttends ==
    ASSUME NEW d, Tables(d), NEW S \in SUBSET InForce(d), NEW x
    PROVE  Attends(d, Raised(d, S), {}, x)
<1> DEFINE label(v) == Relabel(d.value[v].label, \E f \in FoundOn(d, S, v) : f.blocks,
                               FoundOn(d, S, v) # {})
           values == [v \in DOMAIN d.value |-> [d.value[v] EXCEPT !.label = label(v)]]
           queries == [q \in DOMAIN d.query \cup Opened(d, S) |->
                         IF q \in Opened(d, S) THEN Fresh(d, S, q) ELSE d.query[q]]
           e == Raised(d, S)
<1>1. e.value = values /\ e.query = queries
    <2>1. Raised(d, S) = [d EXCEPT !.value = values, !.query = queries]
        BY DEF Raised
    <2> HIDE DEF values, queries
    <2> QED BY <2>1 DEF Tables
<1>2. ASSUME NEW v \in DOMAIN d.value, ~IsValid(d.value[v].label)
      PROVE  ~IsValid(values[v].label)
    <2>1. d.value[v] \in Value
        BY DEF Tables, Table
    <2>2. ~IsValid(label(v))
        BY <1>2, RelabelKeepsUnfit
    <2> HIDE DEF label
    <2>3. values[v].label = label(v)
        BY <2>1 DEF Value
    <2> QED BY <2>2, <2>3
<1>3. S \in SUBSET DOMAIN d.submission
    BY DEF InForce
<1>4. ASSUME NEW q \in Opened(d, S)
      PROVE  /\ Owner(d, S, q) \in S /\ q \in NewQueries(d, Owner(d, S, q))
             /\ \A o \in DOMAIN d.query : SameMatter(o, q) => ~IsOpen(d, o)
             /\ queries[q].status = "OPEN"
    <2>1. Owner(d, S, q) \in S /\ q \in NewQueries(d, Owner(d, S, q))
        BY <1>3, OpenedType
    <2>2. \A o \in DOMAIN d.query : SameMatter(o, q) => ~IsOpen(d, o)
        BY <2>1, NewQueryIs
    <2>3. queries[q].status = "OPEN"
        BY DEF Fresh
    <2> QED BY <2>1, <2>2, <2>3
<1>5. ASSUME NEW q \in Opened(d, S), NEW o \in Opened(d, S), SameMatter(o, q)
      PROVE  o = q
    <2> DEFINE s == Owner(d, S, q)
               t == Owner(d, S, o)
    <2>1. s \in S /\ t \in S /\ q \in NewQueries(d, s) /\ o \in NewQueries(d, t)
        BY <1>4
    <2> HIDE DEF s, t
    <2>2. /\ q = [state |-> d.submission[s].state, period |-> d.submission[s].period,
                  rule |-> q.rule, indicator |-> q.indicator,
                  n |-> Cardinality(RaisedBy(d, d.submission[s].state, d.submission[s].period,
                                             q.rule, q.indicator)) + 1]
          /\ o = [state |-> d.submission[t].state, period |-> d.submission[t].period,
                  rule |-> o.rule, indicator |-> o.indicator,
                  n |-> Cardinality(RaisedBy(d, d.submission[t].state, d.submission[t].period,
                                             o.rule, o.indicator)) + 1]
        BY <2>1, NewQueryIs
    <2>3. /\ q.state = d.submission[s].state /\ q.period = d.submission[s].period
          /\ o.state = d.submission[t].state /\ o.period = d.submission[t].period
        BY <2>2
    <2> QED BY <1>5, <2>2, <2>3 DEF SameMatter
<1>6. /\ DOMAIN values = DOMAIN d.value /\ DOMAIN queries = DOMAIN d.query \cup Opened(d, S)
      /\ \A q \in DOMAIN d.query \ Opened(d, S) : queries[q] = d.query[q]
    OBVIOUS
<1> HIDE DEF values, queries, e
<1>7. \A q \in Opened(d, S) : IsOpen(e, q)
    BY <1>1, <1>4 DEF IsOpen, OpenQueryStatuses
<1>8. \A q \in DOMAIN d.query : IsOpen(d, q) => q \notin Opened(d, S)
    BY <1>4 DEF SameMatter
<1>9. \A q \in DOMAIN e.query \ Opened(d, S) : q \in DOMAIN d.query
                                               /\ (IsOpen(e, q) <=> IsOpen(d, q))
    BY <1>1, <1>6 DEF IsOpen
<1>10. ASSUME NEW q \in Opened(d, S)
       PROVE  OnlyOpen(e, q)
    BY <1>4, <1>5, <1>9 DEF OnlyOpen
<1>11. ASSUME NEW q \in DOMAIN d.query, IsOpen(d, q)
       PROVE  IsOpen(e, q) /\ e.query[q] = d.query[q]
    BY <1>1, <1>6, <1>8, <1>11 DEF IsOpen
<1>12. ASSUME Numbered(d)
       PROVE  Numbered(e) /\ \A q \in DOMAIN d.query : e.query[q].answer = d.query[q].answer
    <2>1. \A st, p, r, i : /\ IsFiniteSet(RaisedBy(d, st, p, r, i))
                           /\ IsFiniteSet(RaisedBy(e, st, p, r, i))
                           /\ RaisedBy(d, st, p, r, i) \in SUBSET RaisedBy(e, st, p, r, i)
        <3>1. Tables(e)
            BY <1>3, RaisedKeeps DEF Keeps, e
        <3>2. \A st, p, r, i : /\ RaisedBy(d, st, p, r, i) \in SUBSET DOMAIN d.query
                               /\ RaisedBy(e, st, p, r, i) \in SUBSET DOMAIN e.query
            BY DEF RaisedBy
        <3>3. \A st, p, r, i : RaisedBy(d, st, p, r, i) \in SUBSET RaisedBy(e, st, p, r, i)
            BY <1>1, <1>6 DEF RaisedBy
        <3> QED BY <3>1, <3>2, <3>3, FS_Subset DEF Tables, Table
    <2>2. \A st, p, r, i : /\ Cardinality(RaisedBy(d, st, p, r, i)) \in Nat
                           /\ Cardinality(RaisedBy(e, st, p, r, i)) \in Nat
                           /\ Cardinality(RaisedBy(d, st, p, r, i))
                                 <= Cardinality(RaisedBy(e, st, p, r, i))
        BY <2>1, FS_Subset, FS_CardinalityType
    <2>3. \A q \in DOMAIN e.query : q \in QueryId
        BY <1>1, <1>3, <1>6, OpenedType DEF Tables, Table
    <2>4. ASSUME NEW q \in Opened(d, S)
          PROVE  /\ q \notin DOMAIN d.query
                 /\ q.n <= Cardinality(RaisedBy(e, q.state, q.period, q.rule, q.indicator))
        <3> DEFINE was == RaisedBy(d, q.state, q.period, q.rule, q.indicator)
                   is  == RaisedBy(e, q.state, q.period, q.rule, q.indicator)
        <3>1. q.n = Cardinality(was) + 1
            <4> DEFINE row == d.submission[Owner(d, S, q)]
            <4>1. q = [state |-> row.state, period |-> row.period, rule |-> q.rule,
                       indicator |-> q.indicator,
                       n |-> Cardinality(RaisedBy(d, row.state, row.period, q.rule,
                                                  q.indicator)) + 1]
                BY <1>4, NewQueryIs
            <4> HIDE DEF row
            <4>2. /\ q.state = row.state /\ q.period = row.period
                  /\ q.n = Cardinality(RaisedBy(d, row.state, row.period, q.rule,
                                               q.indicator)) + 1
                BY <4>1
            <4> QED BY <4>2
        <3>2. q \notin DOMAIN d.query
            <4>1. Cardinality(was) \in Nat
                BY <2>2
            <4>2. q \in DOMAIN d.query => q.n <= Cardinality(was)
                BY <1>12 DEF Numbered
            <4> HIDE DEF was
            <4> QED BY <3>1, <4>1, <4>2
        <3>3. q \in is /\ q \notin was /\ was \in SUBSET is /\ IsFiniteSet(is) /\ IsFiniteSet(was)
            <4>1. q \in is /\ q \notin was
                BY <1>1, <1>6, <3>2 DEF RaisedBy
            <4>2. was \in SUBSET is /\ IsFiniteSet(is) /\ IsFiniteSet(was)
                BY <2>1
            <4> QED BY <4>1, <4>2
        <3> HIDE DEF is, was
        <3>4. /\ was \cup {q} \in SUBSET is
              /\ Cardinality(was \cup {q}) = Cardinality(was) + 1
            BY <3>3, FS_AddElement
        <3>5. Cardinality(was \cup {q}) <= Cardinality(is)
            BY <3>3, <3>4, FS_Subset
        <3> QED BY <3>1, <3>2, <3>4, <3>5 DEF is
    <2>5. ASSUME NEW q \in DOMAIN d.query
          PROVE  q.n <= Cardinality(RaisedBy(e, q.state, q.period, q.rule, q.indicator))
        <3>1. q.n <= Cardinality(RaisedBy(d, q.state, q.period, q.rule, q.indicator))
            BY <1>12 DEF Numbered
        <3>2. q.n \in Nat
            BY <1>1, <1>6, <2>3 DEF QueryId
        <3> QED BY <2>2, <3>1, <3>2
    <2>6. Numbered(e)
        BY <1>1, <1>6, <2>4, <2>5 DEF Numbered
    <2>7. \A q \in DOMAIN d.query : e.query[q] = d.query[q]
        BY <1>1, <1>6, <2>4
    <2> QED BY <2>6, <2>7
<1>13. Attends(d, e, {}, x)
    BY <1>1, <1>2, <1>6, <1>7, <1>9, <1>10, <1>11, <1>12 DEF Attends
<1> QED BY <1>13 DEF e

(* Rules and queries together.                                             *)
LEMMA CheckAttends ==
    ASSUME NEW d, Tables(d), NEW S \in SUBSET InForce(d), NEW raise, NEW x,
           NEW found, DOMAIN found = S, \A s \in S : found[s] \in SUBSET Finding
    PROVE  Attends(d, Check(d, found, raise), {}, x)
<1> DEFINE checked == RunValidation(d, found)
           raised == Raised(checked, S)
           counted == RefreshCounts(raised, S)
<1>1. Keeps(d, checked)
    BY ValidationKeeps
<1>2. Check(d, found, raise) = IF raise THEN counted ELSE checked
    BY RaiseIs DEF Check
<1>3. checked.value = d.value /\ checked.query = d.query
    <2> DEFINE rows == [s \in DOMAIN d.submission |->
            IF s \in DOMAIN found
            THEN [d.submission[s] EXCEPT !.findings = found[s],
                    !.status = IF @ = "APPROVED" THEN @ ELSE "VALIDATED"]
            ELSE d.submission[s]]
    <2>1. checked = [d EXCEPT !.submission = rows]
        BY DEF RunValidation
    <2> HIDE DEF rows, checked
    <2> QED BY <2>1 DEF Tables
<1> HIDE DEF checked
<1>4. Attends(d, checked, {}, x)
    BY <1>3, SameAttends
<1>5. Tables(checked) /\ S \in SUBSET InForce(checked)
    BY <1>1 DEF Keeps, SameStanding, InForce
<1>6. Attends(checked, raised, {}, x) /\ Tables(raised)
    BY <1>5, RaisedAttends, RaisedKeeps DEF Keeps, InForce
<1> HIDE DEF raised
<1>7. Attends(raised, counted, {}, x)
    BY <1>6, RefreshAttends
<1> HIDE DEF counted
<1>8. Attends(checked, counted, {}, x)
    BY <1>6, <1>7, AttendsTransitive
<1>9. Attends(d, counted, {}, x)
    BY <1>4, <1>8, AttendsTransitive
<1> QED BY <1>2, <1>4, <1>9
(* PersistValues only adds figures: the return has none yet.               *)
LEMMA PersistAttends ==
    ASSUME NEW d, Tables(d), NEW s, \A v \in DOMAIN d.value : v[1] # s, NEW report, NEW x
    PROVE  Attends(d, PersistValues(d, s, report), {}, x)
<1> DEFINE e == PersistValues(d, s, report)
           arrived == {s} \X DOMAIN report
           first(v) == [value |-> report[v[2]], original |-> report[v[2]], restated |-> FALSE,
                        label |-> "CLEAN", trail |-> <<>>]
           rows == [v \in DOMAIN d.value \cup arrived |->
                      IF v \in arrived THEN first(v) ELSE d.value[v]]
<1>1. e.value = rows /\ e.query = d.query
    <2>1. e = [d EXCEPT !.value = rows]
        BY DEF PersistValues
    <2> HIDE DEF rows, e
    <2> QED BY <2>1 DEF Tables
<1>2. \A v \in arrived : v[1] = s
    OBVIOUS
<1> HIDE DEF first, arrived
<1>3. \A v \in DOMAIN d.value : v \in DOMAIN rows /\ rows[v] = d.value[v]
    BY <1>2
<1> HIDE DEF rows, e
<1>4. Attends(d, e, {}, x)
    BY <1>1, <1>3, SameAttends
<1> QED BY <1>4 DEF e

(* A decision on a return is no matter of its queries.                     *)
LEMMA ApprovedAttends ==
    ASSUME NEW d, Tables(d), NEW s, NEW x
    PROVE  Attends(d, Approved(d, s), {}, x)
<1> DEFINE e == Approved(d, s)
<1>1. e.value = d.value /\ e.query = d.query
    BY DEF Approved, Tables
<1> HIDE DEF e
<1>2. Attends(d, e, {}, x)
    BY <1>1, SameAttends
<1> QED BY <1>2 DEF e

-----------------------------------------------------------------------------
(* Only the rivals of s stop being current, and no return changes its unit.*)
Succeeds(d, e, s) ==
    /\ DOMAIN e.submission = DOMAIN d.submission
    /\ \A t \in DOMAIN d.submission :
          /\ e.submission[t].state = d.submission[t].state
          /\ e.submission[t].period = d.submission[t].period
          /\ t # s /\ d.submission[t].current /\ ~e.submission[t].current
                => t \in Rivals(d, s)

(* Superseding takes nothing but the rivals out of force.                  *)
LEMMA SupersedeSucceeds ==
    ASSUME NEW d, Tables(d), NEW s \in DOMAIN d.submission
    PROVE  Succeeds(d, SupersedePrevious(d, s), s)
BY SupersedeRetires DEF Retires, Succeeds, Rivals

(* What keeps the standing takes nothing out of force.                     *)
LEMMA KeepsSucceeds ==
    ASSUME NEW d, NEW e, NEW f, NEW s, Succeeds(d, e, s), Keeps(e, f)
    PROVE  Succeeds(d, f, s)
BY DEF Succeeds, Keeps, SameStanding

(* Nor does the approval of s.                                             *)
LEMMA ApprovedSucceeds ==
    ASSUME NEW d, NEW e, Tables(e), NEW s \in DOMAIN d.submission, Succeeds(d, e, s)
    PROVE  Succeeds(d, Approved(e, s), s)
<1> DEFINE row == [e.submission[s] EXCEPT !.status = "APPROVED", !.current = TRUE]
           rows == [e.submission EXCEPT ![s] = row]
<1>1. s \in DOMAIN e.submission /\ e.submission[s] \in Submission
    BY DEF Succeeds, Tables, Table
<1>2. row.state = e.submission[s].state /\ row.period = e.submission[s].period
    BY <1>1 DEF Submission
<1>3. Approved(e, s).submission = rows
    BY DEF Approved, Tables
<1> HIDE DEF row
<1>4. /\ DOMAIN rows = DOMAIN e.submission /\ rows[s] = row
      /\ \A t \in DOMAIN e.submission \ {s} : rows[t] = e.submission[t]
    BY <1>1
<1> HIDE DEF rows
<1> QED BY <1>2, <1>3, <1>4 DEF Succeeds

-----------------------------------------------------------------------------
(* What the properties say of a step.                                      *)
Follows ==
    \A s, t \in Rows \cup (DOMAIN submission' \ DOMAIN submission) :
        ( /\ s \in Rows
          /\ submission[s].current /\ ~submission'[s].current
          /\ submission'[t].current
          /\ SameUnit(Db, s, t)' )
        => \A q \in OpenQueriesOn(Db, s) :
              query'[q].submission = t /\ IsOpen(Db, q)'

Lifts ==
    \A v \in Figures :
        ~IsValid(value[v].label) /\ IsValid(value'[v].label)
        => \A q \in DOMAIN query' :
              query'[q].submission = v[1] /\ q.indicator = v[2] => ~IsOpen(Db, q)'

Raises ==
    \A q \in DOMAIN query' \ DOMAIN query : \A o \in DOMAIN query' :
        ( /\ o.state = q.state /\ o.period = q.period
          /\ o.rule = q.rule /\ o.indicator = q.indicator
          /\ IsOpen(Db, o)' )
        => o = q

Responds ==
    \A q \in Answered :
        /\ UNCHANGED <<submission, value, filed>>
        /\ \A r \in Queries : query'[r] # query[r] =>
              /\ IsOpen(Db, r) /\ query'[r].status = "RESPONDED"
              /\ r.state = q.state /\ r.period = q.period

Minds == Follows /\ Lifts /\ Raises /\ Responds /\ Numbered(Db)'

(* A step that leaves every response alone and opens nothing.              *)
LEMMA SameAnswers ==
    ASSUME Numbered(Db), DOMAIN query' = DOMAIN query,
           \A q \in DOMAIN query : query'[q].answer = query[q].answer
    PROVE  Responds /\ Raises /\ Numbered(Db)'
<1>1. Numbered(Db)'
    BY DEF Numbered, RaisedBy, Db
<1> QED BY <1>1 DEF Responds, Raises, Answered, Queries

(* A transaction that attends to the queries opens none twice, lifts no    *)
(* flag and loses no response.                                             *)
LEMMA AttendingStep ==
    ASSUME Numbered(Db), NEW e, Commit(e), NEW S, NEW s, Attends(Db, e, S, s)
    PROVE  Lifts /\ Raises /\ Responds /\ Numbered(Db)'
<1>1. \A q \in DOMAIN query' : IsOpen(Db, q)' <=> IsOpen(e, q)
    BY DEF Commit, IsOpen, Db
<1>2. Lifts
    BY DEF Attends, Lifts, Figures, Commit, Db
<1>3. Raises
    <2> SUFFICES ASSUME NEW q \in DOMAIN query' \ DOMAIN query, NEW o \in DOMAIN query',
                        SameMatter(o, q), IsOpen(e, o)
                 PROVE  o = q
        BY <1>1 DEF Raises, SameMatter
    <2>1. q \in DOMAIN e.query /\ o \in DOMAIN e.query /\ q \notin DOMAIN Db.query
        BY DEF Commit, Db
    <2>2. OnlyOpen(e, q)
        BY <2>1 DEF Attends
    <2> QED BY <2>1, <2>2 DEF OnlyOpen
<1>4. Numbered(e) /\ \A q \in DOMAIN query : query'[q].answer = query[q].answer
    BY DEF Attends, Commit, Db
<1>5. Numbered(Db)'
    BY <1>4 DEF Numbered, RaisedBy, Commit, Db
<1>6. Responds
    BY <1>4 DEF Responds, Answered, Queries
<1> QED BY <1>2, <1>3, <1>5, <1>6

(* A transaction in which s takes over takes the open queries to s: after  *)
(* it, s is the one return in force of its unit.                           *)
LEMMA SucceedingStep ==
    ASSUME NEW d, NEW e, NEW s \in DOMAIN d.submission, Commit(e), Standing(e),
           e.submission[s].current, Succeeds(d, e, s), Attends(Db, e, Rivals(d, s), s),
           \A t \in DOMAIN submission : t \in DOMAIN d.submission /\ d.submission[t] = submission[t]
    PROVE  Follows
<1> SUFFICES ASSUME NEW r \in Rows, NEW t \in DOMAIN submission',
                    submission[r].current, ~submission'[r].current, submission'[t].current,
                    SameUnit(Db, r, t)', NEW q \in OpenQueriesOn(Db, r)
             PROVE  query'[q].submission = t /\ IsOpen(Db, q)'
    BY DEF Follows, Rows
<1>1. submission' = e.submission /\ query' = e.query
    BY DEF Commit
<1>2. r \in DOMAIN d.submission /\ d.submission[r].current /\ ~e.submission[r].current /\ r # s
    BY <1>1 DEF Rows
<1>3. r \in Rivals(d, s)
    BY <1>2 DEF Succeeds
<1>4. SameUnit(e, s, t)
    <2>1. SameUnit(e, r, t)
        BY <1>1 DEF SameUnit, Db
    <2>2. SameUnit(e, s, r)
        BY <1>3 DEF Rivals, Succeeds, SameUnit
    <2> QED BY <2>1, <2>2 DEF SameUnit
<1>5. s = t
    BY <1>1, <1>4 DEF Standing, Succeeds
<1>6. q \in DOMAIN Db.query /\ Db.query[q].submission = r /\ IsOpen(Db, q)
    BY DEF OpenQueriesOn
<1>7. e.query[q].submission = s /\ IsOpen(e, q)
    BY <1>3, <1>6 DEF Attends
<1> QED BY <1>1, <1>5, <1>7 DEF IsOpen, Db
(* A filed return: its rivals' queries come to it before it has figures,   *)
(* and every check after that only adds.                                   *)
LEMMA IngestQueries ==
    ASSUME IInv, Sound(Db), Numbered(Db), NEW st \in State, NEW p \in Period, NEW report \in Reports,
           NEW found \in SUBSET Finding, NEW auto \in BOOLEAN, NEW raise \in BOOLEAN,
           NEW foundQ \in SUBSET Finding,
           Ingest(st, p, report, found, auto, raise, foundQ)
    PROVE  Minds
<1> DEFINE s == filed + 1
           added == AddSubmission(Db, s, st, p)
           alone == SupersedePrevious(added, s)
           stored == PersistValues(alone, s, report)
           checked == Check(stored, [t \in {s} |-> found], raise)
           decided == IF auto THEN Approved(checked, s) ELSE checked
           coarser == EnclosingReturns(decided, st, p)
           final == Check(decided, [t \in coarser |-> foundQ], raise)
           S == Rivals(added, s)
<1>1. /\ filed \in Nat /\ Tables(Db) /\ Standing(Db)
      /\ DOMAIN Db.submission \subseteq 1..filed
    BY DEF IInv, Db
<1>2. s \in SubmissionId /\ s \notin DOMAIN Db.submission
    BY <1>1 DEF SubmissionId
<1>3. Commit(final)
    BY DEF Ingest
<1> HIDE DEF s
<1>4. /\ Tables(added) /\ StandingBeside(added, s)
      /\ DOMAIN added.submission = DOMAIN Db.submission \cup {s}
      /\ \A t \in DOMAIN Db.submission : added.submission[t] = Db.submission[t]
      /\ added.submission[s].current
    <2>1. /\ Tables(added)
          /\ DOMAIN added.submission = DOMAIN Db.submission \cup {s}
          /\ \A t \in DOMAIN Db.submission : added.submission[t] = Db.submission[t]
          /\ added.submission[s].status = "UPLOADED" /\ added.submission[s].current
        BY <1>1, <1>2, AddedTables
    <2> HIDE DEF added
    <2> QED BY <1>1, <2>1 DEF StandingBeside, Standing, SameUnit
<1>5. /\ Sound(added) /\ added.value = Db.value /\ added.query = Db.query
      /\ \A v \in DOMAIN Db.value : v[1] # s
    <2>1. added.query = Db.query
        BY DEF AddSubmission, Db
    <2> QED BY <1>1, <1>2, <2>1, AddedSound
<1>6. Attends(Db, added, {}, s)
    BY <1>5, SameAttends
<1> HIDE DEF added
<1>7. /\ Tables(alone) /\ Standing(alone) /\ Sole(alone, s)
      /\ DOMAIN alone.submission = DOMAIN added.submission
      /\ alone.submission[s].current
    BY <1>4, SupersedeStanding
<1>8. /\ Succeeds(added, alone, s) /\ Attends(added, alone, S, s)
      /\ DOMAIN alone.value = DOMAIN Db.value
    BY <1>4, <1>5, SupersedeSucceeds, SupersedeAttends, SupersedeSound
<1> HIDE DEF alone, S
<1>9. Attends(Db, alone, S, s)
    BY <1>6, <1>8, AttendsTransitive
<1>10. Keeps(alone, stored) /\ Attends(alone, stored, {}, s)
    BY <1>2, <1>5, <1>7, <1>8, PersistKeeps, PersistAttends
<1> HIDE DEF stored
<1>11. Keeps(stored, checked) /\ Attends(stored, checked, {}, s)
    <2> DEFINE T == {s}
               f == [t \in T |-> found]
    <2>1. T \in SUBSET InForce(stored) /\ Tables(stored)
        BY <1>4, <1>7, <1>10 DEF Keeps, SameStanding, InForce
    <2>2. DOMAIN f = T /\ \A t \in T : f[t] \in SUBSET Finding
        OBVIOUS
    <2>3. checked = Check(stored, f, raise)
        OBVIOUS
    <2> HIDE DEF T, f, checked
    <2> QED BY <2>1, <2>2, <2>3, CheckKeeps, CheckAttends
<1> HIDE DEF checked
<1>12. /\ Tables(checked) /\ Standing(checked) /\ Sole(checked, s)
       /\ s \in DOMAIN checked.submission /\ checked.submission[s].current
       /\ Succeeds(added, checked, s)
    <2>1. Keeps(alone, checked)
        BY <1>10, <1>11, KeepsTransitive
    <2>2. checked.submission[s].current
        BY <1>4, <1>7, <2>1 DEF Keeps, SameStanding
    <2> QED BY <1>4, <1>7, <1>8, <2>1, <2>2, KeepsStanding, KeepsSole, KeepsSucceeds DEF Keeps
<1>13. /\ Tables(decided) /\ Standing(decided) /\ Succeeds(added, decided, s)
       /\ s \in DOMAIN decided.submission /\ decided.submission[s].current
       /\ Attends(checked, decided, {}, s)
    <2>1. Tables(Approved(checked, s)) /\ Standing(Approved(checked, s))
          /\ DOMAIN Approved(checked, s).submission = DOMAIN checked.submission
        BY <1>12, ApprovedStanding
    <2>2. Succeeds(added, Approved(checked, s), s)
        BY <1>4, <1>12, ApprovedSucceeds
    <2>3. Approved(checked, s).submission[s].current
        BY <1>12 DEF Approved, Tables, Table, Submission
    <2>4. Attends(checked, Approved(checked, s), {}, s) /\ Attends(checked, checked, {}, s)
        BY <1>12, ApprovedAttends, SameAttends
    <2> QED BY <1>12, <2>1, <2>2, <2>3, <2>4
<1> HIDE DEF decided
<1>14. Keeps(decided, final) /\ Attends(decided, final, {}, s)
    <2> DEFINE f == [t \in coarser |-> foundQ]
    <2>1. coarser \in SUBSET InForce(decided)
        BY DEF EnclosingReturns, CurrentFor, InForce
    <2>2. DOMAIN f = coarser /\ \A t \in coarser : f[t] \in SUBSET Finding
        OBVIOUS
    <2>3. final = Check(decided, f, raise)
        OBVIOUS
    <2> HIDE DEF coarser, f, final
    <2> QED BY <1>13, <2>1, <2>2, <2>3, CheckKeeps, CheckAttends
<1> HIDE DEF final
<1>15. Attends(Db, final, S, s)
    BY <1>9, <1>10, <1>11, <1>13, <1>14, AttendsTransitive
<1>16. /\ Standing(final) /\ Succeeds(added, final, s) /\ final.submission[s].current
    <2>1. final.submission[s].current
        BY <1>13, <1>14 DEF Keeps, SameStanding
    <2> QED BY <1>13, <1>14, <2>1, KeepsStanding, KeepsSucceeds
<1>17. /\ s \in DOMAIN added.submission
       /\ \A t \in DOMAIN submission : t \in DOMAIN added.submission
                                        /\ added.submission[t] = submission[t]
    BY <1>4 DEF Db
<1> QED BY <1>3, <1>15, <1>16, <1>17, AttendingStep, SucceedingStep DEF S, Minds

(* An approved version takes the open queries of the one in force.         *)
LEMMA ApproveQueries ==
    ASSUME IInv, Numbered(Db), NEW s \in DOMAIN submission, Approve(s)
    PROVE  Minds
<1> DEFINE alone == SupersedePrevious(Db, s)
           final == Approved(alone, s)
           S == Rivals(Db, s)
<1>1. Commit(final)
    BY DEF Approve
<1>2. /\ Tables(Db) /\ StandingBeside(Db, s) /\ s \in DOMAIN Db.submission
      /\ Db.submission = submission
    BY DEF IInv, Standing, StandingBeside, Db
<1>3. /\ Tables(alone) /\ Standing(alone) /\ Sole(alone, s)
      /\ DOMAIN alone.submission = DOMAIN Db.submission
    BY <1>2, SupersedeStanding
<1>4. Succeeds(Db, alone, s) /\ Attends(Db, alone, S, s)
    BY <1>2, SupersedeSucceeds, SupersedeAttends
<1> HIDE DEF alone, S
<1>5. Standing(final) /\ Succeeds(Db, final, s) /\ Attends(alone, final, {}, s)
    BY <1>2, <1>3, <1>4, ApprovedStanding, ApprovedSucceeds, ApprovedAttends
<1>6. final.submission[s].current
    BY <1>2, <1>3 DEF Approved, Tables, Table, Submission
<1> HIDE DEF final
<1>7. Attends(Db, final, S, s)
    BY <1>4, <1>5, AttendsTransitive
<1> QED BY <1>1, <1>2, <1>5, <1>6, <1>7, AttendingStep, SucceedingStep DEF S, Minds
(* Where every return stays in force or out of it, no query has to follow. *)
LEMMA InForceFollows ==
    ASSUME \A s \in Rows : submission'[s].current = submission[s].current
    PROVE  Follows
BY DEF Follows

(* The rules run again for a period: nothing is closed, nothing is lifted, *)
(* and what is missing is opened.                                          *)
LEMMA RevalidateQueries ==
    ASSUME IInv, Numbered(Db), \E p \in Period : RevalidatePeriod(p)
    PROVE  Minds
<1>1. Tables(Db) /\ Db.submission = submission
    BY DEF IInv, Db
<1>2. PICK p \in Period : RevalidatePeriod(p)
    OBVIOUS
<1> DEFINE S == {s \in DOMAIN submission : submission[s].period = p /\ submission[s].current}
<1>3. PICK f \in [S -> SUBSET Finding] : Commit(Check(Db, f, TRUE))
    BY <1>2 DEF RevalidatePeriod
<1> DEFINE final == Check(Db, f, TRUE)
<1>4. S \in SUBSET InForce(Db)
    BY <1>1 DEF InForce
<1>5. DOMAIN f = S /\ \A t \in S : f[t] \in SUBSET Finding
    OBVIOUS
<1> HIDE DEF S
<1>6. Keeps(Db, final) /\ Attends(Db, final, {}, None)
    BY <1>1, <1>4, <1>5, CheckKeeps, CheckAttends
<1>7. Commit(final)
    BY <1>3
<1> HIDE DEF final
<1>8. Follows
    BY <1>1, <1>6, <1>7, InForceFollows DEF Keeps, SameStanding, Rows, Commit
<1> QED BY <1>6, <1>7, <1>8, AttendingStep DEF Minds

(* A rejected return leaves its queries behind: no other return becomes    *)
(* current for its period, so there is none to take them.                  *)
LEMMA RejectQueries ==
    ASSUME IInv, Numbered(Db), NEW s \in DOMAIN submission, Reject(s)
    PROVE  Minds
<1> DEFINE row == [submission[s] EXCEPT !.status = "REJECTED", !.current = FALSE]
           rows == [submission EXCEPT ![s] = row]
<1>1. Tables(Db) /\ Db.submission = submission
    BY DEF IInv, Db
<1>2. submission' = rows /\ value' = value /\ query' = query
    <2>1. Commit([Db EXCEPT !.submission[s].status = "REJECTED", !.submission[s].current = FALSE])
        BY DEF Reject
    <2> QED BY <2>1 DEF Commit, Db
<1>3. row.state = submission[s].state /\ row.period = submission[s].period
    BY <1>1 DEF Tables, Table, Submission
<1> HIDE DEF row
<1>4. /\ DOMAIN rows = DOMAIN submission /\ rows[s] = row
      /\ \A t \in DOMAIN submission \ {s} : rows[t] = submission[t]
    OBVIOUS
<1> HIDE DEF rows
<1>5. Follows
    <2> SUFFICES ASSUME NEW r \in Rows, NEW t \in DOMAIN submission',
                        submission[r].current, ~submission'[r].current,
                        submission'[t].current, SameUnit(Db, r, t)'
                 PROVE  FALSE
        BY DEF Follows, Rows
    <2>1. r = s /\ t # s /\ t \in DOMAIN submission /\ submission[t].current
        BY <1>2, <1>4 DEF Rows
    <2>2. SameUnit(Db, r, t)
        BY <1>1, <1>2, <1>3, <1>4, <2>1 DEF SameUnit, Db
    <2> QED BY <1>1, <2>1, <2>2 DEF IInv, Standing
<1>6. Lifts
    BY <1>2 DEF Lifts, Figures
<1> QED BY <1>2, <1>5, <1>6, SameAnswers DEF Minds

(* Deleting a return detaches its queries, with their responses.           *)
LEMMA DeleteQueries ==
    ASSUME IInv, Numbered(Db), NEW s \in DOMAIN submission, Delete(s)
    PROVE  Minds
<1>1. /\ \A t \in DOMAIN submission' : t \in DOMAIN submission /\ submission'[t] = submission[t]
      /\ \A v \in DOMAIN value' : v \in DOMAIN value /\ value'[v] = value[v]
      /\ DOMAIN query' = DOMAIN query
    BY DEF Delete, Commit
<1>2. ASSUME NEW q \in DOMAIN query
      PROVE  query'[q].answer = query[q].answer
    <2>1. query[q] \in Query
        BY DEF IInv, Tables, Table, Db
    <2>2. query'[q] = IF query[q].submission = s
                      THEN [query[q] EXCEPT !.submission = None] ELSE query[q]
        BY DEF Delete, Commit
    <2> QED BY <2>1, <2>2 DEF Query
<1>3. Follows
    BY <1>1, InForceFollows DEF Rows
<1>4. Lifts
    BY <1>1 DEF Lifts, Figures
<1> QED BY <1>1, <1>2, <1>3, <1>4, SameAnswers DEF Minds

(* A response, a rejected answer and an escalation write their own query's *)
(* row and nothing else.                                                   *)
LEMMA AnswerQueries ==
    ASSUME IInv, Numbered(Db), NEW q \in DOMAIN query,
           \/ \E proposed \in Figure \cup {None}, target \in Period : Respond(q, proposed, target)
           \/ RejectAnswer(q)
           \/ Escalate(q)
    PROVE  Minds
<1>1. query[q] \in Query
    BY DEF IInv, Tables, Table, Db
<1>2. ASSUME NEW row, Commit([Db EXCEPT !.query = [query EXCEPT ![q] = row]]), filed' = filed,
             row.answer = query[q].answer \/ (IsOpen(Db, q) /\ row.status = "RESPONDED")
      PROVE  Minds
    <2>1. /\ submission' = submission /\ value' = value
          /\ query' = [query EXCEPT ![q] = row]
        BY <1>2 DEF Commit, Db
    <2>2. /\ DOMAIN query' = DOMAIN query /\ query'[q] = row
          /\ \A o \in DOMAIN query \ {q} : query'[o] = query[o]
        BY <2>1
    <2>3. Follows
        BY <2>1, InForceFollows
    <2>4. Lifts /\ Raises
        BY <2>1 DEF Lifts, Raises, Figures
    <2>5. Numbered(Db)'
        BY <2>2 DEF Numbered, RaisedBy, Db
    <2>6. Responds
        BY <1>2, <2>1, <2>2 DEF Responds, Answered, Queries
    <2> QED BY <2>3, <2>4, <2>5, <2>6 DEF Minds
<1>3. ASSUME NEW proposed \in Figure \cup {None}, NEW target \in Period,
             Respond(q, proposed, target)
      PROVE  Minds
    <2> DEFINE answer == [proposed |-> proposed, target |-> target]
               row == [query[q] EXCEPT !.answer = answer, !.status = "RESPONDED"]
    <2>1. [Db EXCEPT !.query[q].answer = answer, !.query[q].status = "RESPONDED"]
            = [Db EXCEPT !.query = [query EXCEPT ![q] = row]]
        BY DEF Db
    <2>2. /\ Commit([Db EXCEPT !.query = [query EXCEPT ![q] = row]])
          /\ IsOpen(Db, q) /\ filed' = filed
        BY <1>3, <2>1 DEF Respond
    <2>3. row.status = "RESPONDED"
        BY <1>1 DEF Query
    <2> HIDE DEF row
    <2> QED BY <1>2, <2>2, <2>3
<1>4. ASSUME NEW status, Commit([Db EXCEPT !.query[q].status = status]), filed' = filed
      PROVE  Minds
    <2> DEFINE row == [query[q] EXCEPT !.status = status]
    <2>1. [Db EXCEPT !.query[q].status = status] = [Db EXCEPT !.query = [query EXCEPT ![q] = row]]
        BY DEF Db
    <2>2. Commit([Db EXCEPT !.query = [query EXCEPT ![q] = row]])
        BY <1>4, <2>1
    <2>3. row.answer = query[q].answer
        BY <1>1 DEF Query
    <2> HIDE DEF row
    <2> QED BY <1>2, <1>4, <2>2, <2>3
<1> QED BY <1>3, <1>4 DEF RejectAnswer, Escalate

(* Settling a query: its flag comes off only where no other open query of  *)
(* the same return is about the figure, and then it is settled itself.     *)
LEMMA SettledQueries ==
    ASSUME Numbered(Db), NEW q \in DOMAIN query, NEW d, Keeps(Db, d), d.query = query,
           \A v \in DOMAIN value : v \in DOMAIN d.value /\ d.value[v].label = value[v].label,
           NEW status \in {"ACCEPTED", "WITHDRAWN"},
           Commit(Settle(ReleaseQuarantine(d, q), q, status))
    PROVE  Minds
<1> DEFINE v == <<d.query[q].submission, q.indicator>>
           others == {o \in OpenQueriesOn(d, v[1]) \ {q} : o.indicator = q.indicator}
           r == ReleaseQuarantine(d, q)
           row == [d.query[q] EXCEPT !.status = status]
           rows == [d.query EXCEPT ![q] = row]
           f == [r EXCEPT !.query = rows]
           final == Settle(r, q, status)
<1>0. Commit(final)
    OBVIOUS
<1>1. Tables(d) /\ Tables(r) /\ r.query = d.query
    BY ReleaseKeeps DEF Keeps
<1>2. ASSUME NEW w \in DOMAIN d.value, w # v \/ others # {}
      PROVE  r.value[w] = d.value[w]
    <2>1. CASE v \in DOMAIN d.value /\ ~IsValid(d.value[v].label) /\ others = {}
        <3>1. r = [d EXCEPT !.value[v].label = Cleared(d.value[v].restated)]
            BY <2>1 DEF ReleaseQuarantine
        <3> HIDE DEF r, v
        <3>2. r.value = [d.value EXCEPT ![v].label = Cleared(d.value[v].restated)]
            BY <1>1, <3>1 DEF Tables
        <3> QED BY <1>2, <2>1, <3>2
    <2>2. CASE ~(v \in DOMAIN d.value /\ ~IsValid(d.value[v].label) /\ others = {})
        <3>1. r = d
            BY <2>2 DEF ReleaseQuarantine
        <3> HIDE DEF r
        <3> QED BY <3>1
    <2> QED BY <2>1, <2>2
<1> HIDE DEF r
<1>3. row \in Query /\ row.status = status /\ row.answer = d.query[q].answer
    BY <1>1 DEF Tables, Table, Query, QueryStatus
<1>4. final = RefreshCounts(f, {d.query[q].submission})
    <2>1. [r EXCEPT !.query[q].status = status] = f
        BY <1>1 DEF Tables
    <2> HIDE DEF f
    <2> QED BY <1>1, <2>1 DEF Settle
<1> HIDE DEF row
<1>5. /\ rows[q] = row /\ DOMAIN rows = DOMAIN query
      /\ \A o \in DOMAIN query \ {q} : rows[o] = query[o]
    OBVIOUS
<1>6. Table(rows, QueryId, Query)
    BY <1>1, <1>3 DEF Tables, Table
<1> HIDE DEF rows
<1>7. Keeps(r, f) /\ f.value = r.value /\ f.query = rows
    BY <1>1, <1>6, ReplaceQuery DEF Tables
<1> HIDE DEF f
<1>8. Keeps(f, final) /\ final.value = r.value /\ final.query = rows
    BY <1>4, <1>7, RefreshKeeps DEF Keeps
<1> HIDE DEF final
<1>9. submission' = final.submission /\ value' = r.value /\ query' = rows
    BY <1>0, <1>8 DEF Commit
<1>10. Follows
    <2>1. Keeps(Db, final)
        <3>1. Keeps(d, r)
            BY <1>1, ReleaseKeeps DEF r
        <3> QED BY <1>7, <1>8, <3>1, KeepsTransitive
    <2> QED BY <1>9, <2>1, InForceFollows DEF Keeps, SameStanding, Rows, Db
<1>11. Lifts
    <2> SUFFICES ASSUME NEW w \in Figures, ~IsValid(value[w].label), IsValid(value'[w].label),
                        NEW o \in DOMAIN query', query'[o].submission = w[1],
                        o.indicator = w[2], query'[o].status \in OpenQueryStatuses
                 PROVE  FALSE
        BY DEF Lifts, IsOpen, Db
    <2>1. w = v /\ others = {}
        BY <1>2, <1>9 DEF Figures
    <2>2. w[1] = d.query[q].submission /\ w[2] = q.indicator /\ v[1] = w[1]
        BY <2>1
    <2>3. o # q
        BY <1>3, <1>5, <1>9 DEF OpenQueryStatuses
    <2>4. o \in DOMAIN d.query /\ d.query[o].submission = w[1] /\ IsOpen(d, o)
        BY <1>5, <1>9, <2>3 DEF IsOpen
    <2>5. o \in others
        BY <2>2, <2>3, <2>4 DEF OpenQueriesOn
    <2> QED BY <2>1, <2>5
<1>12. \A o \in DOMAIN query : query'[o].answer = query[o].answer
    BY <1>3, <1>5, <1>9
<1> QED BY <1>5, <1>9, <1>10, <1>11, <1>12, SameAnswers DEF Minds

(* Withdrawal, and acceptance with or without a figure to correct.         *)
LEMMA SettleQueries ==
    ASSUME IInv, Numbered(Db), NEW q \in DOMAIN query, Accept(q) \/ Withdraw(q)
    PROVE  Minds
<1>1. /\ Tables(Db) /\ Db.query = query /\ Db.value = value
      /\ query[q] \in Query /\ q \in QueryId
    BY DEF IInv, Tables, Table, Db
<1>2. Keeps(Db, Db)
    BY <1>1 DEF Keeps, SameStanding
<1>3. CASE Withdraw(q)
    BY <1>1, <1>2, <1>3, SettledQueries DEF Withdraw
<1>4. CASE Accept(q) /\ query[q].answer.proposed = None
    BY <1>1, <1>2, <1>4, SettledQueries DEF Accept
<1>5. CASE Accept(q) /\ query[q].answer.proposed # None
    <2>1. PICK v \in Corrects(q) :
             Commit(Settle(ReleaseQuarantine(Restated(Db, v, q), q), q, "ACCEPTED"))
        BY <1>5 DEF Accept
    <2> DEFINE d == Restated(Db, v, q)
               proposed == query[q].answer.proposed
               row == Restatement(value[v], q)
               rows == [value EXCEPT ![v] = row]
    <2>2. v \in DOMAIN value /\ value[v] \in Value
        BY <1>1 DEF Corrects, Tables, Table
    <2>3. proposed \in Figure
        <3>1. query[q].answer \in Answer
            BY <1>1 DEF Query
        <3> QED BY <1>5, <3>1 DEF Answer
    <2>4. Keeps(Db, d) /\ d.query = query
        BY <1>1, <2>2, <2>3, RestatedKeeps
    <2>5. d.value = rows
        BY <1>1, <2>2, <2>3, RestatedKeeps DEF Db
    <2>6. row.label = value[v].label
        BY <1>1, <2>2, <2>3, RestatementType
    <2> HIDE DEF row
    <2>7. \A w \in DOMAIN value : w \in DOMAIN rows /\ rows[w].label = value[w].label
        BY <2>2, <2>6
    <2>8. Commit(Settle(ReleaseQuarantine(d, q), q, "ACCEPTED"))
        BY <2>1
    <2> HIDE DEF d, rows
    <2> QED BY <2>4, <2>5, <2>7, <2>8, SettledQueries
<1> QED BY <1>3, <1>4, <1>5

(* Whatever the step, the queries are minded.                              *)
LEMMA NextMinds == IInv /\ Sound(Db) /\ Numbered(Db) /\ [Next]_vars => Minds
<1> SUFFICES ASSUME IInv, Sound(Db), Numbered(Db), [Next]_vars PROVE Minds
    OBVIOUS
<1>1. CASE Filing
    BY <1>1, IngestQueries DEF Filing
<1>2. CASE Review
    BY <1>2, ApproveQueries, RejectQueries, DeleteQueries, RevalidateQueries DEF Review
<1>3. CASE Workflow
    BY <1>3, AnswerQueries, SettleQueries DEF Workflow
<1>4. CASE UNCHANGED tables
    <2>1. submission' = submission /\ value' = value /\ query' = query
        BY <1>4 DEF tables
    <2>2. Follows
        BY <2>1, InForceFollows
    <2>3. Lifts
        BY <2>1 DEF Lifts, Figures
    <2> QED BY <2>1, <2>2, <2>3, SameAnswers DEF Minds
<1>5. CASE Administration
    BY <1>4, <1>5 DEF Administration
<1>6. CASE UNCHANGED vars
    BY <1>4, <1>6 DEF vars, tables
<1> QED BY <1>1, <1>2, <1>3, <1>5, <1>6 DEF Next
-----------------------------------------------------------------------------
(* A correction sheet.  Whether a row is taken does not depend on the rows *)
(* before it: an answered query is still open.  So of several rows about a *)
(* query the last one taken stands, which says what the fold comes to.     *)
Taken(rows, st, p, I, q) ==
    {k \in I : rows[k].query = q /\ Takes(Db, rows[k], st, p)}

ResponseOf(row) ==
    [proposed |-> IF Corrected(row) THEN row.figure ELSE None, target |-> row.query.period]

AnsweredBy(old, row) == [old EXCEPT !.status = "RESPONDED", !.answer = ResponseOf(row)]

(* The queries, and the tables, after the rows in I.                       *)
Responses(rows, st, p, I) ==
    [q \in DOMAIN query |->
        IF Taken(rows, st, p, I, q) = {} THEN query[q]
        ELSE AnsweredBy(query[q], rows[Max(Taken(rows, st, p, I, q))])]

After(rows, st, p, I) == [Db EXCEPT !.query = Responses(rows, st, p, I)]

(* The largest of a finite set of numbers.                                 *)
LEMMA MaxIs ==
    ASSUME NEW V \in SUBSET Nat, IsFiniteSet(V), V # {}
    PROVE  Max(V) \in V /\ \A m \in V : m <= Max(V)
<1>1. PICK n \in V : \A m \in V : m <= n
    BY LargestExists
<1>2. \E x \in V : \A y \in V : x >= y
    BY <1>1
<1>3. Max(V) \in V /\ \A y \in V : Max(V) >= y
    BY <1>2 DEF Max
<1> QED BY <1>3

(* An answered query has its status and its answer from the row.           *)
LEMMA AnsweredByIs ==
    ASSUME NEW old \in Query, NEW row
    PROVE  /\ AnsweredBy(old, row).status = "RESPONDED"
           /\ AnsweredBy(old, row).submission = old.submission
           /\ \A other : AnsweredBy(AnsweredBy(old, other), row) = AnsweredBy(old, row)
BY DEF AnsweredBy, Query

(* The tables after some rows differ in the queries.                       *)
LEMMA AfterIs ==
    ASSUME NEW rows, NEW st, NEW p, NEW I
    PROVE  /\ After(rows, st, p, I).query = Responses(rows, st, p, I)
           /\ After(rows, st, p, I) = [submission |-> submission, value |-> value,
                                       query |-> Responses(rows, st, p, I)]
BY DEF After, Db

(* One row taken, on tables whose queries are given.                       *)
LEMMA AppliedIs ==
    ASSUME NEW was, NEW row, row.query \in DOMAIN was
    PROVE  Applied([submission |-> submission, value |-> value, query |-> was], row)
              = [submission |-> submission, value |-> value,
                 query |-> [was EXCEPT ![row.query] = AnsweredBy(was[row.query], row)]]
<1> DEFINE d == [submission |-> submission, value |-> value, query |-> was]
           o == row.query
           once == [was EXCEPT ![o] = [was[o] EXCEPT !.status = "RESPONDED"]]
           e == [d EXCEPT !.query = once]
           twice == [once EXCEPT ![o] = [once[o] EXCEPT !.answer = ResponseOf(row)]]
           new == AnsweredBy(was[o], row)
<1>1. Applied(d, row) = [e EXCEPT !.query = [e.query EXCEPT ![o] =
                            [e.query[o] EXCEPT !.answer = ResponseOf(row)]]]
    BY DEF Applied, ResponseOf
<1>2. once[o] = [was[o] EXCEPT !.status = "RESPONDED"]
    OBVIOUS
<1>3. new = [once[o] EXCEPT !.answer = ResponseOf(row)]
    BY <1>2 DEF AnsweredBy
<1>4. e = [submission |-> submission, value |-> value, query |-> once]
    <2> HIDE DEF once
    <2> QED OBVIOUS
<1> HIDE DEF e, new
<1>5. [once EXCEPT ![o] = new] = [was EXCEPT ![o] = new]
    OBVIOUS
<1> HIDE DEF once, o
<1>6. Applied(d, row) = [submission |-> submission, value |-> value,
                         query |-> [once EXCEPT ![o] = new]]
    BY <1>1, <1>3, <1>4
<1> QED BY <1>5, <1>6 DEF d, o, new

(* The rows in I, one more than those before the last of them.             *)
LEMMA RowByRow ==
    ASSUME Tables(Db), NEW rows \in Seq(SheetRow), NEW st, NEW p,
           NEW I \in SUBSET DOMAIN rows, I # {}
    PROVE  /\ Max(I) \in I
           /\ After(rows, st, p, I)
                 = Ingested(After(rows, st, p, I \ {Max(I)}), rows[Max(I)], st, p)
<1> DEFINE x == Max(I)
           before(q) == Taken(rows, st, p, I \ {x}, q)
           taken(q) == Taken(rows, st, p, I, q)
           was == Responses(rows, st, p, I \ {x})
           is == Responses(rows, st, p, I)
           e == After(rows, st, p, I \ {x})
<1>1. DOMAIN rows \in SUBSET Nat /\ IsFiniteSet(DOMAIN rows)
    <2>1. DOMAIN rows = 1..Len(rows) /\ Len(rows) \in Nat
        OBVIOUS
    <2> QED BY <2>1, FS_Interval
<1>2. x \in I /\ \A m \in I : m <= x
    <2>1. IsFiniteSet(I) /\ I \in SUBSET Nat
        BY <1>1, FS_Subset
    <2> QED BY <2>1, MaxIs
<1> HIDE DEF x
<1>3. \A q \in DOMAIN query : query[q] \in Query
    BY DEF Tables, Table, Db
<1>4. /\ e.query = was
      /\ e = [submission |-> submission, value |-> value, query |-> was]
      /\ After(rows, st, p, I) = [submission |-> submission, value |-> value, query |-> is]
    BY AfterIs
<1>5. /\ was = [q \in DOMAIN query |-> IF before(q) = {} THEN query[q]
                                      ELSE AnsweredBy(query[q], rows[Max(before(q))])]
      /\ is = [q \in DOMAIN query |-> IF taken(q) = {} THEN query[q]
                                     ELSE AnsweredBy(query[q], rows[Max(taken(q))])]
    BY DEF Responses
<1>6. ASSUME NEW q \in DOMAIN query
      PROVE  was[q].status \in OpenQueryStatuses <=> query[q].status \in OpenQueryStatuses
    <2>1. CASE before(q) = {}
        BY <1>5, <2>1
    <2>2. CASE before(q) # {}
        <3>1. was[q] = AnsweredBy(query[q], rows[Max(before(q))])
            BY <1>5, <2>2
        <3> HIDE DEF before, was
        <3>3. was[q].status = "RESPONDED"
            BY <1>3, <3>1, AnsweredByIs
        <3>2. IsOpen(Db, q)
            BY <2>2 DEF before, Taken, Takes
        <3> QED BY <3>2, <3>3 DEF IsOpen, Db, OpenQueryStatuses
    <2> QED BY <2>1, <2>2
<1> HIDE DEF e, was, is
<1>7. Takes(e, rows[x], st, p) <=> Takes(Db, rows[x], st, p)
    BY <1>4, <1>5, <1>6 DEF Takes, IsOpen, Db
<1>8. CASE ~Takes(Db, rows[x], st, p)
    <2>1. \A q : taken(q) = before(q)
        BY <1>8 DEF Taken
    <2> HIDE DEF taken, before
    <2>2. is = was
        BY <1>5, <2>1
    <2>3. Ingested(e, rows[x], st, p) = e
        BY <1>7, <1>8 DEF Ingested
    <2> QED BY <1>2, <1>4, <2>2, <2>3 DEF e, x
<1>9. CASE Takes(Db, rows[x], st, p)
    <2> DEFINE o == rows[x].query
               new == AnsweredBy(was[o], rows[x])
    <2>1. o \in DOMAIN query
        BY <1>9 DEF Takes, Db
    <2>2. Ingested(e, rows[x], st, p) = Applied(e, rows[x])
        BY <1>7, <1>9 DEF Ingested
    <2>3. Applied(e, rows[x]) = [submission |-> submission, value |-> value,
                                 query |-> [was EXCEPT ![o] = new]]
        <3>1. o \in DOMAIN was
            BY <1>5, <2>1
        <3> QED BY <1>4, <3>1, AppliedIs
    <2>4. \A q : q # o => taken(q) = before(q)
        BY DEF Taken
    <2>5. is[o] = AnsweredBy(query[o], rows[x])
        <3>1. x \in taken(o) /\ taken(o) \in SUBSET I
            BY <1>2, <1>9 DEF Taken
        <3>2. IsFiniteSet(taken(o)) /\ taken(o) \in SUBSET Nat
            BY <1>1, <3>1, FS_Subset
        <3> HIDE DEF taken, o
        <3>3. Max(taken(o)) = x
            BY <1>1, <1>2, <3>1, <3>2, MaxIs
        <3> QED BY <1>5, <2>1, <3>1, <3>3
    <2>6. new = AnsweredBy(query[o], rows[x])
        <3>1. was[o] = query[o] \/ \E row : was[o] = AnsweredBy(query[o], row)
            BY <1>5, <2>1
        <3> QED BY <1>3, <2>1, <3>1, AnsweredByIs
    <2> HIDE DEF new, o, taken, before
    <2>7. is = [was EXCEPT ![o] = new]
        BY <1>5, <2>1, <2>4, <2>5, <2>6
    <2> QED BY <1>2, <1>4, <2>2, <2>3, <2>7 DEF e, x
<1> QED BY <1>8, <1>9

(* What the rows of a sheet come to.                                       *)
LEMMA SheetIs ==
    ASSUME Tables(Db), NEW rows \in Seq(SheetRow), NEW st, NEW p
    PROVE  FoldLeft(LAMBDA d, row : Ingested(d, row, st, p), Db, rows)
              = After(rows, st, p, DOMAIN rows)
<1> DEFINE D == DOMAIN rows
           step(g, I) == IF I = {} THEN Db
                         ELSE Ingested(g[I \ {Max(I)}], rows[Max(I)], st, p)
           closed == [I \in SUBSET D |-> After(rows, st, p, I)]
           iter == CHOOSE g : g = [I \in SUBSET D |-> step(g, I)]
<1>1. FoldLeft(LAMBDA d, row : Ingested(d, row, st, p), Db, rows) = iter[D]
    BY DEF FoldLeft, MapThenFoldSet
<1>2. ASSUME NEW I \in SUBSET D
      PROVE  closed[I] = step(closed, I)
    <2>1. CASE I = {}
        <3>1. \A q : Taken(rows, st, p, I, q) = {}
            BY <2>1 DEF Taken
        <3>2. After(rows, st, p, I) = [Db EXCEPT !.query = [q \in DOMAIN query |-> query[q]]]
            BY <3>1 DEF After, Responses
        <3>3. [q \in DOMAIN query |-> query[q]] = query
            BY DEF Tables, Table, Db
        <3>4. After(rows, st, p, I) = Db
            BY <3>2, <3>3 DEF Db
        <3> QED BY <2>1, <3>4
    <2>2. CASE I # {}
        <3>1. I \ {Max(I)} \in SUBSET D
            OBVIOUS
        <3>2. After(rows, st, p, I)
                = Ingested(After(rows, st, p, I \ {Max(I)}), rows[Max(I)], st, p)
            BY <2>2, RowByRow
        <3> QED BY <2>2, <3>1, <3>2
    <2> QED BY <2>1, <2>2
<1>3. closed = [I \in SUBSET D |-> step(closed, I)]
    <2> HIDE DEF step
    <2>1. \A I \in SUBSET D : After(rows, st, p, I) = step(closed, I)
        BY <1>2
    <2> HIDE DEF closed
    <2>2. closed = [I \in SUBSET D |-> After(rows, st, p, I)]
        BY DEF closed
    <2> QED BY <2>1, <2>2
<1> HIDE DEF closed, step
<1>4. iter = [I \in SUBSET D |-> step(iter, I)]
    BY <1>3
<1> HIDE DEF iter
<1>5. IsFiniteSet(D)
    <2>1. D = 1..Len(rows) /\ Len(rows) \in Nat
        OBVIOUS
    <2> QED BY <2>1, FS_Interval
<1>6. ASSUME NEW I \in SUBSET D, iter[I] # closed[I]
      PROVE  FALSE
    <2> DEFINE T == {J \in SUBSET D : iter[J] # closed[J]}
    <2>1. T \subseteq FiniteSubsetsOf(D) /\ T # {}
        BY <1>5, <1>6, FS_Subset DEF FiniteSubsetsOf
    <2>2. PICK J \in T : \A K \in T : ~(<<K, J>> \in StrictSubsetOrdering(D))
        <3> HIDE DEF T
        <3>1. IsWellFoundedOn(StrictSubsetOrdering(D), FiniteSubsetsOf(D))
            BY <1>5, FS_StrictSubsetOrderingWellFounded
        <3> QED BY <2>1, <3>1, WFMin
    <2>3. iter[J] = step(iter, J) /\ closed[J] = step(closed, J)
        BY <1>2, <1>4
    <2>4. J # {}
        BY <2>3 DEF step
    <2>5. Max(J) \in J
        BY <2>4, RowByRow
    <2> DEFINE K == J \ {Max(J)}
    <2>6. K \in SUBSET D /\ <<K, J>> \in StrictSubsetOrdering(D)
        BY <2>5 DEF StrictSubsetOrdering
    <2>7. iter[K] = closed[K]
        BY <2>2, <2>6
    <2> QED BY <2>3, <2>4, <2>7 DEF step
<1> QED BY <1>1, <1>6, Zenon DEF closed

(* A taken row is a query of the sheet's state and period, open, and       *)
(* answered with a figure or a confirmation of the queried period.         *)
LEMMA TakenIs ==
    ASSUME Tables(Db), NEW st, NEW p, NEW row \in SheetRow, Takes(Db, row, st, p)
    PROVE  /\ row.query \in DOMAIN query /\ row.query.state = st /\ row.query.period = p
           /\ IsOpen(Db, row.query)
           /\ AnsweredBy(query[row.query], row) \in Query
<1> DEFINE q == row.query
           answer == ResponseOf(row)
<1>1. PICK o \in QueryId, a \in Answers : row = Row(o, a)
    BY DEF SheetRow
<1>2. row.figure \in Figure \cup {None}
    BY <1>1 DEF Row, Answers
<1>3. q \in DOMAIN query /\ q.state = st /\ q.period = p /\ IsOpen(Db, q)
    BY DEF Takes, Db
<1>4. query[q] \in Query /\ q \in QueryId
    BY <1>3 DEF Tables, Table, Db
<1>5. answer \in Answer
    <2>1. q.period \in Period
        BY <1>4 DEF QueryId
    <2> QED BY <1>2, <2>1 DEF Answer, ResponseOf
<1> HIDE DEF answer
<1>6. [query[q] EXCEPT !.status = "RESPONDED", !.answer = answer] \in Query
    BY <1>4, <1>5 DEF Query, QueryStatus
<1> QED BY <1>3, <1>6 DEF AnsweredBy, answer

(* What a sheet does to a query: nothing, or it puts a response on an open *)
(* one of its state and period.                                            *)
LEMMA ResponsesAre ==
    ASSUME Tables(Db), NEW rows \in Seq(SheetRow), NEW st, NEW p, NEW q \in DOMAIN query
    PROVE  LET new == Responses(rows, st, p, DOMAIN rows)[q]
           IN  \/ new = query[q]
               \/ /\ new \in Query /\ new.status = "RESPONDED"
                  /\ new.submission = query[q].submission
                  /\ IsOpen(Db, q) /\ q.state = st /\ q.period = p
<1> DEFINE taken == Taken(rows, st, p, DOMAIN rows, q)
           n == Max(taken)
<1>1. CASE taken = {}
    BY <1>1 DEF Responses
<1>2. CASE taken # {}
    <2>1. n \in taken
        <3>1. DOMAIN rows \in SUBSET Nat /\ IsFiniteSet(DOMAIN rows)
            <4>1. DOMAIN rows = 1..Len(rows) /\ Len(rows) \in Nat
                OBVIOUS
            <4> QED BY <4>1, FS_Interval
        <3>2. taken \in SUBSET DOMAIN rows
            BY DEF Taken
        <3>3. taken \in SUBSET Nat /\ IsFiniteSet(taken)
            BY <3>1, <3>2, FS_Subset
        <3> HIDE DEF taken
        <3> QED BY <1>2, <3>3, MaxIs
    <2>2. n \in DOMAIN rows /\ rows[n].query = q /\ Takes(Db, rows[n], st, p)
        BY <2>1 DEF Taken
    <2>3. rows[n] \in SheetRow
        BY <2>2
    <2>4. Responses(rows, st, p, DOMAIN rows)[q] = AnsweredBy(query[q], rows[n])
        BY <1>2 DEF Responses
    <2>5. query[q] \in Query
        BY DEF Tables, Table, Db
    <2> HIDE DEF n, taken
    <2> QED BY <2>2, <2>3, <2>4, <2>5, TakenIs, AnsweredByIs
<1> QED BY <1>1, <1>2

(* A sheet answers open queries and nothing else: no return, no figure, no *)
(* label and no settled query is touched.                                  *)
LEMMA SheetStep ==
    ASSUME IInv, Sound(Db), Numbered(Db), Sheets
    PROVE  IInv' /\ Stands /\ Sound(Db)' /\ Still /\ Minds
<1>1. PICK st \in State, p \in Period, rows \in Seq(SheetRow) : IngestSheet(st, p, rows)
    BY DEF Sheets
<1> DEFINE queries == Responses(rows, st, p, DOMAIN rows)
           final == After(rows, st, p, DOMAIN rows)
<1>2. Tables(Db) /\ DOMAIN Db.query = DOMAIN query
    BY DEF IInv, Db
<1>3. Commit(final) /\ filed' = filed
    BY <1>1, <1>2, SheetIs, Zenon DEF IngestSheet
<1>4. final.query = queries /\ final.value = value /\ final.submission = submission
    BY AfterIs
<1>5. final = [Db EXCEPT !.query = queries]
    BY DEF After
<1>6. DOMAIN queries = DOMAIN query
    BY DEF Responses
<1>7. ASSUME NEW q \in DOMAIN query
      PROVE  /\ queries[q] \in Query /\ queries[q].submission = query[q].submission
             /\ queries[q].status \in OpenQueryStatuses <=> IsOpen(Db, q)
             /\ queries[q] # query[q] => /\ IsOpen(Db, q) /\ queries[q].status = "RESPONDED"
                                         /\ q.state = st /\ q.period = p
    <2>1. query[q] \in Query /\ (IsOpen(Db, q) <=> query[q].status \in OpenQueryStatuses)
        BY <1>2 DEF Tables, Table, IsOpen, Db
    <2> HIDE DEF queries
    <2>2. \/ queries[q] = query[q]
          \/ /\ queries[q] \in Query /\ queries[q].status = "RESPONDED"
             /\ queries[q].submission = query[q].submission
             /\ IsOpen(Db, q) /\ q.state = st /\ q.period = p
        BY <1>2, ResponsesAre DEF queries
    <2>3. CASE queries[q] = query[q]
        BY <2>1, <2>3
    <2>4. CASE queries[q] # query[q]
        BY <2>2, <2>4 DEF OpenQueryStatuses
    <2> QED BY <2>3, <2>4
<1>8. queries = [q \in DOMAIN queries |-> queries[q]]
    BY DEF Responses
<1> HIDE DEF queries, final
<1>9. Keeps(Db, final)
    <2>1. Table(queries, QueryId, Query)
        BY <1>2, <1>6, <1>7, <1>8 DEF Tables, Table
    <2> QED BY <1>2, <1>5, <2>1, ReplaceQuery
<1>10. IInv' /\ Stands
    BY <1>3, <1>9, KeepingStep
<1>11. Sound(Db)' /\ Still
    <2>1. \A s : OpenQueriesOn(final, s) = OpenQueriesOn(Db, s)
        BY <1>2, <1>4, <1>6, <1>7 DEF OpenQueriesOn, IsOpen, Db
    <2>2. Relabels(Db, final, {})
        BY <1>2, <1>4, <2>1 DEF Relabels, Tables, Table, Value, Db
    <2>3. Sound(final) /\ SameFigures(Db, final)
        BY <1>2, <2>2, RelabelSound DEF Sound
    <2> QED BY <1>3, <1>9, <2>3, StillStep DEF Keeps
<1>12. submission' = submission /\ value' = value /\ query' = queries
    BY <1>3, <1>4 DEF Commit
<1>13. Follows /\ Lifts /\ Raises
    <2>1. Follows
        BY <1>12, InForceFollows
    <2> QED BY <1>6, <1>12, <2>1 DEF Lifts, Raises, Figures
<1>14. Numbered(Db)'
    BY <1>6, <1>12 DEF Numbered, RaisedBy, Db
<1>15. Responds
    BY <1>3, <1>6, <1>7, <1>12 DEF Responds, Answered, Queries
<1> QED BY <1>10, <1>11, <1>13, <1>14, <1>15 DEF Minds
-----------------------------------------------------------------------------
(* What holds of every state, with the sheets.                             *)
QInv == IInv /\ Sound(Db) /\ Numbered(Db)

(* No query is open before the first return.                               *)
LEMMA InitQInv == Init => QInv
<1> SUFFICES ASSUME Init PROVE Numbered(Db)
    BY InitIInv, InitSound DEF QInv
<1>1. DOMAIN Db.query = {}
    BY DEF Init, Db
<1> QED BY <1>1 DEF Numbered

(* Every step, a sheet too, keeps it.                                      *)
LEMMA NextQInv ==
    QInv /\ [Next \/ Sheets]_vars => QInv' /\ Stands /\ Moves /\ Minds
<1> SUFFICES ASSUME QInv, [Next \/ Sheets]_vars PROVE QInv' /\ Stands /\ Moves /\ Minds
    OBVIOUS
<1>1. CASE [Next]_vars
    <2>1. IInv' /\ Stands
        BY <1>1, NextIInv DEF QInv
    <2>2. Sound(Db)' /\ Moves
        BY <1>1, NextSound DEF QInv
    <2>3. Minds
        BY <1>1, NextMinds DEF QInv
    <2>4. Numbered(Db)'
        BY <2>3 DEF Minds
    <2> QED BY <2>1, <2>2, <2>3, <2>4 DEF QInv
<1>2. CASE Sheets
    <2>1. IInv' /\ Stands /\ Sound(Db)' /\ Still /\ Minds
        BY <1>2, SheetStep DEF QInv
    <2>2. Numbered(Db)' /\ Moves
        BY <2>1 DEF Minds, Still, Moves
    <2> QED BY <2>1, <2>2 DEF QInv
<1> QED BY <1>1, <1>2

(* ... so it always is.                                                   *)
LEMMA AlwaysQInv == SheetSpec => []QInv
BY InitQInv, NextQInv, PTL DEF SheetSpec

(* A life without sheets is one with sheets in which none comes.           *)
LEMMA SheetsMayNotCome == Spec => SheetSpec
<1>1. [Next]_vars => [Next \/ Sheets]_vars
    OBVIOUS
<1> QED BY <1>1, PTL DEF Spec, SheetSpec

-----------------------------------------------------------------------------
(* What comes back in one file answers one return, whatever else is in it: *)
(* the queries it answers are open ones of a single state and period, and  *)
(* no figure, return or settled query changes with them.                   *)
THEOREM AnswersAreForOneReturnAlways == SheetSpec => AnswersAreForOneReturn
<1>1. QInv /\ [Next \/ Sheets]_vars => [Responds]_vars
    BY NextQInv DEF Minds
<1>2. SheetSpec => [][Responds]_vars
    BY <1>1, AlwaysQInv, PTL DEF SheetSpec
<1> QED BY <1>2 DEF AnswersAreForOneReturn, Responds

(* When a return gives way to another version, every query open on it is   *)
(* open on the version that took its place.                                *)
THEOREM QueriesFollowReplacementAlways == SheetSpec => QueriesFollowReplacement
<1>1. QInv /\ [Next \/ Sheets]_vars => [Follows]_vars
    BY NextQInv DEF Minds
<1>2. SheetSpec => [][Follows]_vars
    BY <1>1, AlwaysQInv, PTL DEF SheetSpec
<1> QED BY <1>2 DEF QueriesFollowReplacement, Follows

(* An unfit label comes off only with the last open query about the figure *)
(* of that return: no relabelling, carrying or acceptance lifts it before. *)
THEOREM FlagLiftedOnlyWhenSettledAlways == SheetSpec => FlagLiftedOnlyWhenSettled
<1>1. QInv /\ [Next \/ Sheets]_vars => [Lifts]_vars
    BY NextQInv DEF Minds
<1>2. SheetSpec => [][Lifts]_vars
    BY <1>1, AlwaysQInv, PTL DEF SheetSpec
<1> QED BY <1>2 DEF FlagLiftedOnlyWhenSettled, Lifts

(* However often the rules run, over however many versions and in whatever *)
(* order, no step opens a second query for a finding that has one open.    *)
THEOREM RaisedOnceAlways == SheetSpec => RaisedOnce
<1>1. QInv /\ [Next \/ Sheets]_vars => [Raises]_vars
    BY NextQInv DEF Minds
<1>2. SheetSpec => [][Raises]_vars
    BY <1>1, AlwaysQInv, PTL DEF SheetSpec
<1> QED BY <1>2 DEF RaisedOnce, Raises

(* Answers by the sheet change none of the facts about returns and their   *)
(* figures: a figure still moves only by acceptance, and is explained.     *)
THEOREM SheetsMoveNoFigure == SheetSpec => []RevisionsExplainFigure /\ FiguresMoveByAcceptance
<1>1. QInv => RevisionsExplainFigure
    BY DEF QInv, Sound, SoundBut, Explained, RevisionsExplainFigure, Db
<1>2. QInv /\ [Next \/ Sheets]_vars => [Moves]_vars
    BY NextQInv
<1>3. SheetSpec => []RevisionsExplainFigure
    BY <1>1, AlwaysQInv, PTL
<1>4. SheetSpec => [][Moves]_vars
    BY <1>2, AlwaysQInv, PTL DEF SheetSpec
<1> QED BY <1>3, <1>4 DEF FiguresMoveByAcceptance, Moves
=============================================================================
