------------------------------ MODULE MCIntake ------------------------------
(* An instance of Intake for TLC: four indicators, two states, a year, and *)
(* the files that may come in.                                             *)
EXTENDS IntakeProperties, TLC

CONSTANTS kano, kebbi, KN, nowhere, schools, rate, law, schoolCount, none

Names == <<KN, kano, kebbi, nowhere>>
Spelled == [name \in Range(Names) |->
               CASE name = kebbi -> kebbi [] name = nowhere -> none [] OTHER -> kano]

(* The catalogue has the share of the schools with a climate programme;    *)
(* their number is not reported any more.                                  *)
Entry(n, words, percent, boolean, reported) ==
    [number |-> n, words |-> words, percent |-> percent, boolean |-> boolean,
     reported |-> reported, punctuation |-> "plain"]
Framework == [i \in {schools, rate, law, schoolCount} |->
    CASE i = schools -> Entry(1, "schools", FALSE, FALSE, TRUE)
      [] i = rate -> Entry(2, "climate", TRUE, FALSE, TRUE)
      [] i = law -> Entry(3, "law", FALSE, TRUE, TRUE)
      [] i = schoolCount -> Entry(4, "climate", FALSE, FALSE, FALSE)]

April == [type |-> "MONTHLY", year |-> 1, seq |-> 4]
Q2 == [type |-> "QUARTERLY", year |-> 1, seq |-> 2]
Managed == {Q2}

-----------------------------------------------------------------------------
Text(kind) == [Blank EXCEPT !.kind = kind]
Num(n) == [Blank EXCEPT !.kind = "NUMBER", !.number = n]
Label(i) == [Text("WORD") EXCEPT !.names = i]
Heading(f) == [Text("WORD") EXCEPT !.synonym = f]

Column(role, words, percent, punctuation, asks) ==
    [role |-> role, words |-> words, percent |-> percent, punctuation |-> punctuation, asks |-> asks]
Question(i, punctuation) ==
    Column("QUESTION", Framework[i].words, Framework[i].percent, punctuation, i)
StateColumn == Column("STATE", "state", FALSE, "plain", none)
KoboRow(name, cells) == [name |-> name, cells |-> <<Text("WORD")>> \o cells]

(* A quarter's export: two sections of one state, marks for no answer, an  *)
(* answer nobody can read, and a state of another programme.               *)
WholeQuarter ==
    [headers |-> <<StateColumn, Question(schools, "plain"), Question(rate, "comma"), Question(law, "plain")>>,
     rows |-> <<KoboRow(kano, <<Num(3), Blank, Text("NONE")>>), KoboRow(kebbi, <<Num(0), Text("WORD"), Num(2)>>),
                KoboRow(kano, <<Text("NAN"), Num(40), Text("NIL")>>),
                KoboRow(nowhere, <<Num(5), Num(5), Text("NO")>>)>>]

(* One state under two spellings.                                          *)
TwoSpellings ==
    [headers |-> <<StateColumn, Question(schools, "plain"), Question(law, "plain")>>,
     rows |-> <<KoboRow(kano, <<Num(3), Blank>>), KoboRow(KN, <<Blank, Text("YES")>>)>>]

(* The form still asks for the number; a question is asked twice.          *)
OldForm ==
    [headers |-> <<StateColumn, Question(schools, "plain"), Question(schoolCount, "comma")>>,
     rows |-> <<KoboRow(kano, <<Num(3), Num(87)>>)>>]
AskedTwice ==
    [headers |-> <<StateColumn, Question(schools, "plain"), Question(schools, "comma")>>,
     rows |-> <<KoboRow(kebbi, <<Num(3), Num(4)>>)>>]

-----------------------------------------------------------------------------
Line(at, score, cells, carries) ==
    [at |-> at, score |-> score, state |-> Blank, period |-> Blank, cells |-> cells, carries |-> carries]

(* One line per indicator, under a title and a heading of the section; one *)
(* has the number of an indicator beside what is close to another's name.  *)
LongTemplate ==
    [heading |-> 3, columns |-> <<"indicator_number", "indicator_name", "value">>,
     lines |-> <<[Line(1, 1, <<Text("WORD"), Blank, Blank>>, {}) EXCEPT !.state = Label(kano)],
                 Line(2, 0, <<Blank, Blank, Blank>>, {}),
                 Line(3, 6, <<Heading("indicator_number"), Heading("indicator_name"), Heading("value")>>, {}),
                 Line(4, 1, <<Text("WORD"), Blank, Blank>>, {}),
                 Line(5, 1, <<Num(1), [Text("WORD") EXCEPT !.near = rate], Num(12)>>, {<<schools, 12>>}),
                 Line(6, 1, <<Blank, Label(law), Text("YES")>>, {<<law, 1>>}),
                 Line(7, 1, <<Blank, Text("WORD"), Num(9)>>, {<<rate, 9>>})>>]

(* One column per indicator; a name has the word "value" in it.            *)
WideTemplate ==
    [heading |-> 1, columns |-> <<"state", rate, schools>>,
     lines |-> <<Line(1, 3, <<Heading("state"), [Label(rate) EXCEPT !.contains = "value"], Label(schools)>>, {}),
                 Line(2, 1, <<Label(kebbi), Num(45), Num(7)>>, {<<rate, 45>>, <<schools, 7>>})>>]

(* The same with a heading that is not quite the name and has "number" in  *)
(* it: the figures are taken for numbers of indicators.                    *)
DriftedTemplate ==
    [heading |-> 1, columns |-> <<"state", rate, schools>>,
     lines |-> <<Line(1, 3, <<Heading("state"),
                              [Text("WORD") EXCEPT !.near = rate, !.contains = "indicator_number"],
                              Label(schools)>>, {}),
                 Line(2, 1, <<Label(kebbi), Num(3), Num(7)>>, {<<rate, 3>>, <<schools, 7>>})>>]

Request(file, st, p, dup) == [file |-> file, state |-> st, period |-> p, dup |-> dup]
Requests ==
    {Request(LongTemplate, none, Q2, dup) : dup \in BOOLEAN}
    \cup {Request(LongTemplate, kebbi, April, FALSE), Request(WideTemplate, none, Q2, FALSE),
          Request(WideTemplate, none, none, TRUE), Request(DriftedTemplate, none, April, FALSE)}

Run(file, p, only, approve) ==
    [file |-> file, period |-> p, only |-> only, approve |-> approve]
Runs ==
    {Run(WholeQuarter, Q2, State, TRUE), Run(WholeQuarter, Q2, {kano}, FALSE),
     Run(TwoSpellings, Q2, State, TRUE), Run(OldForm, Q2, State, FALSE),
     Run(AskedTwice, April, State, FALSE)}
=============================================================================
