-------------------------- MODULE PublishedFigures --------------------------
(***************************************************************************)
(* What the platform promises whoever reads a national figure: for each    *)
(* state and period there is at most one authoritative return, it is put   *)
(* in force, taken out of force or replaced as a whole and on its own, and *)
(* while it is in force its figures change one at a time, by restatement.  *)
(* How a return gets there (versions, validation, queries, reopenings) is  *)
(* none of the reader's business and is not here.                          *)
(***************************************************************************)
CONSTANTS State, Period, Indicator, Figure, ReturnId, None

VARIABLE published   \* published[u]: the return in force for u, with its figures, or None

Unit == State \X Period

(* A figure of the return in force may be blank.                           *)
Account == [return: ReturnId, figures: UNION {[I -> Figure \cup {None}] : I \in SUBSET Indicator}]

TypeOK == published \in [Unit -> Account \cup {None}]

Init == published = [u \in Unit |-> None]

(* Nothing changes for anyone but u.                                       *)
OnlyFor(u) ==
    /\ DOMAIN published' = Unit
    /\ \A w \in Unit \ {u} : published'[w] = published[w]

(* A return is put in force, in place of another one or of none.           *)
Publish(u) ==
    /\ OnlyFor(u)
    /\ published'[u] \in Account
    /\ \A w \in Unit : published[w] # None => published[w].return # published'[u].return

Retract(u) ==
    /\ OnlyFor(u)
    /\ published[u] # None
    /\ published'[u] = None

Restate(u) ==
    /\ OnlyFor(u)
    /\ published[u] # None
    /\ \E i \in DOMAIN published[u].figures, figure \in Figure :
          published'[u] = [published[u] EXCEPT !.figures[i] = figure]

Next == \E u \in Unit : Publish(u) \/ Retract(u) \/ Restate(u)

Spec == Init /\ [][Next]_published
=============================================================================
