----------------------------- MODULE ReviewRace -----------------------------
(***************************************************************************)
(* Approvals in concurrent transactions.  The endpoint is not asynchronous,*)
(* so requests run in the threads of a pool, each with its own session: it *)
(* reads the return and its rivals, and the rows are written at the flush. *)
(* Nothing locks what was read, and an attribute is written only where it  *)
(* differs from what was read.                                             *)
(***************************************************************************)
EXTENDS ReturnsProperties

CONSTANT Request       \* the approvals under way at a time

VARIABLE reviewing     \* reviewing[r]: what request r has read, or None

raceVars == <<vars, reviewing>>

RaceInit == Init /\ reviewing = [r \in Request |-> None]

Rivals(s) == {t \in DOMAIN submission : t # s /\ SameUnit(Db, s, t) /\ submission[t].current}

(* approve_submission up to its first write.                               *)
ReadForApproval(r, s) ==
    /\ reviewing[r] = None
    /\ submission[s].status # "REJECTED"
    /\ reviewing' = [reviewing EXCEPT ![r] = [return |-> s, row |-> submission[s],
                        rivals |-> [t \in Rivals(s) |-> submission[t]]]]
    /\ UNCHANGED vars

(* Its flush and commit: the rivals that were read give way, their queries *)
(* follow, and the return is put in force.                                 *)
WriteApproval(r) ==
    LET read == reviewing[r]
        s == read.return
        swept == [Db EXCEPT !.submission = [t \in DOMAIN submission |->
                    IF t \notin DOMAIN read.rivals THEN submission[t]
                    ELSE [submission[t] EXCEPT !.current = FALSE,
                            !.status = IF read.rivals[t].status = "APPROVED"
                                       THEN "SUPERSEDED" ELSE @]]]
        carried == CarryForward(swept, DOMAIN read.rivals, s)
    IN  /\ read # None
        /\ Commit([carried EXCEPT
              !.submission[s].status = IF read.row.status = "APPROVED" THEN @ ELSE "APPROVED",
              !.submission[s].current = IF read.row.current THEN @ ELSE TRUE])
        /\ reviewing' = [reviewing EXCEPT ![r] = None]
        /\ UNCHANGED <<filed, calendar>>

(* Filing stays one step, between the steps of the approvals.              *)
RaceSpec ==
    /\ RaceInit
    /\ [][ \/ Filing /\ UNCHANGED reviewing
           \/ \E r \in Request :
                 (\E s \in DOMAIN submission : ReadForApproval(r, s)) \/ WriteApproval(r)
         ]_raceVars
=============================================================================
