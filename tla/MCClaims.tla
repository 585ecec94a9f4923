------------------------------ MODULE MCClaims ------------------------------
(* The setups in which a promise is broken.                                *)
EXTENDS MCAssessment, SingleRevalidation

(* Two states report a rate, one of them without its components.           *)
OneGivesOnlyTheRate ==
    {[Nation("WEIGHTED_AVERAGE", RateOfTen) EXCEPT
        !.maxFilings = 2, !.maxChanges = 0,
        !.filings = {Filing(abia, q1, RateOfTen(4), <<>>), Filing(kebbi, q1, Count(90), <<>>)}]}

(* A quarter that fell by less than a band that is then narrowed.          *)
ABandIsNarrowed ==
    {[Quarter(FALSE, none, {}) EXCEPT
        !.maxFilings = 2, !.maxChanges = 2, !.proposals = {},
        !.filings = {Filing(abia, q1, Count(10), <<>>), Filing(abia, q2, Count(8), <<>>)},
        !.retunes = {[DefaultRates EXCEPT !.fall = 10]}]}
=============================================================================
