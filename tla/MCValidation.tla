---------------------------- MODULE MCValidation ----------------------------
(* Instances of Validation for TLC. *)
EXTENDS Validation

CONSTANTS r1, r2

Tenants == {tAll, tRanking, tBad, tJwt, tBill}
AllDeviations ==
    {"half_upload", "frozen_scores", "appends", "first_row", "best_row", "ties_reversed",
     "skips_unknown", "any_token", "any_role", "no_rank_after", "any_header",
     "disqualified_unseen", "late_scores", "bills_running", "bills_late", "forgets_visitors",
     "all_ranks", "short_ranking"}
Some == {S \in SUBSET PrepareCheck : Cardinality(S) \in {1, 2}} \cup {{c} : c \in LoadCheck}

(* The tenants of the page of bills, 2 to 6, have those of the other workers   *)
(* on either side.                                                             *)
IndexZero == <<0, 0>>
OneToFive == <<1, 5>>
IndexSix == <<6, 6>>
TwoRounds == <<[scored |-> 2, visitors |-> 3], [scored |-> 0, visitors |-> 1]>>
=============================================================================
