----------------------------- MODULE MCAccounts -----------------------------
(* Instance of Accounts for TLC: two requests at a time. *)
EXTENDS Accounts, TLC

CONSTANTS r1, r2, s1, s2, s3, k1, k2, p1, p2

MCMixes ==
    {{"login", "refresh", "logout-all"}, {"login", "refresh", "logout"},
     {"login", "forgot", "reset"}, {"register", "resend", "confirm"},
     {"register", "google", "confirm"}}

MCSymmetry == Permutations({r1, r2}) \cup Permutations({p1, p2})
              \cup Permutations({s1, s2, s3}) \cup Permutations({k1, k2})

=============================================================================
