-------------------------- MODULE AddressOwnership --------------------------
(***************************************************************************)
(* What the owner of an email address is promised.  An account is verified  *)
(* by a mailed link or by Google's word, and stays so; Google's word is what *)
(* attaches an identity to an account there is; and a password is changed    *)
(* by a reset link alone.  A link has one effect at most, is worth nothing   *)
(* once a later one replaced it, and serves the purpose it was mailed for.  *)
(* The promise is assembled from the comments of the routes and of           *)
(* authTokens.                                                              *)
(***************************************************************************)
CONSTANTS Links, Passwords, None

VARIABLES
    account,    \* None or [password, verified]
    linked,     \* is a Google identity attached?
    vouched,    \* did Google confirm the address?
    purpose,    \* what each link is for, None until it is mailed
    link        \* none, open, taken, used or void

ownershipVars == <<account, linked, vouched, purpose, link>>

Row(password, verified) == [password |-> password, verified |-> verified]

Init ==
    /\ account \in {None} \cup {Row(p, FALSE) : p \in Passwords}
    /\ linked = FALSE
    /\ vouched = FALSE
    /\ purpose = [k \in Links |-> None]
    /\ link = [k \in Links |-> "none"]

Vouch == vouched' = TRUE /\ UNCHANGED <<account, linked, purpose, link>>

Register ==
    /\ account = None
    /\ \E p \in Passwords : account' = Row(p, FALSE)
    /\ UNCHANGED <<linked, vouched, purpose, link>>

\* A first sign-in with Google; without its word the address is unverified.
Join ==
    /\ account = None
    /\ \E verified \in BOOLEAN : (verified => vouched) /\ account' = Row(None, verified)
    /\ linked' = TRUE
    /\ UNCHANGED <<vouched, purpose, link>>

Attach ==
    /\ account # None /\ vouched
    /\ account' = Row(account.password, TRUE)
    /\ linked' = TRUE
    /\ UNCHANGED <<vouched, purpose, link>>

\* A new link may replace open ones of its purpose, and no others.
Mail(k) ==
    /\ account # None /\ link[k] = "none"
    /\ \E p \in {"verify", "reset"} :
          \E old \in SUBSET {j \in Links : link[j] = "open" /\ purpose[j] = p} :
             /\ purpose' = [purpose EXCEPT ![k] = p]
             /\ link' = [j \in Links |-> IF j = k THEN "open"
                                         ELSE IF j \in old THEN "void" ELSE link[j]]
    /\ UNCHANGED <<account, linked, vouched>>

Move(k, from, to) == link[k] = from /\ link' = [link EXCEPT ![k] = to]

Redeem(k) == Move(k, "open", "taken") /\ UNCHANGED <<account, linked, vouched, purpose>>

\* The one that redeemed it dies before the link had its effect.
Waste(k) == Move(k, "taken", "used") /\ UNCHANGED <<account, linked, vouched, purpose>>

Verify(k) ==
    /\ purpose[k] = "verify" /\ Move(k, "taken", "used")
    /\ account' = Row(account.password, TRUE)
    /\ UNCHANGED <<linked, vouched, purpose>>

Change(k) ==
    /\ purpose[k] = "reset" /\ Move(k, "taken", "used")
    /\ \E p \in Passwords : account' = Row(p, TRUE)
    /\ UNCHANGED <<linked, vouched, purpose>>

Next == \/ Vouch \/ Register \/ Join \/ Attach
        \/ \E k \in Links : Mail(k) \/ Redeem(k) \/ Waste(k) \/ Verify(k) \/ Change(k)

Spec == Init /\ [][Next]_ownershipVars

=============================================================================
