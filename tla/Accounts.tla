------------------------------ MODULE Accounts ------------------------------
(***************************************************************************)
(* One email address: its account, the sessions opened on it and the links  *)
(* mailed to it.  Registering, signing in with a password or with Google,   *)
(* refreshing, signing out, asking for a link and following one are         *)
(* handlers of several statements whose steps interleave; only the issue    *)
(* of a link, its redemption and the linking of Google are transactions.    *)
(*                                                                          *)
(* A handler starts with its first read: one that this read refuses (401,   *)
(* 409, 400) changes nothing and is a stuttering step.  In a transaction,   *)
(* the statements from the first row lock to the commit are one step, for   *)
(* no other statement sees or changes the locked rows in between.           *)
(***************************************************************************)
EXTENDS Naturals, FiniteSets

CONSTANTS
    Passwords,
    Sessions,       \* refresh tokens, the bound on the sessions opened
    Links,          \* mailed tokens, the bound on the links issued
    Requests,       \* request slots: what may be in flight at once
    Mixes,          \* kinds of request made side by side in one behaviour
    MaxEnds,        \* bound on the times all sessions are ended
    None

UserRow == [password : Passwords \cup {None}, verified : BOOLEAN]

\* A session that is revoked and one that has expired are both dead: no
\* statement tells them apart.  root, over, heirs and contested are history,
\* read by no step: ends at the sign-in a session goes back to, an end its
\* opening overlapped, the sessions exchanged for it, and whether two
\* exchanges of it were under way at once.
SessionRow == [live : BOOLEAN, root : Nat, over : Nat,
               password : Passwords \cup {None}, heirs : Nat, contested : BOOLEAN]

\* redeemed counts redemptions, before are the links there were when it was
\* asked for: history too.
LinkRow == [purpose : {"verify", "reset"}, status : {"fresh", "consumed", "expired"},
            redeemed : Nat, before : SUBSET Links]

ASSUME NoneIsNone ==
    None \notin Passwords \cup Sessions \cup Links \cup UserRow \cup SessionRow \cup LinkRow
ASSUME EndsBound == MaxEnds \in Nat
ASSUME MixesOfKinds ==
    Mixes \subseteq SUBSET {"register", "login", "google", "refresh", "logout", "logout-all",
                            "resend", "forgot", "confirm", "reset"}

VARIABLES
    user,       \* the row of users: None or [password, verified]
    identity,   \* is the Google account linked?
    refresh,    \* refresh_tokens
    mail,       \* auth_tokens
    inbox,      \* links the owner of the address received
    req,        \* the request in each slot
    kinds,      \* the mix of this behaviour
    ends,       \* times every session was ended
    broken,     \* did a reset die after the password, before the sessions?
    vouched     \* did Google confirm the address to this server?

vars == <<user, identity, refresh, mail, inbox, req, kinds, ends, broken, vouched>>

rest == <<kinds, vouched>>

Account(password, verified) == [password |-> password, verified |-> verified]

Idle == [op |-> "none", at |-> "idle"]

\* password: what it carries; session, link: the token in hand; links: those
\* its transaction is to invalidate; verified: email_verified_at as it read it.
\* since and root are ends at its first read and at the sign-in it goes back
\* to, over an end it is known to overlap, before the links there were; these
\* four are read by no step.
Request(op, at) ==
    [op |-> op, at |-> at, password |-> None, session |-> None, link |-> None, links |-> {},
     verified |-> FALSE, since |-> ends, root |-> ends, over |-> 0,
     before |-> {k \in Links : mail[k] # None}]

Init == /\ user \in {None} \cup {Account(p, FALSE) : p \in Passwords}
        /\ identity = FALSE
        /\ refresh = [s \in Sessions |-> None]
        /\ mail = [k \in Links |-> None]
        /\ inbox = {}
        /\ req = [r \in Requests |-> Idle]
        /\ kinds \in Mixes
        /\ ends = 0
        /\ broken = FALSE
        /\ vouched = FALSE

At(r, at) == req[r].at = at

Begin(r, q) == req[r] = Idle /\ q.op \in kinds /\ req' = [req EXCEPT ![r] = q]

Goto(r, at) == req' = [req EXCEPT ![r].at = at]

Answer(r) == req' = [req EXCEPT ![r] = Idle]

\* Mutant: a reset ends the sessions first and then stores the password.
FollowsEarlyEnd(op, at) ==
    CASE at = "claim" -> IF op = "reset" THEN "end" ELSE "verify"
      [] at = "end" -> IF op = "reset" THEN "password" ELSE "idle"
      [] at = "mail" -> IF op = "register" THEN "issue" ELSE "idle"
      [] OTHER -> "idle"

\* Where a handler goes on after a step of several users.
Follows(op, at) ==
    CASE at = "claim" -> IF op = "reset" THEN "password" ELSE "verify"
      [] at = "password" -> "end"
      [] at = "mail" -> IF op = "register" THEN "issue" ELSE "idle"
      [] OTHER -> "idle"

Continue(r, at) ==
    IF Follows(req[r].op, at) = "idle" THEN Answer(r) ELSE Goto(r, Follows(req[r].op, at))

-----------------------------------------------------------------------------
(* Sessions. *)

Session(q) ==
    [live |-> TRUE, root |-> q.root, over |-> IF q.since = ends THEN q.over ELSE ends,
     password |-> q.password, heirs |-> 0, contested |-> FALSE]

Live(s) == refresh[s] # None /\ refresh[s].live

\* issueSession: the last step of every sign-in.
IssueSession(r) ==
    /\ At(r, "issue")
    /\ \E s \in Sessions :
           /\ refresh[s] = None
           /\ refresh' = [t \in Sessions |->
                  CASE t = s -> Session(req[r])
                    [] t = req[r].session -> [refresh[t] EXCEPT !.heirs = @ + 1]
                    [] OTHER -> refresh[t]]
    /\ Answer(r)
    /\ UNCHANGED <<user, identity, mail, inbox, ends, broken, rest>>

\* Mutant: a session already exchanged or signed out is still accepted.
PresentableDead(s) == refresh[s] # None

Presentable(s) == Live(s)

Refresh(r, s) ==
    /\ Presentable(s)
    /\ Begin(r, [Request("refresh", "revoke") EXCEPT
                     !.session = s, !.root = refresh[s].root, !.over = refresh[s].over,
                     !.password = refresh[s].password])
    /\ refresh' = [refresh EXCEPT ![s].contested =
                       @ \/ \E o \in Requests : At(o, "revoke") /\ req[o].session = s]
    /\ UNCHANGED <<user, identity, mail, inbox, ends, broken, rest>>

\* The update names the row only: it does not ask whether it is still live.
Rotate(r) ==
    /\ At(r, "revoke")
    /\ refresh' = [refresh EXCEPT ![req[r].session].live = FALSE]
    /\ Goto(r, "issue")
    /\ UNCHANGED <<user, identity, mail, inbox, ends, broken, rest>>

Logout(s) ==
    /\ "logout" \in kinds /\ refresh[s] # None
    /\ refresh' = [refresh EXCEPT ![s].live = FALSE]
    /\ UNCHANGED <<user, identity, mail, inbox, req, ends, broken, rest>>

ExpireSession(s) ==
    /\ Live(s)
    /\ refresh' = [refresh EXCEPT ![s].live = FALSE]
    /\ UNCHANGED <<user, identity, mail, inbox, req, ends, broken, rest>>

\* Mutant: the filter on revoked_at is inverted.
AllRevokedInverted == refresh

AllRevoked ==
    [s \in Sessions |-> IF refresh[s] = None THEN None
                        ELSE [refresh[s] EXCEPT !.live = FALSE]]

EndSessions == /\ ends < MaxEnds
               /\ refresh' = AllRevoked
               /\ ends' = ends + 1
               /\ broken' = FALSE

\* POST /auth/logout-all; the caller is signed in, so there is an account.
LogoutAll ==
    /\ "logout-all" \in kinds /\ user # None
    /\ EndSessions
    /\ UNCHANGED <<user, identity, mail, inbox, req, rest>>

-----------------------------------------------------------------------------
(* Accounts. *)

Login(r, p) ==
    /\ user # None /\ user.password = p
    /\ Begin(r, [Request("login", "issue") EXCEPT !.password = p])
    /\ UNCHANGED <<user, identity, refresh, mail, inbox, ends, broken, rest>>

Register(r, p) ==
    /\ user = None
    /\ Begin(r, [Request("register", "insert") EXCEPT !.password = p])
    /\ UNCHANGED <<user, identity, refresh, mail, inbox, ends, broken, rest>>

\* users_email_idx: the insert of an address that is taken fails (500).
Taken == user # None

InsertUser(r) ==
    /\ At(r, "insert")
    /\ IF Taken THEN user' = user /\ Answer(r)
       ELSE user' = Account(req[r].password, FALSE) /\ Goto(r, "outstanding")
    /\ UNCHANGED <<identity, refresh, mail, inbox, ends, broken, rest>>

\* GET /auth/google/callback, from linkOrCreateUser on.  confirms is Google's
\* email_verified.  A Google session remembers no password.
Google(r, confirms) ==
    /\ Begin(r, [Request("google", IF identity THEN "issue" ELSE "match")
                     EXCEPT !.verified = confirms])
    /\ vouched' = (vouched \/ confirms)
    /\ UNCHANGED <<user, identity, refresh, mail, inbox, ends, broken, kinds>>

\* Mutant: an address Google has not confirmed is linked all the same.
MayLinkAny(confirms) == TRUE

MayLink(confirms) == confirms

\* The transaction reads the account; the reply is 409 when it may not link.
MatchUser(r) ==
    /\ At(r, "match")
    /\ IF user = None THEN Goto(r, "create")
       ELSE IF MayLink(req[r].verified) THEN Goto(r, "link") ELSE Answer(r)
    /\ UNCHANGED <<user, identity, refresh, mail, inbox, ends, broken, rest>>

LinkUser(r) ==
    /\ At(r, "link")
    /\ identity' = TRUE
    /\ user' = [user EXCEPT !.verified = TRUE]
    /\ Goto(r, "issue")
    /\ UNCHANGED <<refresh, mail, inbox, ends, broken, rest>>

\* email_verified_at of an account created from a Google profile.
Created(confirms) == confirms

CreateUser(r) ==
    /\ At(r, "create")
    /\ IF Taken THEN Answer(r) /\ UNCHANGED <<user, identity>>
       ELSE /\ user' = Account(None, Created(req[r].verified))
            /\ identity' = TRUE
            /\ Goto(r, "issue")
    /\ UNCHANGED <<refresh, mail, inbox, ends, broken, rest>>

-----------------------------------------------------------------------------
(* Links: issueAuthToken, consumeAuthToken and their callers. *)

Purpose(op) == IF op \in {"forgot", "reset"} THEN "reset" ELSE "verify"

Resend(r) ==
    /\ user # None /\ ~user.verified
    /\ Begin(r, Request("resend", "outstanding"))
    /\ UNCHANGED <<user, identity, refresh, mail, inbox, ends, broken, rest>>

Forgot(r) ==
    /\ user # None
    /\ Begin(r, Request("forgot", "outstanding"))
    /\ UNCHANGED <<user, identity, refresh, mail, inbox, ends, broken, rest>>

\* Mutant: the filter on purpose is inverted, and expired links are kept.
OutstandingOther(purpose) ==
    {k \in Links : mail[k] # None /\ mail[k].status = "fresh" /\ mail[k].purpose # purpose}

Outstanding(purpose) ==
    {k \in Links : mail[k] # None /\ mail[k].purpose = purpose /\ mail[k].status # "consumed"}

\* The rows the update of issueAuthToken finds, before it has their locks.
FindOutstanding(r) ==
    /\ At(r, "outstanding")
    /\ req' = [req EXCEPT ![r].at = "replace", ![r].links = Outstanding(Purpose(req[r].op))]
    /\ UNCHANGED <<user, identity, refresh, mail, inbox, ends, broken, rest>>

Link(q) == [purpose |-> Purpose(q.op), status |-> "fresh", redeemed |-> 0, before |-> q.before]

\* Invalidates them, inserts the new link and commits.
ReplaceLinks(r) ==
    /\ At(r, "replace")
    /\ \E k \in Links :
           /\ mail[k] = None
           /\ mail' = [j \in Links |->
                  CASE j = k -> Link(req[r])
                    [] j \in req[r].links -> [mail[j] EXCEPT !.status = "consumed"]
                    [] OTHER -> mail[j]]
           /\ req' = [req EXCEPT ![r].at = "mail", ![r].link = k]
    /\ UNCHANGED <<user, identity, refresh, inbox, ends, broken, rest>>

SendLink(r) ==
    /\ At(r, "mail")
    /\ inbox' = inbox \cup {req[r].link}
    /\ Continue(r, "mail")
    /\ UNCHANGED <<user, identity, refresh, mail, ends, broken, rest>>

\* Mutant: a failure to issue is swallowed and the mail sent all the same.
MailFailsLate(r) ==
    /\ req[r].at \in {"outstanding", "replace"}
    /\ Goto(r, "mail")
    /\ UNCHANGED <<user, identity, refresh, mail, inbox, ends, broken, rest>>

\* A failure to issue or to send is logged and swallowed.
MailFails(r) ==
    /\ req[r].at \in {"outstanding", "replace", "mail"}
    /\ Continue(r, "mail")
    /\ UNCHANGED <<user, identity, refresh, mail, inbox, ends, broken, rest>>

ExpireLink(k) ==
    /\ mail[k] # None /\ mail[k].status = "fresh"
    /\ mail' = [mail EXCEPT ![k].status = "expired"]
    /\ UNCHANGED <<user, identity, refresh, inbox, req, ends, broken, rest>>

\* Following a link: p is the password a reset carries, None otherwise.
OpenLink(r, op, k, p) ==
    /\ mail[k].purpose = Purpose(op) /\ mail[k].status = "fresh"
    /\ Begin(r, [Request(op, "claim") EXCEPT
                     !.link = k, !.password = p, !.verified = user.verified])
    /\ UNCHANGED <<user, identity, refresh, mail, inbox, ends, broken, rest>>

Confirm(r, k) == OpenLink(r, "confirm", k, None)

Reset(r, k, p) == OpenLink(r, "reset", k, p)

\* Mutant: the claim is not guarded on consumed_at.
ClaimableAlways(k) == TRUE

Claimable(k) == mail[k].status # "consumed"

ClaimLink(r) ==
    /\ At(r, "claim")
    /\ LET k == req[r].link
       IN IF Claimable(k)
          THEN /\ mail' = [mail EXCEPT ![k].status = "consumed", ![k].redeemed = @ + 1]
               /\ Goto(r, Follows(req[r].op, "claim"))
          ELSE mail' = mail /\ Answer(r)
    /\ UNCHANGED <<user, identity, refresh, inbox, ends, broken, rest>>

\* email_verified_at as read, or now: set in either case.
Stamped(read) == TRUE

VerifyUser(r) ==
    /\ At(r, "verify")
    /\ user' = [user EXCEPT !.verified = Stamped(req[r].verified)]
    /\ Answer(r)
    /\ UNCHANGED <<identity, refresh, mail, inbox, ends, broken, rest>>

SetPassword(r) ==
    /\ At(r, "password")
    /\ user' = Account(req[r].password, Stamped(req[r].verified))
    /\ Continue(r, "password")
    /\ UNCHANGED <<identity, refresh, mail, inbox, ends, broken, rest>>

ResetEnds(r) ==
    /\ At(r, "end")
    /\ EndSessions
    /\ Continue(r, "end")
    /\ UNCHANGED <<user, identity, mail, inbox, rest>>

-----------------------------------------------------------------------------

\* A statement fails, or the process dies: what is committed stays.
Fail(r) ==
    /\ req[r].at \in {"insert", "issue", "revoke", "match", "link", "create",
                      "claim", "verify", "password", "end"}
    /\ broken' = (broken \/ At(r, "end"))
    /\ Answer(r)
    /\ UNCHANGED <<user, identity, refresh, mail, inbox, ends, rest>>

Step(r) ==
    \/ IssueSession(r) \/ Rotate(r)
    \/ InsertUser(r) \/ MatchUser(r) \/ LinkUser(r) \/ CreateUser(r)
    \/ FindOutstanding(r) \/ ReplaceLinks(r) \/ SendLink(r) \/ MailFails(r)
    \/ ClaimLink(r) \/ VerifyUser(r) \/ SetPassword(r) \/ ResetEnds(r)
    \/ Fail(r)

Arrive(r) ==
    \/ \E p \in Passwords : Login(r, p) \/ Register(r, p)
    \/ \E confirms \in BOOLEAN : Google(r, confirms)
    \/ \E s \in Sessions : Refresh(r, s)
    \/ Resend(r) \/ Forgot(r)
    \/ \E k \in inbox : Confirm(r, k) \/ \E p \in Passwords : Reset(r, k, p)

Next ==
    \/ \E r \in Requests : Arrive(r) \/ Step(r)
    \/ \E s \in Sessions : Logout(s) \/ ExpireSession(s)
    \/ \E k \in Links : ExpireLink(k)
    \/ LogoutAll

Spec == Init /\ [][Next]_vars

-----------------------------------------------------------------------------

Requested ==
    [op : {"register", "login", "google", "refresh", "resend", "forgot", "confirm", "reset"},
     at : {"insert", "outstanding", "replace", "mail", "issue", "match", "link", "create",
           "revoke", "claim", "verify", "password", "end"},
     password : Passwords \cup {None}, session : Sessions \cup {None},
     link : Links \cup {None}, links : SUBSET Links, verified : BOOLEAN,
     since : Nat, root : Nat, over : Nat, before : SUBSET Links]

\* Every row and every request in flight is well formed, and a handler only
\* dereferences an account, a session or a link that exists.
TypeOK ==
    /\ user \in {None} \cup UserRow
    /\ identity \in BOOLEAN /\ broken \in BOOLEAN /\ vouched \in BOOLEAN
    /\ refresh \in [Sessions -> SessionRow \cup {None}]
    /\ mail \in [Links -> LinkRow \cup {None}]
    /\ inbox \subseteq {k \in Links : mail[k] # None}
    /\ req \in [Requests -> Requested \cup {Idle}]
    /\ kinds \in Mixes
    /\ ends \in Nat
    /\ (identity \/ \E k \in Links : mail[k] # None) => user # None

\* A mailed link is redeemed at most once, however many times and however
\* closely together it is followed (authTokens.ts:71).
RedeemedOnce == \A k \in Links : mail[k] # None => mail[k].redeemed <= 1

\* A link is dead as soon as a later request has issued another for the same
\* purpose, redemptions and other issues going on meanwhile
\* (accountRecovery.ts:89).
EarlierLinksDie ==
    \A k \in Links : mail[k] # None =>
        \A j \in mail[k].before : mail[j].purpose = mail[k].purpose => mail[j].status = "consumed"

\* A session is exchanged for at most one other, unless two exchanges of it
\* were under way at once (auth.ts:132, tokens.ts:118).
ExchangedOnce ==
    \A s \in Sessions : refresh[s] # None => refresh[s].heirs <= 1 \/ refresh[s].contested

\* After a reset or a sign-out everywhere, a session that works goes back,
\* through any number of refreshes, to a later sign-in; or the request that
\* opened it or one it comes from was under way when the sessions were ended.
EndedMeansEnded ==
    \A s \in Sessions : Live(s) => refresh[s].root = ends \/ refresh[s].over = ends

\* Between storing the password and ending the sessions, or died there.
Changing == broken \/ \E r \in Requests : At(r, "end")

\* Once a reset is through, no session works that was opened with an earlier
\* password, but those under way at the time (accountRecovery.ts:188).
OldPasswordSignsOut ==
    ~Changing => \A s \in Sessions :
        Live(s) => \/ refresh[s].password \in {None, user.password}
                   \/ refresh[s].over = ends /\ ends > 0

\* An address is marked verified only after a mailed link was redeemed or
\* Google confirmed it, by whichever handler marks it (googleAuth.ts:305).
VerifiedIsEarned ==
    user # None /\ user.verified =>
        vouched \/ \E k \in Links : mail[k] # None /\ mail[k].redeemed > 0

\* An address once verified stays so, whatever handlers write back from a row
\* they read before (accountRecovery.ts:133).
StaysVerified == [][user # None /\ user.verified => user'.verified]_vars

-----------------------------------------------------------------------------
(* The promise to the owner of the address. *)

\* Between the redemption of a link and the statement it was followed for.
InHand(k) == \E r \in Requests : req[r].at \in {"verify", "password"} /\ req[r].link = k

LinkState(k) ==
    IF mail[k] = None THEN "none"
    ELSE IF InHand(k) THEN "taken"
    ELSE IF mail[k].redeemed > 0 THEN "used"
    ELSE IF mail[k].status = "consumed" THEN "void" ELSE "open"

Ownership == INSTANCE AddressOwnership WITH
    account <- user,
    linked  <- identity,
    purpose <- [k \in Links |-> IF mail[k] = None THEN None ELSE mail[k].purpose],
    link    <- [k \in Links |-> LinkState(k)]

\* Whatever requests interleave and die, the address is its owner's: the
\* handlers implement the promise, one committed statement at a time.
ImplementsOwnership == Ownership!Spec

=============================================================================
