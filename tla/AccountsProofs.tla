--------------------------- MODULE AccountsProofs ---------------------------
(***************************************************************************)
(* Accounts for any number of requests, sessions, links and passwords.      *)
(***************************************************************************)
EXTENDS Accounts, TLAPS

Opened == {s \in Sessions : refresh[s] # None}

Sent == {k \in Links : mail[k] # None}

\* What a request in flight holds exists: its session, its link, its account.
InFlight(q) ==
    /\ q.at \notin {"revoke", "issue"} => q.session = None
    /\ q.at = "revoke" => q.session \in Opened
    /\ q.at = "issue" => q.session \in Opened \cup {None}
    /\ q.at \in {"mail", "claim", "verify", "password", "end"} => q.link \in Sent
    /\ q.links \subseteq Sent /\ q.before \subseteq Sent
    /\ user = None => q.at \in {"insert", "match", "create"}
    /\ q.since <= ends

HoldInv ==
    /\ \A r \in Requests : req[r] # Idle => InFlight(req[r])
    /\ \A k \in Sent : mail[k].before \subseteq Sent
    /\ user = None => Opened = {} /\ Sent = {}

Inv == TypeOK /\ HoldInv

\* Putting a well formed request into a slot keeps the type of the slots.
LEMMA Replaced ==
    ASSUME TypeOK, NEW r \in Requests, NEW q \in Requested \cup {Idle},
           req' = [req EXCEPT ![r] = q]
    PROVE  req' \in [Requests -> Requested \cup {Idle}]
  BY DEF TypeOK

LEMMA Busy ==
    ASSUME TypeOK, NEW r \in Requests, ~ At(r, "idle")
    PROVE  req[r] \in Requested /\ req[r] # Idle
  BY DEF TypeOK, At, Idle

LEMMA Moved ==
    ASSUME TypeOK, NEW r \in Requests, ~ At(r, "idle"),
           NEW at \in {"outstanding", "issue", "create", "link", "verify", "password", "end"}
    PROVE  [req[r] EXCEPT !.at = at] \in Requested
  BY Busy DEF Requested

LEMMA Asked ==
    ASSUME TypeOK,
           NEW op \in {"register", "login", "google", "refresh", "resend", "forgot", "confirm", "reset"},
           NEW at \in {"insert", "outstanding", "issue", "match", "revoke", "claim"}
    PROVE  Request(op, at) \in Requested
  BY DEF TypeOK, Request, Requested

LEMMA ArriveTyped ==
    ASSUME TypeOK, NEW r \in Requests, Arrive(r)
    PROVE  TypeOK'
  <1> USE DEF Begin, rest
  <1>1. ASSUME NEW p \in Passwords, Login(r, p) PROVE TypeOK'
    <2> DEFINE q == Request("login", "issue")
    <2>1. q \in Requested
      BY Asked
    <2>2. req' = [req EXCEPT ![r] = [q EXCEPT !.password = p]]
      BY <1>1 DEF Login
    <2> HIDE DEF q
    <2>3. [q EXCEPT !.password = p] \in Requested
      BY <2>1 DEF Requested
    <2> QED BY <1>1, <2>2, <2>3, Replaced DEF Login, TypeOK
  <1>2. ASSUME NEW p \in Passwords, Register(r, p) PROVE TypeOK'
    <2> DEFINE q == Request("register", "insert")
    <2>1. q \in Requested
      BY Asked
    <2>2. req' = [req EXCEPT ![r] = [q EXCEPT !.password = p]]
      BY <1>2 DEF Register
    <2> HIDE DEF q
    <2>3. [q EXCEPT !.password = p] \in Requested
      BY <2>1 DEF Requested
    <2> QED BY <1>2, <2>2, <2>3, Replaced DEF Register, TypeOK
  <1>3. ASSUME NEW confirms \in BOOLEAN, Google(r, confirms) PROVE TypeOK'
    <2> DEFINE q == Request("google", IF identity THEN "issue" ELSE "match")
    <2>1. q \in Requested
      BY Asked
    <2>2. req' = [req EXCEPT ![r] = [q EXCEPT !.verified = confirms]]
      BY <1>3 DEF Google
    <2> HIDE DEF q
    <2>3. [q EXCEPT !.verified = confirms] \in Requested
      BY <2>1 DEF Requested
    <2> QED BY <1>3, <2>2, <2>3, Replaced DEF Google, TypeOK
  <1>4. ASSUME NEW s \in Sessions, Refresh(r, s) PROVE TypeOK'
    <2> DEFINE q == Request("refresh", "revoke")
               x == [q EXCEPT !.session = s, !.root = refresh[s].root, !.over = refresh[s].over,
                              !.password = refresh[s].password]
    <2>1. q \in Requested
      BY Asked
    <2>2. req' = [req EXCEPT ![r] = x]
      BY <1>4 DEF Refresh
    <2> HIDE DEF q
    <2>3. refresh[s] \in SessionRow
      BY <1>4 DEF Refresh, Presentable, Live, TypeOK
    <2>4. x \in Requested
      BY <2>1, <2>3 DEF Requested, SessionRow
    <2>5. refresh' \in [Sessions -> SessionRow \cup {None}]
      BY <1>4, <2>3 DEF Refresh, SessionRow, TypeOK
    <2> HIDE DEF x
    <2> QED BY <1>4, <2>2, <2>4, <2>5, Replaced DEF Refresh, TypeOK
  <1>5. ASSUME Resend(r) \/ Forgot(r) PROVE TypeOK'
    BY <1>5, Asked, Replaced DEF Resend, Forgot, TypeOK
  <1>6. ASSUME NEW op \in {"confirm", "reset"}, NEW k \in inbox,
               NEW p \in Passwords \cup {None}, OpenLink(r, op, k, p)
        PROVE  TypeOK'
    <2> DEFINE q == Request(op, "claim")
               x == [q EXCEPT !.link = k, !.password = p, !.verified = user.verified]
    <2>1. q \in Requested
      BY Asked
    <2>2. req' = [req EXCEPT ![r] = x]
      BY <1>6 DEF OpenLink
    <2> HIDE DEF q
    <2>3. k \in Links /\ user.verified \in BOOLEAN
      BY DEF TypeOK, UserRow
    <2>4. x \in Requested
      BY <2>1, <2>3 DEF Requested
    <2> HIDE DEF x
    <2> QED BY <1>6, <2>2, <2>4, Replaced DEF OpenLink, TypeOK
  <1>7. QED
    BY <1>1, <1>2, <1>3, <1>4, <1>5, <1>6 DEF Arrive, Confirm, Reset

\* Updates of a row that keep its type.
LEMMA SessionUpdates ==
    ASSUME NEW x \in SessionRow, NEW b \in BOOLEAN
    PROVE  /\ [x EXCEPT !.live = FALSE] \in SessionRow
           /\ [x EXCEPT !.contested = b] \in SessionRow
           /\ [x EXCEPT !.heirs = @ + 1] \in SessionRow
  <1>1. [x EXCEPT !.live = FALSE] \in SessionRow
    BY DEF SessionRow
  <1>2. [x EXCEPT !.contested = b] \in SessionRow
    BY DEF SessionRow
  <1>3. [x EXCEPT !.heirs = @ + 1] \in SessionRow
    BY DEF SessionRow
  <1>4. QED BY <1>1, <1>2, <1>3

LEMMA LinkUpdates ==
    ASSUME NEW x \in LinkRow, NEW st \in {"fresh", "consumed", "expired"}
    PROVE  /\ [x EXCEPT !.status = st] \in LinkRow
           /\ [x EXCEPT !.status = st, !.redeemed = @ + 1] \in LinkRow
  <1> DEFINE y == [x EXCEPT !.status = st]
  <1>1. y \in LinkRow
    BY DEF LinkRow
  <1>2. [x EXCEPT !.status = st, !.redeemed = @ + 1] = [y EXCEPT !.redeemed = @ + 1]
    BY DEF LinkRow
  <1> HIDE DEF y
  <1>3. [y EXCEPT !.redeemed = @ + 1] \in LinkRow
    BY <1>1 DEF LinkRow
  <1>4. QED BY <1>1, <1>2, <1>3 DEF y

\* Dead or alive, an updated session is still a session.
LEMMA Buried ==
    ASSUME TypeOK, NEW s \in Opened
    PROVE  [refresh EXCEPT ![s].live = FALSE] \in [Sessions -> SessionRow \cup {None}]
  <1>1. [refresh[s] EXCEPT !.live = FALSE] \in SessionRow
    BY SessionUpdates DEF TypeOK, Opened
  <1>2. QED
    BY <1>1 DEF TypeOK, Opened

LEMMA EndTyped ==
    ASSUME TypeOK, EndSessions
    PROVE  /\ refresh' \in [Sessions -> SessionRow \cup {None}]
           /\ ends' = ends + 1 /\ ends' \in Nat /\ broken' = FALSE
  <1>1. \A s \in Sessions : refresh[s] # None => [refresh[s] EXCEPT !.live = FALSE] \in SessionRow
    BY SessionUpdates DEF TypeOK
  <1>2. AllRevoked \in [Sessions -> SessionRow \cup {None}]
    BY <1>1 DEF AllRevoked
  <1>3. QED
    BY <1>2 DEF EndSessions, TypeOK

LEMMA IssueTyped ==
    ASSUME TypeOK, HoldInv, NEW r \in Requests, IssueSession(r)
    PROVE  TypeOK'
  <1>1. PICK s \in Sessions :
           /\ refresh[s] = None
           /\ refresh' = [t \in Sessions |->
                  CASE t = s -> Session(req[r])
                    [] t = req[r].session -> [refresh[t] EXCEPT !.heirs = @ + 1]
                    [] OTHER -> refresh[t]]
    BY DEF IssueSession
  <1>2. req[r] \in Requested /\ InFlight(req[r])
    BY Busy DEF IssueSession, HoldInv, At
  <1>3. Session(req[r]) \in SessionRow
    BY <1>2 DEF Session, SessionRow, Requested, TypeOK
  <1>4. ASSUME NEW t \in Sessions
        PROVE  refresh'[t] \in SessionRow \cup {None}
    <2>1. CASE t = s
      <3>1. t # req[r].session
        BY <1>1, <1>2, <2>1, NoneIsNone DEF IssueSession, InFlight, At, Opened
      <3> QED BY <1>1, <1>3, <2>1, <3>1
    <2>2. CASE t # s /\ t = req[r].session
      <3>1. refresh[t] \in SessionRow
        BY <1>2, <2>2, NoneIsNone DEF IssueSession, InFlight, At, Opened, TypeOK
      <3>2. [refresh[t] EXCEPT !.heirs = @ + 1] \in SessionRow
        BY <3>1, SessionUpdates
      <3> QED BY <1>1, <2>2, <3>2
    <2>3. CASE t # s /\ t # req[r].session
      BY <1>1, <2>3 DEF TypeOK
    <2> QED BY <2>1, <2>2, <2>3
  <1>5. refresh' \in [Sessions -> SessionRow \cup {None}]
    BY <1>1, <1>4
  <1>6. req' \in [Requests -> Requested \cup {Idle}]
    BY Replaced DEF IssueSession, Answer
  <1>7. QED
    BY <1>5, <1>6 DEF IssueSession, TypeOK, rest

LEMMA SessionStepTyped ==
    ASSUME TypeOK, HoldInv, NEW r \in Requests, Rotate(r) \/ ResetEnds(r)
    PROVE  TypeOK'
  <1>1. ASSUME Rotate(r) PROVE TypeOK'
    <2>1. req[r].session \in Opened
      BY <1>1, Busy DEF Rotate, At, HoldInv, InFlight
    <2>2. refresh' \in [Sessions -> SessionRow \cup {None}]
      BY <1>1, <2>1, Buried DEF Rotate
    <2>3. req' = [req EXCEPT ![r] = [req[r] EXCEPT !.at = "issue"]]
      BY <1>1 DEF Rotate, Goto
    <2>4. req' \in [Requests -> Requested \cup {Idle}]
      BY <1>1, <2>3, Moved, Replaced DEF Rotate, At
    <2> QED BY <1>1, <2>2, <2>4 DEF Rotate, TypeOK, rest
  <1>2. ASSUME ResetEnds(r) PROVE TypeOK'
    <2>1. req' \in [Requests -> Requested \cup {Idle}]
      BY <1>2, Replaced DEF ResetEnds, Continue, Follows, Answer
    <2> QED BY <1>2, <2>1, EndTyped DEF ResetEnds, TypeOK, rest
  <1>3. QED BY <1>1, <1>2

\* Where a handler goes on to is one of the stages of Moved.
LEMMA Continued ==
    ASSUME TypeOK, NEW r \in Requests, ~ At(r, "idle"), NEW at \in {"mail", "password"},
           Continue(r, at)
    PROVE  req' \in [Requests -> Requested \cup {Idle}]
  <1>1. CASE Answer(r)
    BY <1>1, Replaced DEF Answer
  <1>2. CASE Goto(r, "issue")
    BY <1>2, Moved, Replaced DEF Goto
  <1>3. CASE Goto(r, "end")
    BY <1>3, Moved, Replaced DEF Goto
  <1>4. QED
    BY <1>1, <1>2, <1>3 DEF Continue, Follows

LEMMA Went ==
    ASSUME TypeOK, NEW r \in Requests, ~ At(r, "idle"),
           NEW at \in {"outstanding", "issue", "create", "link", "verify", "password", "end"},
           Goto(r, at)
    PROVE  req' \in [Requests -> Requested \cup {Idle}]
  BY Moved, Replaced DEF Goto

LEMMA Answered ==
    ASSUME TypeOK, NEW r \in Requests, Answer(r)
    PROVE  req' \in [Requests -> Requested \cup {Idle}]
  BY Replaced DEF Answer

LEMMA AccountStepTyped ==
    ASSUME TypeOK, HoldInv, NEW r \in Requests,
           InsertUser(r) \/ MatchUser(r) \/ LinkUser(r) \/ CreateUser(r)
    PROVE  TypeOK'
  <1>1. ~ At(r, "idle") /\ req[r] \in Requested /\ InFlight(req[r])
    BY Busy DEF InsertUser, MatchUser, LinkUser, CreateUser, At, HoldInv
  <1>2. ASSUME InsertUser(r) PROVE TypeOK'
    <2>1. req' \in [Requests -> Requested \cup {Idle}]
      BY <1>1, <1>2, Went, Answered DEF InsertUser
    <2>2. user' \in {None} \cup UserRow
      <3>1. Account(req[r].password, FALSE) \in UserRow
        BY <1>1 DEF Account, UserRow, Requested
      <3> QED BY <1>2, <3>1 DEF InsertUser, TypeOK
    <2>3. user # None => user' # None
      BY <1>2 DEF InsertUser, Taken
    <2> QED BY <1>2, <2>1, <2>2, <2>3 DEF InsertUser, TypeOK, rest
  <1>3. ASSUME MatchUser(r) PROVE TypeOK'
    <2>1. req' \in [Requests -> Requested \cup {Idle}]
      BY <1>1, <1>3, Went, Answered DEF MatchUser
    <2> QED BY <1>3, <2>1 DEF MatchUser, TypeOK, rest
  <1>4. ASSUME LinkUser(r) PROVE TypeOK'
    <2>1. req' \in [Requests -> Requested \cup {Idle}]
      BY <1>1, <1>4, Went DEF LinkUser
    <2>2. user \in UserRow
      BY <1>1, <1>4 DEF LinkUser, InFlight, At, TypeOK
    <2>3. user' \in UserRow /\ user' # None
      <3>1. user' \in UserRow
        BY <1>4, <2>2 DEF LinkUser, UserRow
      <3> QED BY <3>1, NoneIsNone
    <2> QED BY <1>4, <2>1, <2>3 DEF LinkUser, TypeOK, rest
  <1>5. ASSUME CreateUser(r) PROVE TypeOK'
    <2>1. req' \in [Requests -> Requested \cup {Idle}]
      BY <1>1, <1>5, Went, Answered DEF CreateUser
    <2>2. Account(None, Created(req[r].verified)) \in UserRow
      BY <1>1 DEF Account, Created, UserRow, Requested
    <2>3. user' \in {None} \cup UserRow /\ identity' \in BOOLEAN
      BY <1>5, <2>2 DEF CreateUser, TypeOK
    <2>4. identity' \/ user # None => user' # None
      BY <1>5, <2>2, NoneIsNone DEF CreateUser, Taken, TypeOK
    <2> QED BY <1>5, <2>1, <2>3, <2>4 DEF CreateUser, TypeOK, rest
  <1>6. QED BY <1>2, <1>3, <1>4, <1>5

\* Whatever its status, a link that has been issued stays a link.
LEMMA Stamp ==
    ASSUME TypeOK, NEW k \in Sent, NEW st \in {"fresh", "consumed", "expired"}
    PROVE  /\ mail[k] \in LinkRow
           /\ [mail[k] EXCEPT !.status = st] \in LinkRow
           /\ [mail[k] EXCEPT !.status = st, !.redeemed = @ + 1] \in LinkRow
  <1>1. mail[k] \in LinkRow
    BY DEF TypeOK, Sent
  <1>2. QED
    BY <1>1, LinkUpdates

LEMMA ReplaceTyped ==
    ASSUME TypeOK, HoldInv, NEW r \in Requests, ReplaceLinks(r)
    PROVE  TypeOK'
  <1>1. req[r] \in Requested /\ InFlight(req[r])
    BY Busy DEF ReplaceLinks, HoldInv, At
  <1>2. PICK k \in Links :
           /\ mail[k] = None
           /\ mail' = [j \in Links |->
                  CASE j = k -> Link(req[r])
                    [] j \in req[r].links -> [mail[j] EXCEPT !.status = "consumed"]
                    [] OTHER -> mail[j]]
           /\ req' = [req EXCEPT ![r].at = "mail", ![r].link = k]
    BY DEF ReplaceLinks
  <1>3. k \notin req[r].links
    BY <1>1, <1>2 DEF InFlight, Sent
  <1>4. Link(req[r]) \in LinkRow
    BY <1>1 DEF Link, LinkRow, Purpose, Requested
  <1>5. ASSUME NEW j \in Links
        PROVE  /\ mail'[j] \in LinkRow \cup {None}
               /\ mail[j] # None => mail'[j] # None
    <2>1. CASE j = k
      BY <1>2, <1>3, <1>4, <2>1
    <2>2. CASE j # k /\ j \in req[r].links
      <3>1. j \in Sent
        BY <1>1, <2>2 DEF InFlight
      <3>2. [mail[j] EXCEPT !.status = "consumed"] \in LinkRow
        BY <3>1, Stamp
      <3> QED BY <1>2, <2>2, <3>2, NoneIsNone
    <2>3. CASE j # k /\ j \notin req[r].links
      BY <1>2, <2>3 DEF TypeOK
    <2> QED BY <2>1, <2>2, <2>3
  <1>6. mail' \in [Links -> LinkRow \cup {None}]
    BY <1>2, <1>5
  <1>7. req' \in [Requests -> Requested \cup {Idle}]
    <2>1. [req[r] EXCEPT !.at = "mail", !.link = k] \in Requested
      BY <1>1 DEF Requested
    <2>2. req' = [req EXCEPT ![r] = [req[r] EXCEPT !.at = "mail", !.link = k]]
      BY <1>2
    <2> QED BY <2>1, <2>2, Replaced
  <1>8. user # None
    BY <1>1 DEF InFlight, ReplaceLinks, At
  <1>9. QED
    BY <1>5, <1>6, <1>7, <1>8 DEF ReplaceLinks, TypeOK, rest

LEMMA LinkStepTyped ==
    ASSUME TypeOK, HoldInv, NEW r \in Requests,
           FindOutstanding(r) \/ SendLink(r) \/ MailFails(r) \/ ClaimLink(r)
    PROVE  TypeOK'
  <1>1. ~ At(r, "idle") /\ req[r] \in Requested /\ InFlight(req[r])
    BY Busy DEF FindOutstanding, SendLink, MailFails, ClaimLink, At, HoldInv
  <1>2. ASSUME FindOutstanding(r) PROVE TypeOK'
    <2> DEFINE L == Outstanding(Purpose(req[r].op))
    <2>1. L \subseteq Links
      BY DEF Outstanding
    <2>2. req' = [req EXCEPT ![r] = [req[r] EXCEPT !.at = "replace", !.links = L]]
      BY <1>2 DEF FindOutstanding
    <2> HIDE DEF L
    <2>3. [req[r] EXCEPT !.at = "replace", !.links = L] \in Requested
      BY <1>1, <2>1 DEF Requested
    <2> QED BY <1>2, <2>2, <2>3, Replaced DEF FindOutstanding, TypeOK, rest
  <1>3. ASSUME SendLink(r) PROVE TypeOK'
    <2>1. req[r].link \in Sent
      BY <1>1, <1>3 DEF SendLink, At, InFlight
    <2>2. req' \in [Requests -> Requested \cup {Idle}]
      BY <1>1, <1>3, Continued DEF SendLink
    <2> QED BY <1>3, <2>1, <2>2 DEF SendLink, TypeOK, Sent, rest
  <1>4. ASSUME MailFails(r) PROVE TypeOK'
    BY <1>1, <1>4, Continued DEF MailFails, TypeOK, rest
  <1>5. ASSUME ClaimLink(r) PROVE TypeOK'
    <2>1. req[r].link \in Sent
      BY <1>1, <1>5 DEF ClaimLink, At, InFlight
    <2>2. req' \in [Requests -> Requested \cup {Idle}]
      BY <1>1, <1>5, Went, Answered DEF ClaimLink, Follows
    <2>3. /\ mail' \in [Links -> LinkRow \cup {None}]
          /\ \A k \in Links : mail[k] = None <=> mail'[k] = None
      <3> DEFINE k == req[r].link
                 x == [mail[k] EXCEPT !.status = "consumed", !.redeemed = @ + 1]
      <3>1. CASE mail' = mail
        BY <3>1 DEF TypeOK
      <3>2. CASE mail' = [mail EXCEPT ![k] = x]
        <4>1. x \in LinkRow
          BY <2>1, Stamp
        <4>2. k \in Links /\ mail[k] # None
          BY <2>1 DEF Sent
        <4> HIDE DEF x, k
        <4> QED BY <3>2, <4>1, <4>2, NoneIsNone DEF TypeOK
      <3> QED BY <1>5, <3>1, <3>2 DEF ClaimLink
    <2> QED BY <1>5, <2>2, <2>3 DEF ClaimLink, TypeOK, rest
  <1>6. QED BY <1>2, <1>3, <1>4, <1>5

LEMMA UserStepTyped ==
    ASSUME TypeOK, HoldInv, NEW r \in Requests, VerifyUser(r) \/ SetPassword(r) \/ Fail(r)
    PROVE  TypeOK'
  <1>1. ~ At(r, "idle") /\ req[r] \in Requested /\ InFlight(req[r])
    BY Busy DEF VerifyUser, SetPassword, Fail, At, HoldInv
  <1>2. ASSUME VerifyUser(r) PROVE TypeOK'
    <2>1. user \in UserRow
      BY <1>1, <1>2 DEF VerifyUser, At, InFlight, TypeOK
    <2>2. user' \in UserRow
      BY <1>2, <2>1 DEF VerifyUser, Stamped, UserRow
    <2> QED BY <1>2, <2>2, NoneIsNone, Answered DEF VerifyUser, TypeOK, rest
  <1>3. ASSUME SetPassword(r) PROVE TypeOK'
    <2>1. user' \in UserRow
      BY <1>1, <1>3 DEF SetPassword, Stamped, UserRow, Account, Requested
    <2>2. req' \in [Requests -> Requested \cup {Idle}]
      BY <1>1, <1>3, Continued DEF SetPassword
    <2> QED BY <1>3, <2>1, <2>2, NoneIsNone DEF SetPassword, TypeOK, rest
  <1>4. ASSUME Fail(r) PROVE TypeOK'
    BY <1>4, Answered DEF Fail, TypeOK, At, rest
  <1>5. QED BY <1>2, <1>3, <1>4

LEMMA ElsewhereTyped ==
    ASSUME TypeOK, HoldInv,
           \/ LogoutAll
           \/ \E s \in Sessions : Logout(s) \/ ExpireSession(s)
           \/ \E k \in Links : ExpireLink(k)
    PROVE  TypeOK'
  <1>1. ASSUME LogoutAll PROVE TypeOK'
    BY <1>1, EndTyped DEF LogoutAll, TypeOK, rest
  <1>2. ASSUME NEW s \in Sessions, Logout(s) \/ ExpireSession(s) PROVE TypeOK'
    <2>1. s \in Opened
      BY <1>2 DEF Logout, ExpireSession, Live, Opened
    <2>2. refresh' \in [Sessions -> SessionRow \cup {None}]
      BY <1>2, <2>1, Buried DEF Logout, ExpireSession
    <2> QED BY <1>2, <2>2 DEF Logout, ExpireSession, TypeOK, rest
  <1>3. ASSUME NEW k \in Links, ExpireLink(k) PROVE TypeOK'
    <2> DEFINE x == [mail[k] EXCEPT !.status = "expired"]
    <2>1. k \in Sent
      BY <1>3 DEF ExpireLink, Sent
    <2>2. x \in LinkRow
      BY <2>1, Stamp
    <2>3. mail' = [mail EXCEPT ![k] = x]
      BY <1>3 DEF ExpireLink
    <2> HIDE DEF x
    <2> QED BY <1>3, <2>1, <2>2, <2>3, NoneIsNone DEF ExpireLink, TypeOK, Sent, rest
  <1>4. QED BY <1>1, <1>2, <1>3

-----------------------------------------------------------------------------

\* What no step undoes: rows stay, their histories only grow, a dead session
\* stays dead and a consumed link consumed.
SessionLasts(s) ==
    /\ s \in Opened'
    /\ refresh'[s].root = refresh[s].root
    /\ refresh'[s].over = refresh[s].over
    /\ refresh'[s].password = refresh[s].password
    /\ refresh'[s].live = TRUE => refresh[s].live = TRUE

LinkLasts(k) ==
    /\ k \in Sent'
    /\ mail'[k].purpose = mail[k].purpose
    /\ mail'[k].before = mail[k].before
    /\ mail[k].status = "consumed" => mail'[k].status = "consumed"
    /\ mail'[k].redeemed >= mail[k].redeemed

Lasting ==
    /\ \A s \in Opened : SessionLasts(s)
    /\ \A k \in Sent : LinkLasts(k)
    /\ user # None => user' # None
    /\ ends' >= ends
    /\ vouched => vouched'

LEMMA SameMail ==
    ASSUME TypeOK, UNCHANGED mail
    PROVE  \A k \in Sent : LinkLasts(k)
  BY DEF TypeOK, Sent, LinkRow, LinkLasts

LEMMA SameSessions ==
    ASSUME UNCHANGED refresh
    PROVE  \A s \in Opened : SessionLasts(s)
  BY DEF Opened, SessionLasts

LEMMA SameRows ==
    ASSUME TypeOK, UNCHANGED <<refresh, mail, ends>>, user # None => user' # None,
           vouched => vouched'
    PROVE  Lasting
  <1>1. ends' >= ends
    BY DEF TypeOK
  <1>2. QED
    BY <1>1, SameMail, SameSessions DEF Lasting

\* All that steps do to a row there is.
SessionTouched(s) ==
    \/ refresh'[s] = refresh[s]
    \/ refresh'[s] = [refresh[s] EXCEPT !.live = FALSE]
    \/ refresh'[s] = [refresh[s] EXCEPT !.heirs = @ + 1]
    \/ \E b \in BOOLEAN : refresh'[s] = [refresh[s] EXCEPT !.contested = b]

LinkTouched(k) ==
    \/ mail'[k] = mail[k]
    \/ mail'[k] = [mail[k] EXCEPT !.status = "consumed"]
    \/ mail'[k] = [mail[k] EXCEPT !.status = "consumed", !.redeemed = @ + 1]
    \/ mail'[k] = [mail[k] EXCEPT !.status = "expired"] /\ mail[k].status = "fresh"

\* Rows of refresh change in live, heirs and contested only.
LEMMA SessionsLast ==
    ASSUME TypeOK, UNCHANGED <<user, mail, vouched>>, ends' >= ends,
           \A s \in Opened : SessionTouched(s)
    PROVE  Lasting
  <1>1. ASSUME NEW s \in Opened PROVE SessionLasts(s)
    <2>1. refresh[s] \in SessionRow /\ s \in Sessions
      BY DEF Opened, TypeOK
    <2>2. ASSUME refresh'[s] \in SessionRow PROVE s \in Opened'
      BY <2>1, <2>2, NoneIsNone DEF Opened
    <2>3. CASE refresh'[s] = refresh[s]
      BY <2>1, <2>2, <2>3 DEF SessionLasts
    <2>4. CASE refresh'[s] = [refresh[s] EXCEPT !.live = FALSE]
      <3>1. s \in Opened'
        BY <2>1, <2>2, <2>4, SessionUpdates
      <3> QED BY <2>1, <2>4, <3>1 DEF SessionRow, SessionLasts
    <2>5. CASE refresh'[s] = [refresh[s] EXCEPT !.heirs = @ + 1]
      <3>1. s \in Opened'
        BY <2>1, <2>2, <2>5, SessionUpdates
      <3> QED BY <2>1, <2>5, <3>1 DEF SessionRow, SessionLasts
    <2>6. ASSUME NEW b \in BOOLEAN, refresh'[s] = [refresh[s] EXCEPT !.contested = b]
          PROVE  SessionLasts(s)
      <3>1. s \in Opened'
        BY <2>1, <2>2, <2>6, SessionUpdates
      <3> QED BY <2>1, <2>6, <3>1 DEF SessionRow, SessionLasts
    <2> QED BY <2>3, <2>4, <2>5, <2>6 DEF SessionTouched
  <1>2. QED BY <1>1, SameMail DEF Lasting

\* Rows of mail change in status and redeemed only.
LEMMA LinksLast ==
    ASSUME TypeOK, UNCHANGED <<user, refresh, ends, vouched>>,
           \A k \in Sent : LinkTouched(k)
    PROVE  Lasting
  <1>1. ASSUME NEW k \in Sent PROVE LinkLasts(k)
    <2>1. mail[k] \in LinkRow /\ k \in Links
      BY DEF Sent, TypeOK
    <2>2. ASSUME mail'[k] \in LinkRow PROVE k \in Sent'
      BY <2>1, <2>2, NoneIsNone DEF Sent
    <2>3. CASE mail'[k] = mail[k]
      BY <2>1, <2>2, <2>3 DEF LinkRow, LinkLasts
    <2>4. CASE mail'[k] = [mail[k] EXCEPT !.status = "consumed"]
      <3>1. k \in Sent'
        BY <2>1, <2>2, <2>4, LinkUpdates
      <3> QED BY <2>1, <2>4, <3>1 DEF LinkRow, LinkLasts
    <2>5. CASE mail'[k] = [mail[k] EXCEPT !.status = "consumed", !.redeemed = @ + 1]
      <3>1. k \in Sent'
        BY <2>1, <2>2, <2>5, LinkUpdates
      <3> QED BY <2>1, <2>5, <3>1 DEF LinkRow, LinkLasts
    <2>6. CASE mail'[k] = [mail[k] EXCEPT !.status = "expired"] /\ mail[k].status = "fresh"
      <3>1. k \in Sent'
        BY <2>1, <2>2, <2>6, LinkUpdates
      <3> QED BY <2>1, <2>6, <3>1 DEF LinkRow, LinkLasts
    <2> QED BY <2>3, <2>4, <2>5, <2>6 DEF LinkTouched
  <1>2. ends' >= ends
    BY DEF TypeOK
  <1>3. QED BY <1>1, <1>2, SameSessions DEF Lasting

LEMMA EndLasts ==
    ASSUME TypeOK, HoldInv, TypeOK', EndSessions, UNCHANGED <<user, mail, vouched>>
    PROVE  Lasting
  <1>1. \A s \in Opened : SessionTouched(s)
    BY DEF EndSessions, AllRevoked, Opened, SessionTouched
  <1>2. ends' >= ends
    BY DEF EndSessions, TypeOK
  <1>3. QED BY <1>1, <1>2, SessionsLast

\* Every step of a request is one of these, and keeps what lasts.
LEMMA StepLasts ==
    ASSUME TypeOK, HoldInv, TypeOK', NEW r \in Requests, Step(r)
    PROVE  Lasting
  <1>1. ASSUME IssueSession(r) PROVE Lasting
    <2>1. PICK s \in Sessions :
             /\ refresh[s] = None
             /\ refresh' = [t \in Sessions |->
                    CASE t = s -> Session(req[r])
                      [] t = req[r].session -> [refresh[t] EXCEPT !.heirs = @ + 1]
                      [] OTHER -> refresh[t]]
      BY <1>1 DEF IssueSession
    <2>2. \A t \in Opened : SessionTouched(t)
      BY <2>1 DEF Opened, SessionTouched
    <2>3. UNCHANGED <<user, mail, vouched>> /\ ends' >= ends
      BY <1>1 DEF IssueSession, TypeOK, rest
    <2> QED BY <2>2, <2>3, SessionsLast
  <1>2. ASSUME Rotate(r) PROVE Lasting
    <2>1. \A t \in Opened : SessionTouched(t)
      BY <1>2 DEF Rotate, Opened, TypeOK, SessionTouched
    <2>2. UNCHANGED <<user, mail, vouched>> /\ ends' >= ends
      BY <1>2 DEF Rotate, TypeOK, rest
    <2> QED BY <2>1, <2>2, SessionsLast
  <1>3. ASSUME ResetEnds(r) PROVE Lasting
    BY <1>3, EndLasts DEF ResetEnds, rest
  <1>4. ASSUME ReplaceLinks(r) PROVE Lasting
    <2>1. PICK k \in Links :
             /\ mail[k] = None
             /\ mail' = [j \in Links |->
                    CASE j = k -> Link(req[r])
                      [] j \in req[r].links -> [mail[j] EXCEPT !.status = "consumed"]
                      [] OTHER -> mail[j]]
      BY <1>4 DEF ReplaceLinks
    <2>2. \A j \in Sent : LinkTouched(j)
      BY <2>1 DEF Sent, LinkTouched
    <2> QED BY <1>4, <2>2, LinksLast DEF ReplaceLinks, rest
  <1>5. ASSUME ClaimLink(r) PROVE Lasting
    <2>1. \A j \in Sent : LinkTouched(j)
      <3> DEFINE k == req[r].link
      <3>1. \/ mail' = mail
            \/ mail' = [mail EXCEPT ![k] = [mail[k] EXCEPT !.status = "consumed",
                                                         !.redeemed = @ + 1]]
        BY <1>5 DEF ClaimLink
      <3> HIDE DEF k
      <3> QED BY <3>1, ZenonT(60) DEF Sent, TypeOK, LinkTouched
    <2> QED BY <1>5, <2>1, LinksLast DEF ClaimLink, rest
  <1>6. ASSUME InsertUser(r) \/ MatchUser(r) \/ LinkUser(r) \/ CreateUser(r)
               \/ VerifyUser(r) \/ SetPassword(r)
        PROVE  Lasting
    <2>1. UNCHANGED <<refresh, mail, ends, vouched>>
      BY <1>6 DEF InsertUser, MatchUser, LinkUser, CreateUser, VerifyUser, SetPassword, rest
    <2>2. user # None => user' # None
      <3>1. CASE InsertUser(r) \/ MatchUser(r) \/ CreateUser(r)
        BY <3>1 DEF InsertUser, MatchUser, CreateUser, Taken
      <3>2. ASSUME LinkUser(r) \/ VerifyUser(r), user # None PROVE user' # None
        <4>1. user \in UserRow
          BY <3>2 DEF TypeOK
        <4>2. user' \in UserRow
          BY <3>2, <4>1 DEF LinkUser, VerifyUser, Stamped, UserRow
        <4> QED BY <4>2, NoneIsNone
      <3>3. ASSUME SetPassword(r) PROVE user' # None
        <4>1. req[r] \in Requested
          BY <3>3, Busy DEF SetPassword, At
        <4>2. user' \in UserRow
          BY <3>3, <4>1 DEF SetPassword, Account, Stamped, UserRow, Requested
        <4> QED BY <4>2, NoneIsNone
      <3> QED BY <1>6, <3>1, <3>2, <3>3
    <2> QED BY <2>1, <2>2, SameRows
  <1>7. ASSUME FindOutstanding(r) \/ SendLink(r) \/ MailFails(r) \/ Fail(r) PROVE Lasting
    BY <1>7, SameRows DEF FindOutstanding, SendLink, MailFails, Fail, rest
  <1>8. QED
    BY <1>1, <1>2, <1>3, <1>4, <1>5, <1>6, <1>7 DEF Step

LEMMA NextLasts ==
    ASSUME TypeOK, HoldInv, TypeOK', Next
    PROVE  Lasting
  <1>1. ASSUME NEW r \in Requests, Arrive(r) PROVE Lasting
    <2>1. ASSUME NEW s \in Sessions, Refresh(r, s) PROVE Lasting
      <3>1. \A t \in Opened : SessionTouched(t)
        <4>1. refresh[s] \in SessionRow
          BY <2>1 DEF Refresh, Presentable, Live, TypeOK
        <4> DEFINE b == refresh[s].contested
                        \/ \E o \in Requests : At(o, "revoke") /\ req[o].session = s
        <4>2. b \in BOOLEAN
          BY <4>1 DEF SessionRow
        <4>3. refresh' = [refresh EXCEPT ![s].contested = b]
          BY <2>1 DEF Refresh
        <4> HIDE DEF b
        <4> QED BY <4>2, <4>3 DEF Opened, TypeOK, SessionTouched
      <3>2. UNCHANGED <<user, mail, vouched>> /\ ends' >= ends
        BY <2>1 DEF Refresh, TypeOK, rest
      <3> QED BY <3>1, <3>2, SessionsLast
    <2>2. ASSUME NEW confirms \in BOOLEAN, Google(r, confirms) PROVE Lasting
      BY <2>2, SameRows DEF Google
    <2>3. ASSUME UNCHANGED <<user, refresh, mail, ends, vouched>> PROVE Lasting
      BY <2>3, SameRows
    <2> QED
      BY <1>1, <2>1, <2>2, <2>3
      DEF Arrive, Login, Register, Resend, Forgot, Confirm, Reset, OpenLink, rest
  <1>2. ASSUME LogoutAll PROVE Lasting
    BY <1>2, EndLasts DEF LogoutAll, rest
  <1>3. ASSUME NEW s \in Sessions, Logout(s) \/ ExpireSession(s) PROVE Lasting
    <2>1. \A t \in Opened : SessionTouched(t)
      BY <1>3 DEF Logout, ExpireSession, Opened, TypeOK, SessionTouched
    <2>2. UNCHANGED <<user, mail, vouched>> /\ ends' >= ends
      BY <1>3 DEF Logout, ExpireSession, TypeOK, rest
    <2> QED BY <2>1, <2>2, SessionsLast
  <1>4. ASSUME NEW k \in Links, ExpireLink(k) PROVE Lasting
    <2>1. \A j \in Sent : LinkTouched(j)
      BY <1>4 DEF ExpireLink, Sent, TypeOK, LinkTouched
    <2> QED BY <1>4, <2>1, LinksLast DEF ExpireLink, rest
  <1>5. QED BY <1>1, <1>2, <1>3, <1>4, StepLasts DEF Next

-----------------------------------------------------------------------------

\* Only the request that moves can come to hold something else.
Only(r) == \A o \in Requests : o # r => req'[o] = req[o]

LEMMA Grown ==
    ASSUME Lasting
    PROVE  Opened \subseteq Opened' /\ Sent \subseteq Sent'
  BY DEF Lasting, SessionLasts, LinkLasts

LEMMA Unmoved ==
    ASSUME TypeOK, TypeOK', HoldInv, Lasting, NEW o \in Requests,
           req'[o] = req[o], req[o] # Idle
    PROVE  InFlight(req[o])'
  <1>1. InFlight(req[o])
    BY DEF HoldInv
  <1>2. req[o].since \in Nat /\ ends \in Nat /\ ends' \in Nat
    BY DEF TypeOK, Idle, Requested
  <1>3. user # None => user' # None
    BY DEF Lasting
  <1>4. ends' >= ends
    BY DEF Lasting
  <1>5. QED
    BY <1>1, <1>2, <1>3, <1>4, Grown DEF InFlight

\* What is left to show of a step that leaves the mail, or adds to it.
LEMMA HoldKept ==
    ASSUME TypeOK, TypeOK', HoldInv, Lasting, NEW r \in Requests, Only(r),
           req'[r] # Idle => InFlight(req[r])',
           \A k \in Sent' \ Sent : mail'[k].before \subseteq Sent',
           user' = None => Opened' = {} /\ Sent' = {}
    PROVE  HoldInv'
  <1>1. ASSUME NEW o \in Requests, req'[o] # Idle PROVE InFlight(req[o])'
    BY <1>1, Unmoved DEF Only
  <1>2. ASSUME NEW k \in Sent' PROVE mail'[k].before \subseteq Sent'
    BY <1>2, Grown DEF HoldInv, Lasting, LinkLasts
  <1>3. QED
    BY <1>1, <1>2 DEF HoldInv

LEMMA OnlyOne ==
    ASSUME TypeOK, NEW r \in Requests, Arrive(r) \/ Step(r)
    PROVE  Only(r)
  <1>1. ASSUME NEW q, req' = [req EXCEPT ![r] = q] PROVE Only(r)
    BY <1>1 DEF Only
  <1>2. ASSUME NEW q, Begin(r, q) PROVE Only(r)
    BY <1>2 DEF Begin, Only, TypeOK
  <1>3. ASSUME NEW at, Goto(r, at) \/ Continue(r, at) \/ Answer(r) PROVE Only(r)
    BY <1>3 DEF Goto, Continue, Answer, Only, TypeOK
  <1>4. CASE Arrive(r)
    <2>1. ASSUME NEW p \in Passwords, Login(r, p) \/ Register(r, p) PROVE Only(r)
      BY <1>2, <2>1 DEF Login, Register
    <2>2. ASSUME NEW confirms \in BOOLEAN, Google(r, confirms) PROVE Only(r)
      BY <1>2, <2>2 DEF Google
    <2>3. ASSUME NEW s \in Sessions, Refresh(r, s) PROVE Only(r)
      BY <1>2, <2>3 DEF Refresh
    <2>4. ASSUME Resend(r) \/ Forgot(r) PROVE Only(r)
      BY <1>2, <2>4 DEF Resend, Forgot
    <2>5. ASSUME NEW k, NEW p, NEW op, OpenLink(r, op, k, p) PROVE Only(r)
      BY <1>2, <2>5 DEF OpenLink
    <2> QED BY <1>4, <2>1, <2>2, <2>3, <2>4, <2>5 DEF Arrive, Confirm, Reset
  <1>5. CASE Step(r)
    <2>1. ASSUME IssueSession(r) \/ Rotate(r) \/ ResetEnds(r) \/ Fail(r) PROVE Only(r)
      BY <1>3, <2>1 DEF IssueSession, Rotate, ResetEnds, Fail
    <2>2. ASSUME InsertUser(r) \/ MatchUser(r) \/ LinkUser(r) \/ CreateUser(r) PROVE Only(r)
      BY <1>3, <2>2 DEF InsertUser, MatchUser, LinkUser, CreateUser
    <2>3. ASSUME FindOutstanding(r) \/ ReplaceLinks(r) PROVE Only(r)
      BY <2>3 DEF FindOutstanding, ReplaceLinks, Only, TypeOK
    <2>4. ASSUME SendLink(r) \/ MailFails(r) \/ ClaimLink(r) \/ VerifyUser(r) \/ SetPassword(r)
          PROVE  Only(r)
      BY <1>3, <2>4 DEF SendLink, MailFails, ClaimLink, VerifyUser, SetPassword
    <2> QED BY <1>5, <2>1, <2>2, <2>3, <2>4 DEF Step
  <1>6. QED BY <1>4, <1>5

LEMMA ArriveHolds ==
    ASSUME TypeOK, TypeOK', HoldInv, Lasting, NEW r \in Requests, Arrive(r)
    PROVE  HoldInv'
  <1>1. UNCHANGED <<user, mail, ends>> /\ Sent' = Sent /\ Opened' = Opened
    <2>1. ASSUME NEW s \in Sessions, Refresh(r, s)
          PROVE  UNCHANGED <<user, mail, ends>> /\ Sent' = Sent /\ Opened' = Opened
      <3>1. UNCHANGED <<user, mail, ends>>
        BY <2>1 DEF Refresh
      <3>2. \A t \in Sessions \ {s} : refresh'[t] = refresh[t]
        BY <2>1 DEF Refresh, TypeOK
      <3>3. s \in Opened
        BY <2>1 DEF Refresh, Presentable, Live, Opened
      <3> QED BY <3>1, <3>2, <3>3, Grown DEF Opened, Sent
    <2>2. ASSUME UNCHANGED <<user, refresh, mail, ends>>
          PROVE  UNCHANGED <<user, mail, ends>> /\ Sent' = Sent /\ Opened' = Opened
      BY <2>2 DEF Sent, Opened
    <2> QED
      BY <2>1, <2>2
      DEF Arrive, Login, Register, Google, Resend, Forgot, Confirm, Reset, OpenLink, rest
  <1>2. ends \in Nat /\ {k \in Links : mail[k] # None} = Sent
    BY DEF TypeOK, Sent
  <1>3. req'[r] # Idle => InFlight(req[r])'
    <2>1. ASSUME NEW p \in Passwords, Login(r, p) PROVE InFlight(req[r])'
      BY <1>1, <1>2, <2>1 DEF Login, Begin, Request, InFlight, TypeOK
    <2>6. ASSUME NEW p \in Passwords, Register(r, p) PROVE InFlight(req[r])'
      BY <1>1, <1>2, <2>6 DEF Register, Begin, Request, InFlight, TypeOK
    <2>2. ASSUME NEW confirms \in BOOLEAN, Google(r, confirms) PROVE InFlight(req[r])'
      <3>1. identity => user # None
        BY DEF TypeOK
      <3> QED BY <1>1, <1>2, <2>2, <3>1 DEF Google, Begin, Request, InFlight, TypeOK
    <2>3. ASSUME NEW s \in Sessions, Refresh(r, s) PROVE InFlight(req[r])'
      <3>1. s \in Opened /\ user # None
        BY <2>3 DEF Refresh, Presentable, Live, Opened, HoldInv
      <3> QED BY <1>1, <1>2, <2>3, <3>1 DEF Refresh, Begin, Request, InFlight, TypeOK
    <2>4. ASSUME Resend(r) \/ Forgot(r) PROVE InFlight(req[r])'
      BY <1>1, <1>2, <2>4 DEF Resend, Forgot, Begin, Request, InFlight, TypeOK
    <2>5. ASSUME NEW k \in inbox, NEW p, NEW op \in {"confirm", "reset"}, OpenLink(r, op, k, p)
          PROVE  InFlight(req[r])'
      <3>1. k \in Sent /\ user # None
        BY DEF TypeOK, Sent
      <3> QED BY <1>1, <1>2, <2>5, <3>1 DEF OpenLink, Begin, Request, InFlight, TypeOK
    <2> QED BY <2>1, <2>2, <2>3, <2>4, <2>5, <2>6 DEF Arrive, Confirm, Reset
  <1>4. QED
    BY <1>1, <1>3, OnlyOne, HoldKept DEF HoldInv

\* A request that has an account keeps it, whatever it does.
LEMMA Hosted ==
    ASSUME TypeOK, HoldInv, Lasting, NEW r \in Requests, ~ At(r, "idle"),
           req[r].at \notin {"insert", "match", "create"}
    PROVE  user # None /\ user' # None
  BY Busy DEF HoldInv, InFlight, Lasting

LEMMA StepHolds ==
    ASSUME TypeOK, TypeOK', HoldInv, Lasting, NEW r \in Requests, Step(r)
    PROVE  HoldInv'
  <1>1. Only(r)
    BY OnlyOne
  <1>2. Step(r) => ~ At(r, "idle")
    BY DEF Step, IssueSession, Rotate, InsertUser, MatchUser, LinkUser, CreateUser,
           FindOutstanding, ReplaceLinks, SendLink, MailFails, ClaimLink, VerifyUser,
           SetPassword, ResetEnds, Fail, At
  <1>3. req[r] \in Requested /\ InFlight(req[r]) /\ req[r] # Idle
    BY <1>2, Busy DEF HoldInv
  <1>4. ends \in Nat /\ ends' \in Nat /\ ends' >= ends
    BY DEF TypeOK, Lasting
  <1>5. ASSUME UNCHANGED mail PROVE \A k \in Sent' \ Sent : mail'[k].before \subseteq Sent'
    BY <1>5 DEF Sent
  <1>6. ASSUME UNCHANGED <<refresh, mail>>
        PROVE  user' = None => Opened' = {} /\ Sent' = {}
    BY <1>6 DEF HoldInv, Lasting, Opened, Sent
  <1>7. ASSUME NEW at \in {"outstanding", "issue", "create", "link", "verify", "password", "end"},
               Goto(r, at),
               at # "issue" => req[r].session = None,
               at \in {"verify", "password", "end"} => req[r].link \in Sent,
               user' = None => at = "create"
        PROVE  InFlight(req[r])'
    <2>1. req'[r] = [req[r] EXCEPT !.at = at]
      BY <1>7 DEF Goto, TypeOK
    <2>2. /\ req'[r].at = at /\ req'[r].session = req[r].session /\ req'[r].link = req[r].link
          /\ req'[r].links = req[r].links /\ req'[r].before = req[r].before
          /\ req'[r].since = req[r].since
      BY <1>3, <2>1 DEF Requested
    <2>3. req[r].since <= ends'
      BY <1>3, <1>4 DEF InFlight, Requested
    <2>4. at = "issue" => req[r].session \in Opened \cup {None}
      BY <1>3 DEF InFlight
    <2> QED BY <1>3, <1>7, <2>2, <2>3, <2>4, Grown DEF InFlight
  <1>8. ASSUME NEW at \in {"mail", "password"}, Continue(r, at),
               req[r].session = None, req[r].link \in Sent \/ at = "mail", user' # None
        PROVE  req'[r] # Idle => InFlight(req[r])'
    <2>1. CASE Answer(r)
      BY <2>1 DEF Answer, TypeOK
    <2>2. CASE Goto(r, "issue")
      BY <1>7, <1>8, <2>2
    <2>3. CASE Goto(r, "end") /\ req[r].link \in Sent
      BY <1>7, <1>8, <2>3
    <2> QED BY <1>8, <2>1, <2>2, <2>3 DEF Continue, Follows
  <1>9. ASSUME Answer(r) PROVE req'[r] = Idle
    BY <1>9 DEF Answer, TypeOK
  <1>10. ASSUME IssueSession(r) PROVE HoldInv'
    <2>1. user' # None
      BY <1>2, <1>10, Hosted DEF IssueSession, At
    <2> QED BY <1>1, <1>5, <1>9, <1>10, <2>1, HoldKept DEF IssueSession
  <1>11. ASSUME Rotate(r) PROVE HoldInv'
    <2>1. user' # None
      BY <1>2, <1>11, Hosted DEF Rotate, At
    <2>2. InFlight(req[r])'
      BY <1>7, <1>11, <2>1 DEF Rotate
    <2> QED BY <1>1, <1>5, <1>11, <2>1, <2>2, HoldKept DEF Rotate
  <1>12. ASSUME InsertUser(r) PROVE HoldInv'
    <2>1. req[r].session = None
      BY <1>3, <1>12 DEF InsertUser, At, InFlight
    <2>2. CASE Goto(r, "outstanding") /\ user' # None
      <3>1. InFlight(req[r])'
        BY <1>7, <2>1, <2>2
      <3> QED BY <1>1, <1>5, <1>12, <2>2, <3>1, HoldKept DEF InsertUser
    <2>3. CASE Answer(r)
      BY <1>1, <1>5, <1>6, <1>9, <1>12, <2>3, HoldKept DEF InsertUser
    <2>4. Account(req[r].password, FALSE) # None
      <3>1. Account(req[r].password, FALSE) \in UserRow
        BY <1>3 DEF Account, UserRow, Requested
      <3> QED BY <3>1, NoneIsNone
    <2> QED BY <1>12, <2>2, <2>3, <2>4 DEF InsertUser
  <1>13. ASSUME MatchUser(r) PROVE HoldInv'
    <2>1. req[r].session = None
      BY <1>3, <1>13 DEF MatchUser, At, InFlight
    <2>2. CASE Goto(r, "create")
      <3>1. InFlight(req[r])'
        BY <1>7, <2>1, <2>2
      <3> QED BY <1>1, <1>5, <1>6, <1>13, <3>1, HoldKept DEF MatchUser
    <2>3. CASE Goto(r, "link") /\ user # None
      <3>1. InFlight(req[r])'
        BY <1>7, <1>13, <2>1, <2>3 DEF MatchUser
      <3> QED BY <1>1, <1>5, <1>6, <1>13, <3>1, HoldKept DEF MatchUser
    <2>4. CASE Answer(r)
      BY <1>1, <1>5, <1>6, <1>9, <1>13, <2>4, HoldKept DEF MatchUser
    <2> QED BY <1>13, <2>2, <2>3, <2>4 DEF MatchUser
  <1>14. ASSUME LinkUser(r) PROVE HoldInv'
    <2>1. req[r].session = None
      BY <1>3, <1>14 DEF LinkUser, At, InFlight
    <2>2. user' # None
      BY <1>2, <1>14, Hosted DEF LinkUser, At
    <2>3. InFlight(req[r])'
      BY <1>7, <1>14, <2>1, <2>2 DEF LinkUser
    <2> QED BY <1>1, <1>5, <1>14, <2>2, <2>3, HoldKept DEF LinkUser
  <1>15. ASSUME CreateUser(r) PROVE HoldInv'
    <2>1. req[r].session = None
      BY <1>3, <1>15 DEF CreateUser, At, InFlight
    <2>2. Account(None, Created(req[r].verified)) # None
      <3>1. Account(None, Created(req[r].verified)) \in UserRow
        BY <1>3 DEF Account, Created, UserRow, Requested
      <3> QED BY <3>1, NoneIsNone
    <2>3. CASE Goto(r, "issue") /\ user' # None
      <3>1. InFlight(req[r])'
        BY <1>7, <2>1, <2>3
      <3> QED BY <1>1, <1>5, <1>15, <2>3, <3>1, HoldKept DEF CreateUser
    <2>4. CASE Answer(r)
      BY <1>1, <1>5, <1>6, <1>9, <1>15, <2>4, HoldKept DEF CreateUser
    <2> QED BY <1>15, <2>2, <2>3, <2>4 DEF CreateUser
  <1>16. ASSUME FindOutstanding(r) PROVE HoldInv'
    <2> DEFINE L == Outstanding(Purpose(req[r].op))
    <2>1. L \subseteq Sent
      BY DEF Outstanding, Sent
    <2>2. user' # None
      BY <1>2, <1>16, Hosted DEF FindOutstanding, At
    <2>3. req'[r] = [req[r] EXCEPT !.at = "replace", !.links = L]
      BY <1>16 DEF FindOutstanding, TypeOK
    <2> HIDE DEF L
    <2>4. InFlight(req[r])'
      <3>1. req[r].session = None
        BY <1>3, <1>16 DEF FindOutstanding, At, InFlight
      <3>2. /\ req'[r].at = "replace" /\ req'[r].session = None /\ req'[r].links = L
            /\ req'[r].before = req[r].before /\ req'[r].since = req[r].since
        BY <1>3, <2>3, <3>1 DEF Requested
      <3> QED BY <1>3, <1>4, <2>1, <2>2, <3>2, Grown DEF InFlight, Requested
    <2> QED BY <1>1, <1>5, <1>16, <2>2, <2>4, HoldKept DEF FindOutstanding
  <1>17. ASSUME ReplaceLinks(r) PROVE HoldInv'
    <2>1. PICK k \in Links :
             /\ mail[k] = None
             /\ mail' = [j \in Links |->
                    CASE j = k -> Link(req[r])
                      [] j \in req[r].links -> [mail[j] EXCEPT !.status = "consumed"]
                      [] OTHER -> mail[j]]
             /\ req' = [req EXCEPT ![r].at = "mail", ![r].link = k]
      BY <1>17 DEF ReplaceLinks
    <2>2. user' # None
      BY <1>2, <1>17, Hosted DEF ReplaceLinks, At
    <2>3. req'[r] = [req[r] EXCEPT !.at = "mail", !.link = k]
      BY <2>1 DEF TypeOK
    <2>4. k \notin req[r].links
      BY <1>3, <2>1 DEF InFlight, Sent
    <2>5. mail'[k] = Link(req[r])
      BY <2>1, <2>4
    <2>6. k \in Sent'
      <3>1. Link(req[r]) \in LinkRow
        BY <1>3 DEF Link, LinkRow, Purpose, Requested
      <3> QED BY <2>5, <3>1, NoneIsNone DEF Sent
    <2>7. \A j \in Sent' \ Sent : mail'[j].before \subseteq Sent'
      <3>1. \A j \in Links : j \notin Sent /\ j # k => j \notin Sent'
        BY <1>3, <2>1 DEF InFlight, Sent
      <3>2. mail'[k].before \subseteq Sent'
        BY <1>3, <2>5, Grown DEF Link, InFlight
      <3> QED BY <3>1, <3>2 DEF Sent
    <2>8. InFlight(req[r])'
      <3>1. req[r].session = None
        BY <1>3, <1>17 DEF ReplaceLinks, At, InFlight
      <3>2. /\ req'[r].at = "mail" /\ req'[r].session = None /\ req'[r].link = k
            /\ req'[r].links = req[r].links /\ req'[r].before = req[r].before
            /\ req'[r].since = req[r].since
        BY <1>3, <2>3, <3>1 DEF Requested
      <3> QED BY <1>3, <1>4, <2>2, <2>6, <3>2, Grown DEF InFlight, Requested
    <2> QED BY <1>1, <2>2, <2>7, <2>8, HoldKept
  <1>18. ASSUME SendLink(r) \/ MailFails(r) PROVE HoldInv'
    <2>1. req[r].session = None
      BY <1>3, <1>18 DEF SendLink, MailFails, At, InFlight
    <2>2. user' # None
      BY <1>2, <1>18, Hosted DEF SendLink, MailFails, At
    <2>3. req'[r] # Idle => InFlight(req[r])'
      BY <1>8, <1>18, <2>1, <2>2 DEF SendLink, MailFails
    <2> QED BY <1>1, <1>5, <1>18, <2>2, <2>3, HoldKept DEF SendLink, MailFails
  <1>19. ASSUME ClaimLink(r) PROVE HoldInv'
    <2>1. req[r].session = None /\ req[r].link \in Sent
      BY <1>3, <1>19 DEF ClaimLink, At, InFlight
    <2>2. user' # None
      BY <1>2, <1>19, Hosted DEF ClaimLink, At
    <2>3. req'[r] # Idle => InFlight(req[r])'
      BY <1>7, <1>9, <1>19, <2>1, <2>2 DEF ClaimLink, Follows
    <2>4. Sent' = Sent
      <3>1. \A k \in Links : k # req[r].link => mail'[k] = mail[k]
        BY <1>19 DEF ClaimLink, TypeOK
      <3> QED BY <2>1, <3>1, Grown DEF Sent
    <2> QED BY <1>1, <2>2, <2>3, <2>4, HoldKept
  <1>20. ASSUME VerifyUser(r) \/ ResetEnds(r) PROVE HoldInv'
    <2>1. user' # None
      BY <1>2, <1>20, Hosted DEF VerifyUser, ResetEnds, At
    <2>2. Answer(r) /\ UNCHANGED mail
      BY <1>20 DEF VerifyUser, ResetEnds, Continue, Follows
    <2> QED BY <1>1, <1>5, <1>9, <2>1, <2>2, HoldKept
  <1>21. ASSUME SetPassword(r) PROVE HoldInv'
    <2>1. req[r].session = None /\ req[r].link \in Sent
      BY <1>3, <1>21 DEF SetPassword, At, InFlight
    <2>2. user' # None
      BY <1>2, <1>21, Hosted DEF SetPassword, At
    <2>3. req'[r] # Idle => InFlight(req[r])'
      BY <1>8, <1>21, <2>1, <2>2 DEF SetPassword
    <2> QED BY <1>1, <1>5, <1>21, <2>2, <2>3, HoldKept DEF SetPassword
  <1>22. ASSUME Fail(r) PROVE HoldInv'
    BY <1>1, <1>5, <1>6, <1>9, <1>22, HoldKept DEF Fail
  <1>23. QED
    BY <1>10, <1>11, <1>12, <1>13, <1>14, <1>15, <1>16, <1>17, <1>18, <1>19, <1>20, <1>21, <1>22
    DEF Step

LEMMA ElsewhereHolds ==
    ASSUME TypeOK, TypeOK', HoldInv, Lasting,
           \/ LogoutAll
           \/ \E s \in Sessions : Logout(s) \/ ExpireSession(s)
           \/ \E k \in Links : ExpireLink(k)
    PROVE  HoldInv'
  <1>1. UNCHANGED <<user, req>> /\ Opened' = Opened /\ Sent' = Sent
    <2>1. ASSUME LogoutAll PROVE UNCHANGED <<user, req>> /\ Opened' = Opened /\ Sent' = Sent
      <3>1. Opened' \subseteq Opened
        BY <2>1 DEF LogoutAll, EndSessions, AllRevoked, Opened
      <3> QED BY <2>1, <3>1, Grown DEF LogoutAll, Sent
    <2>2. ASSUME NEW s \in Sessions, Logout(s) \/ ExpireSession(s)
          PROVE  UNCHANGED <<user, req>> /\ Opened' = Opened /\ Sent' = Sent
      <3>1. s \in Opened
        BY <2>2 DEF Logout, ExpireSession, Live, Opened
      <3>2. \A t \in Sessions : t # s => refresh'[t] = refresh[t]
        BY <2>2 DEF Logout, ExpireSession, TypeOK
      <3> QED BY <2>2, <3>1, <3>2, Grown DEF Logout, ExpireSession, Sent, Opened
    <2>3. ASSUME NEW k \in Links, ExpireLink(k)
          PROVE  UNCHANGED <<user, req>> /\ Opened' = Opened /\ Sent' = Sent
      <3>1. k \in Sent
        BY <2>3 DEF ExpireLink, Sent
      <3>2. \A j \in Links : j # k => mail'[j] = mail[j]
        BY <2>3 DEF ExpireLink, TypeOK
      <3> QED BY <2>3, <3>1, <3>2, Grown DEF ExpireLink, Sent, Opened
    <2> QED BY <2>1, <2>2, <2>3
  <1>2. \A o \in Requests : req[o] # Idle => InFlight(req[o])'
    BY <1>1, Unmoved
  <1>3. \A k \in Sent' : mail'[k].before \subseteq Sent'
    BY <1>1 DEF HoldInv, Lasting, LinkLasts
  <1>4. QED
    BY <1>1, <1>2, <1>3 DEF HoldInv

\* Handlers that interleave only ever dereference accounts, sessions and links
\* that exist, and leave every row well formed.
THEOREM TypeCorrect == Spec => [](TypeOK /\ HoldInv)
  <1>1. Init => TypeOK /\ HoldInv
    <2> SUFFICES ASSUME Init PROVE TypeOK /\ HoldInv
      OBVIOUS
    <2>1. \A p \in Passwords : Account(p, FALSE) \in UserRow
      BY DEF Account, UserRow
    <2>2. TypeOK
      BY <2>1 DEF Init, TypeOK
    <2>3. Opened = {} /\ Sent = {}
      BY DEF Init, Opened, Sent
    <2>4. \A r \in Requests : req[r] = Idle
      BY DEF Init
    <2> QED BY <2>2, <2>3, <2>4 DEF HoldInv
  <1>2. TypeOK /\ HoldInv /\ [Next]_vars => (TypeOK /\ HoldInv)'
    <2> SUFFICES ASSUME TypeOK, HoldInv, [Next]_vars PROVE (TypeOK /\ HoldInv)'
      OBVIOUS
    <2>1. CASE UNCHANGED vars
      BY <2>1 DEF vars, rest, TypeOK, HoldInv, InFlight, Opened, Sent
    <2>2. CASE Next
      <3>1. TypeOK'
        <4>1. ASSUME NEW r \in Requests, Arrive(r) \/ Step(r) PROVE TypeOK'
          BY <4>1, ArriveTyped, IssueTyped, SessionStepTyped, AccountStepTyped, ReplaceTyped,
             LinkStepTyped, UserStepTyped DEF Step
        <4> QED BY <2>2, <4>1, ElsewhereTyped DEF Next
      <3>2. Lasting
        BY <2>2, <3>1, NextLasts
      <3>3. HoldInv'
        <4>1. ASSUME NEW r \in Requests, Arrive(r) \/ Step(r) PROVE HoldInv'
          BY <3>1, <3>2, <4>1, ArriveHolds, StepHolds
        <4> QED BY <2>2, <3>1, <3>2, <4>1, ElsewhereHolds DEF Next
      <3> QED BY <3>1, <3>3
    <2> QED BY <2>1, <2>2
  <1>3. QED
    BY <1>1, <1>2, PTL DEF Spec

-----------------------------------------------------------------------------

\* What a step of a handler leaves as it is in its request.
Remembers(r) ==
    /\ req'[r].op = req[r].op /\ req'[r].password = req[r].password
    /\ req'[r].session = req[r].session /\ req'[r].verified = req[r].verified
    /\ req'[r].since = req[r].since /\ req'[r].root = req[r].root
    /\ req'[r].over = req[r].over /\ req'[r].before = req[r].before

LEMMA Remembered ==
    ASSUME TypeOK, NEW r \in Requests, Step(r), req'[r] # Idle
    PROVE  Remembers(r)
  <1>1. ~ At(r, "idle")
    BY DEF Step, IssueSession, Rotate, InsertUser, MatchUser, LinkUser, CreateUser,
           FindOutstanding, ReplaceLinks, SendLink, MailFails, ClaimLink, VerifyUser,
           SetPassword, ResetEnds, Fail, At
  <1>2. req[r] \in Requested
    BY <1>1, Busy
  <1>3. ASSUME NEW at, Goto(r, at) PROVE Remembers(r)
    <2>1. req'[r] = [req[r] EXCEPT !.at = at]
      BY <1>3 DEF Goto, TypeOK
    <2> QED BY <1>2, <2>1 DEF Requested, Remembers
  <1>4. ~ Answer(r)
    BY DEF Answer, TypeOK
  <1>5. ASSUME NEW at, Continue(r, at) PROVE Remembers(r)
    BY <1>3, <1>4, <1>5 DEF Continue
  <1>6. ASSUME Rotate(r) \/ InsertUser(r) \/ MatchUser(r) \/ LinkUser(r) \/ CreateUser(r)
        PROVE  Remembers(r)
    BY <1>3, <1>4, <1>6 DEF Rotate, InsertUser, MatchUser, LinkUser, CreateUser
  <1>7. ASSUME FindOutstanding(r) PROVE Remembers(r)
    <2> DEFINE L == Outstanding(Purpose(req[r].op))
    <2>1. req'[r] = [req[r] EXCEPT !.at = "replace", !.links = L]
      BY <1>7 DEF FindOutstanding, TypeOK
    <2> HIDE DEF L
    <2> QED BY <1>2, <2>1 DEF Requested, Remembers
  <1>8. ASSUME ReplaceLinks(r) PROVE Remembers(r)
    <2>1. PICK k \in Links : req' = [req EXCEPT ![r].at = "mail", ![r].link = k]
      BY <1>8 DEF ReplaceLinks
    <2>2. req'[r] = [req[r] EXCEPT !.at = "mail", !.link = k]
      BY <2>1 DEF TypeOK
    <2> QED BY <1>2, <2>2 DEF Requested, Remembers
  <1>9. ASSUME SendLink(r) \/ MailFails(r) \/ ClaimLink(r) \/ SetPassword(r)
        PROVE  Remembers(r)
    BY <1>3, <1>4, <1>5, <1>9 DEF SendLink, MailFails, ClaimLink, SetPassword
  <1>10. ASSUME IssueSession(r) \/ VerifyUser(r) \/ ResetEnds(r) \/ Fail(r) PROVE FALSE
    BY <1>4, <1>10 DEF IssueSession, VerifyUser, ResetEnds, Fail, Continue, Follows
  <1>11. QED
    BY <1>6, <1>7, <1>8, <1>9, <1>10 DEF Step

-----------------------------------------------------------------------------
(* Links. *)

\* A link not yet consumed was never redeemed.
RedeemInv ==
    \A k \in Sent : /\ mail[k].redeemed <= 1
                    /\ mail[k].status # "consumed" => mail[k].redeemed = 0

EarlierInv ==
    \A k \in Sent : \A j \in mail[k].before :
        mail[j].purpose = mail[k].purpose => mail[j].status = "consumed"

\* A request about to replace links has those there were when it arrived and
\* that are not consumed among the ones it is to invalidate.
ReplaceInv ==
    \A r \in Requests : At(r, "replace") =>
        \A j \in req[r].before :
            mail[j].purpose = Purpose(req[r].op) =>
                mail[j].status = "consumed" \/ j \in req[r].links

LinkInv == RedeemInv /\ EarlierInv /\ ReplaceInv

\* What happens to a link but for its replacement, and to a request that is
\* not about to replace links.
RedeemedRightly(k) ==
    \/ mail'[k] = mail[k]
    \/ mail'[k].redeemed = mail[k].redeemed /\ mail[k].status = "fresh"
    \/ /\ mail[k].status # "consumed" /\ mail'[k].status = "consumed"
       /\ mail'[k].redeemed = mail[k].redeemed + 1

Unready(o) == req'[o] = req[o] \/ ~ At(o, "replace")' \/ FindOutstanding(o)

\* A step that issues and redeems nothing, or redeems as the claim does.
LEMMA LinksKept ==
    ASSUME TypeOK, HoldInv, Lasting, LinkInv, Sent' = Sent,
           \A k \in Sent : RedeemedRightly(k), \A o \in Requests : Unready(o)
    PROVE  LinkInv'
  <1>1. \A k \in Sent : /\ mail'[k].redeemed <= 1
                        /\ mail'[k].status # "consumed" => mail'[k].redeemed = 0
    BY DEF LinkInv, RedeemInv, EarlierInv, ReplaceInv, TypeOK, Sent, LinkRow, RedeemedRightly
  <1>2. \A k \in Sent : \A j \in mail'[k].before :
           mail'[j].purpose = mail'[k].purpose => mail'[j].status = "consumed"
    BY DEF LinkInv, RedeemInv, EarlierInv, ReplaceInv, Lasting, LinkLasts, HoldInv
  <1>3. ASSUME NEW o \in Requests, At(o, "replace")', NEW j \in req'[o].before,
               mail'[j].purpose = Purpose(req'[o].op)
        PROVE  mail'[j].status = "consumed" \/ j \in req'[o].links
    <2>1. CASE req'[o] = req[o]
      <3>1. At(o, "replace") /\ req[o] # Idle
        BY <1>3, <2>1 DEF At, Idle
      <3>2. j \in Sent
        BY <1>3, <2>1, <3>1 DEF HoldInv, InFlight
      <3> QED BY <1>3, <2>1, <3>1, <3>2 DEF LinkInv, RedeemInv, EarlierInv, ReplaceInv, Lasting, LinkLasts
    <2>2. CASE FindOutstanding(o)
      <3> DEFINE L == Outstanding(Purpose(req[o].op))
      <3>1. req[o] \in Requested /\ req[o] # Idle
        BY <2>2, Busy DEF FindOutstanding, At
      <3>2. req'[o] = [req[o] EXCEPT !.at = "replace", !.links = L]
        BY <2>2 DEF FindOutstanding, TypeOK
      <3> HIDE DEF L
      <3>3. req'[o].before = req[o].before /\ req'[o].op = req[o].op /\ req'[o].links = L
        BY <3>1, <3>2 DEF Requested
      <3>4. j \in Sent
        BY <1>3, <3>1, <3>3 DEF HoldInv, InFlight
      <3>5. mail' = mail
        BY <2>2 DEF FindOutstanding
      <3> QED BY <1>3, <3>3, <3>4, <3>5 DEF Outstanding, Sent, L
    <2> QED BY <1>3, <2>1, <2>2 DEF Unready
  <1>4. \A k \in Sent' : /\ mail'[k].redeemed <= 1
                         /\ mail'[k].status # "consumed" => mail'[k].redeemed = 0
    BY <1>1
  <1>5. \A k \in Sent' : \A j \in mail'[k].before :
           mail'[j].purpose = mail'[k].purpose => mail'[j].status = "consumed"
    BY <1>2
  <1>6. RedeemInv'
    BY <1>4 DEF RedeemInv
  <1>7. EarlierInv'
    BY <1>5 DEF EarlierInv
  <1>8. ReplaceInv'
    BY <1>3 DEF ReplaceInv
  <1>9. QED
    BY <1>6, <1>7, <1>8 DEF LinkInv

LEMMA ReplaceKept ==
    ASSUME TypeOK, HoldInv, TypeOK', Lasting, LinkInv, NEW r \in Requests, ReplaceLinks(r)
    PROVE  LinkInv'
  <1>1. req[r] \in Requested /\ InFlight(req[r]) /\ req[r] # Idle
    BY Busy DEF ReplaceLinks, At, HoldInv
  <1>2. PICK k \in Links :
           /\ mail[k] = None
           /\ mail' = [j \in Links |->
                  CASE j = k -> Link(req[r])
                    [] j \in req[r].links -> [mail[j] EXCEPT !.status = "consumed"]
                    [] OTHER -> mail[j]]
           /\ req' = [req EXCEPT ![r].at = "mail", ![r].link = k]
    BY DEF ReplaceLinks
  <1>3. k \notin req[r].links /\ k \notin Sent
    BY <1>1, <1>2 DEF InFlight, Sent
  <1>4. mail'[k] = Link(req[r])
    BY <1>2, <1>3
  <1>5. ASSUME NEW j \in Sent
        PROVE  \/ j \notin req[r].links /\ mail'[j] = mail[j]
               \/ /\ j \in req[r].links /\ mail'[j].status = "consumed"
                  /\ mail'[j].redeemed = mail[j].redeemed
    <2>1. mail[j] \in LinkRow /\ j \in Links /\ j # k
      BY <1>3 DEF Sent, TypeOK
    <2>2. CASE j \in req[r].links
      <3>1. mail'[j] = [mail[j] EXCEPT !.status = "consumed"]
        BY <1>2, <2>1, <2>2
      <3> QED BY <2>1, <2>2, <3>1 DEF LinkRow
    <2>3. CASE j \notin req[r].links
      BY <1>2, <2>1, <2>3
    <2> QED BY <2>2, <2>3
  <1>6. \A j \in Sent' : j \in Sent \/ j = k
    BY <1>1, <1>2 DEF Sent, InFlight
  <1>7. ASSUME NEW j \in Sent'
        PROVE  /\ mail'[j].redeemed <= 1
               /\ mail'[j].status # "consumed" => mail'[j].redeemed = 0
    <2>1. CASE j \in Sent
      BY <1>5, <2>1 DEF LinkInv, RedeemInv, EarlierInv, ReplaceInv
    <2>2. CASE j = k
      BY <1>4, <2>2 DEF Link
    <2> QED BY <1>6, <2>1, <2>2
  <1>8. ASSUME NEW j \in Sent', NEW i \in mail'[j].before, mail'[i].purpose = mail'[j].purpose
        PROVE  mail'[i].status = "consumed"
    <2>1. CASE j \in Sent
      BY <1>8, <2>1 DEF LinkInv, RedeemInv, EarlierInv, ReplaceInv, Lasting, LinkLasts, HoldInv
    <2>2. CASE j = k
      <3>1. i \in req[r].before /\ mail'[i].purpose = Purpose(req[r].op) /\ i \in Sent
        BY <1>1, <1>4, <1>8, <2>2 DEF Link, InFlight
      <3>2. mail[i].purpose = Purpose(req[r].op)
        BY <3>1 DEF Lasting, LinkLasts
      <3>3. mail[i].status = "consumed" \/ i \in req[r].links
        BY <3>1, <3>2 DEF LinkInv, RedeemInv, EarlierInv, ReplaceInv, ReplaceLinks
      <3> QED BY <1>5, <3>1, <3>3 DEF Lasting, LinkLasts
    <2> QED BY <1>6, <2>1, <2>2
  <1>9. ASSUME NEW o \in Requests, At(o, "replace")', NEW j \in req'[o].before,
               mail'[j].purpose = Purpose(req'[o].op)
        PROVE  mail'[j].status = "consumed" \/ j \in req'[o].links
    <2>1. o # r /\ req'[o] = req[o]
      BY <1>2, <1>9 DEF At, TypeOK
    <2>2. At(o, "replace") /\ req[o] # Idle
      BY <1>9, <2>1 DEF At, Idle
    <2>3. j \in Sent
      BY <1>9, <2>1, <2>2 DEF HoldInv, InFlight
    <2> QED BY <1>9, <2>1, <2>2, <2>3 DEF LinkInv, RedeemInv, EarlierInv, ReplaceInv, Lasting, LinkLasts
  <1>10. QED
    BY <1>7, <1>8, <1>9 DEF LinkInv, RedeemInv, EarlierInv, ReplaceInv

LEMMA LinkStepKept ==
    ASSUME TypeOK, HoldInv, TypeOK', Lasting, LinkInv, NEW r \in Requests, Step(r)
    PROVE  LinkInv'
  <1>1. Only(r)
    BY OnlyOne
  <1>2. CASE UNCHANGED mail
    <2>1. Sent' = Sent
      BY <1>2 DEF Sent
    <2>2. ~ At(r, "replace")' \/ FindOutstanding(r)
      <3>1. ASSUME NEW at \in {"issue", "outstanding", "create", "link", "verify", "password", "end"},
                   Goto(r, at)
            PROVE  ~ At(r, "replace")'
        BY <3>1 DEF Goto, At, TypeOK, Requested, Idle
      <3>2. ASSUME Answer(r) PROVE ~ At(r, "replace")'
        BY <3>2 DEF Answer, At, TypeOK, Idle
      <3>3. ASSUME NEW at, Continue(r, at) PROVE ~ At(r, "replace")'
        BY <3>1, <3>2, <3>3 DEF Continue, Follows
      <3>4. ASSUME ReplaceLinks(r) PROVE FALSE
        <4>1. PICK k \in Links : mail[k] = None /\ mail'[k] # None
          <5>1. PICK k \in Links : /\ mail[k] = None
                                  /\ mail' = [j \in Links |->
                                        CASE j = k -> Link(req[r])
                                          [] j \in req[r].links ->
                                                 [mail[j] EXCEPT !.status = "consumed"]
                                          [] OTHER -> mail[j]]
            BY <3>4 DEF ReplaceLinks
          <5>2. req[r] \in Requested /\ InFlight(req[r])
            BY <3>4, Busy DEF ReplaceLinks, At, HoldInv
          <5>3. mail'[k] = Link(req[r])
            BY <5>1, <5>2 DEF InFlight, Sent
          <5>4. Link(req[r]) \in LinkRow
            BY <5>2 DEF Link, LinkRow, Purpose, Requested
          <5> QED BY <5>1, <5>3, <5>4, NoneIsNone
        <4> QED BY <1>2, <4>1
      <3>5. CASE IssueSession(r) \/ Rotate(r) \/ InsertUser(r) \/ MatchUser(r) \/ LinkUser(r)
                 \/ CreateUser(r)
        BY <3>1, <3>2, <3>5 DEF IssueSession, Rotate, InsertUser, MatchUser, LinkUser, CreateUser
      <3>6. CASE SendLink(r) \/ MailFails(r) \/ ClaimLink(r) \/ VerifyUser(r)
                 \/ SetPassword(r) \/ ResetEnds(r) \/ Fail(r)
        BY <3>1, <3>2, <3>3, <3>6
        DEF SendLink, MailFails, ClaimLink, VerifyUser, SetPassword, ResetEnds, Fail, Follows
      <3> QED BY <3>4, <3>5, <3>6 DEF Step
    <2>3. (\A k \in Sent : RedeemedRightly(k)) /\ \A o \in Requests : Unready(o)
      BY <1>1, <1>2, <2>2 DEF Only, Unready, RedeemedRightly
    <2> QED BY <2>1, <2>3, LinksKept
  <1>3. CASE ReplaceLinks(r)
    BY <1>3, ReplaceKept
  <1>4. CASE ClaimLink(r) /\ ~ UNCHANGED mail
    <2> DEFINE k == req[r].link
    <2>1. mail' = [mail EXCEPT ![k] = [mail[k] EXCEPT !.status = "consumed", !.redeemed = @ + 1]]
      BY <1>4 DEF ClaimLink
    <2>2. mail[k].status # "consumed"
      BY <1>4 DEF ClaimLink, Claimable
    <2>3. k \in Sent /\ k \in Links /\ mail[k] \in LinkRow
      BY <1>4, Busy DEF ClaimLink, At, HoldInv, InFlight, Sent, TypeOK
    <2>4. ~ At(r, "replace")'
      BY <1>4 DEF ClaimLink, Answer, Goto, Follows, At, TypeOK, Requested, Idle
    <2> HIDE DEF k
    <2>5. /\ mail'[k].status = "consumed" /\ mail'[k].redeemed = mail[k].redeemed + 1
          /\ \A j \in Links \ {k} : mail'[j] = mail[j]
      BY <2>1, <2>3 DEF LinkRow, TypeOK
    <2>6. Sent' = Sent
      BY <2>3, <2>5, Grown DEF Sent
    <2>7. (\A j \in Sent : RedeemedRightly(j)) /\ \A o \in Requests : Unready(o)
      BY <1>1, <2>2, <2>4, <2>5 DEF Sent, Only, Unready, RedeemedRightly
    <2> QED BY <2>6, <2>7, LinksKept
  <1>5. QED
    BY <1>2, <1>3, <1>4
    DEF Step, IssueSession, Rotate, InsertUser, MatchUser, LinkUser, CreateUser, FindOutstanding,
        SendLink, MailFails, VerifyUser, SetPassword, ResetEnds, Fail

LEMMA LinkNextKept ==
    ASSUME TypeOK, HoldInv, TypeOK', Lasting, LinkInv, Next
    PROVE  LinkInv'
  <1>1. ASSUME NEW r \in Requests, Arrive(r) PROVE LinkInv'
    <2>1. UNCHANGED mail /\ Only(r)
      BY <1>1, OnlyOne
      DEF Arrive, Login, Register, Google, Refresh, Resend, Forgot, Confirm, Reset, OpenLink
    <2>2. Sent' = Sent
      BY <2>1 DEF Sent
    <2>3. ~ At(r, "replace")'
      <3>1. ASSUME NEW q, Begin(r, q), q.at # "replace" PROVE ~ At(r, "replace")'
        BY <3>1 DEF Begin, At, TypeOK
      <3>2. ASSUME NEW p \in Passwords, Login(r, p) PROVE ~ At(r, "replace")'
        BY <3>1, <3>2 DEF Login, Request
      <3>3. ASSUME NEW p \in Passwords, Register(r, p) PROVE ~ At(r, "replace")'
        BY <3>1, <3>3 DEF Register, Request
      <3>4. ASSUME NEW confirms \in BOOLEAN, Google(r, confirms) PROVE ~ At(r, "replace")'
        BY <3>1, <3>4 DEF Google, Request
      <3>5. ASSUME NEW s \in Sessions, Refresh(r, s) PROVE ~ At(r, "replace")'
        BY <3>1, <3>5 DEF Refresh, Request
      <3>6. ASSUME Resend(r) \/ Forgot(r) PROVE ~ At(r, "replace")'
        BY <3>1, <3>6 DEF Resend, Forgot, Request
      <3>7. ASSUME NEW k, NEW p, NEW op, OpenLink(r, op, k, p) PROVE ~ At(r, "replace")'
        BY <3>1, <3>7 DEF OpenLink, Request
      <3> QED BY <1>1, <3>2, <3>3, <3>4, <3>5, <3>6, <3>7 DEF Arrive, Confirm, Reset
    <2>4. (\A k \in Sent : RedeemedRightly(k)) /\ \A o \in Requests : Unready(o)
      BY <2>1, <2>3 DEF Only, Unready, RedeemedRightly
    <2> QED BY <2>2, <2>4, LinksKept
  <1>2. ASSUME UNCHANGED <<req, mail>> PROVE LinkInv'
    <2>1. (\A k \in Sent : RedeemedRightly(k)) /\ \A o \in Requests : Unready(o)
      BY <1>2 DEF Unready, RedeemedRightly
    <2>2. Sent' = Sent
      BY <1>2 DEF Sent
    <2> QED BY <2>1, <2>2, LinksKept
  <1>3. ASSUME NEW k \in Links, ExpireLink(k) PROVE LinkInv'
    <2>1. k \in Sent /\ mail[k] \in LinkRow /\ UNCHANGED req /\ mail[k].status = "fresh"
      BY <1>3 DEF ExpireLink, Sent, TypeOK
    <2>2. mail' = [mail EXCEPT ![k] = [mail[k] EXCEPT !.status = "expired"]]
      BY <1>3 DEF ExpireLink
    <2>3. mail'[k].redeemed = mail[k].redeemed /\ \A j \in Links \ {k} : mail'[j] = mail[j]
      BY <2>1, <2>2 DEF LinkRow, TypeOK
    <2>4. Sent' = Sent
      BY <2>1, <2>3, Grown DEF Sent
    <2>5. (\A j \in Sent : RedeemedRightly(j)) /\ \A o \in Requests : Unready(o)
      BY <2>1, <2>3 DEF Sent, Unready, RedeemedRightly
    <2> QED BY <2>4, <2>5, LinksKept
  <1>4. QED
    BY <1>1, <1>2, <1>3, LinkStepKept DEF Next, Logout, ExpireSession, LogoutAll

\* The invariant of links holds throughout.
LEMMA LinkInvariant == Spec => []LinkInv
  <1>1. Init => LinkInv
    BY DEF Init, LinkInv, RedeemInv, EarlierInv, ReplaceInv, Sent, At, Idle
  <1>2. TypeOK /\ HoldInv /\ (TypeOK /\ HoldInv)' /\ LinkInv /\ [Next]_vars => LinkInv'
    <2> SUFFICES ASSUME TypeOK, HoldInv, TypeOK', LinkInv, [Next]_vars PROVE LinkInv'
      OBVIOUS
    <2>1. CASE UNCHANGED vars
      BY <2>1 DEF vars, rest, LinkInv, RedeemInv, EarlierInv, ReplaceInv, Sent, At
    <2>2. CASE Next
      BY <2>2, NextLasts, LinkNextKept
    <2> QED BY <2>1, <2>2
  <1>3. QED
    BY <1>1, <1>2, TypeCorrect, PTL DEF Spec

\* A mailed link is redeemed at most once, for any number of redemptions,
\* issues and expiries side by side (authTokens.ts:95).
THEOREM LinksRedeemedOnce == Spec => []RedeemedOnce
  <1>1. LinkInv => RedeemedOnce
    BY DEF LinkInv, RedeemInv, RedeemedOnce, Sent
  <1>2. QED
    BY <1>1, LinkInvariant, PTL

\* Issuing a link leaves no earlier one of its purpose that works, for any
\* number of requests that overlap it (authTokens.ts:45).
THEOREM EarlierLinksAreDead == Spec => []EarlierLinksDie
  <1>1. LinkInv => EarlierLinksDie
    BY DEF LinkInv, EarlierInv, EarlierLinksDie, Sent
  <1>2. QED
    BY <1>1, LinkInvariant, PTL

-----------------------------------------------------------------------------
(* Sessions. *)

\* A request begun since the last end goes back, like a session, to a sign-in
\* after it, or is known to overlap it.
UnderWay(q) == q.since = ends => q.root = ends \/ q.over = ends

EndInv == /\ EndedMeansEnded
          /\ \A r \in Requests : req[r] # Idle => UnderWay(req[r])

\* A step that ends nothing and opens sessions only as it may.
LEMMA EndKept ==
    ASSUME TypeOK, TypeOK', Lasting, EndInv, UNCHANGED ends,
           \A s \in Opened' \ Opened : refresh'[s].root = ends \/ refresh'[s].over = ends,
           \A o \in Requests : req'[o] = req[o] \/ req'[o] = Idle \/ UnderWay(req[o])'
    PROVE  EndInv'
  <1>1. ASSUME NEW s \in Sessions, Live(s)'
        PROVE  refresh'[s].root = ends' \/ refresh'[s].over = ends'
    <2>1. CASE s \notin Opened
      BY <1>1, <2>1 DEF Live, Opened
    <2>2. CASE s \in Opened
      <3>1. SessionLasts(s)
        BY <2>2 DEF Lasting
      <3>2. refresh[s] \in SessionRow /\ refresh'[s] \in SessionRow
        BY <1>1, <2>2 DEF Live, Opened, TypeOK
      <3>3. Live(s)
        BY <1>1, <2>2, <3>1, <3>2 DEF Live, Opened, SessionLasts, SessionRow
      <3> QED BY <3>1, <3>3 DEF SessionLasts, EndInv, EndedMeansEnded
    <2> QED BY <2>1, <2>2
  <1>2. ASSUME NEW o \in Requests, req'[o] # Idle PROVE UnderWay(req[o])'
    BY <1>2 DEF EndInv, UnderWay
  <1>3. EndedMeansEnded'
    BY <1>1 DEF EndedMeansEnded
  <1>4. QED
    BY <1>2, <1>3 DEF EndInv

\* Ending every session leaves none that works, and every request under way
\* is from before.
LEMMA EndEnds ==
    ASSUME TypeOK, TypeOK', HoldInv, EndSessions,
           \A o \in Requests : req'[o] = req[o] \/ req'[o] = Idle
    PROVE  EndInv'
  <1>1. ASSUME NEW s \in Sessions, Live(s)' PROVE FALSE
    <2>1. s \in Opened /\ refresh[s] \in SessionRow
      BY <1>1 DEF EndSessions, AllRevoked, Live, Opened, TypeOK
    <2>2. refresh'[s] = [refresh[s] EXCEPT !.live = FALSE]
      BY <2>1 DEF EndSessions, AllRevoked, Opened
    <2>3. refresh'[s].live = FALSE
      BY <2>1, <2>2 DEF SessionRow
    <2> QED BY <1>1, <2>3 DEF Live
  <1>2. ASSUME NEW o \in Requests, req'[o] # Idle PROVE UnderWay(req[o])'
    <2>1. req'[o] = req[o] /\ req[o].since <= ends
      BY <1>2 DEF HoldInv, InFlight
    <2>2. req[o].since \in Nat /\ ends \in Nat /\ ends' = ends + 1
      BY <1>2, <2>1 DEF TypeOK, Requested, EndSessions
    <2> QED BY <2>1, <2>2 DEF UnderWay
  <1>3. EndedMeansEnded'
    BY <1>1 DEF EndedMeansEnded
  <1>4. QED
    BY <1>2, <1>3 DEF EndInv

LEMMA ArriveUnderWay ==
    ASSUME TypeOK, EndInv, NEW r \in Requests, Arrive(r)
    PROVE  req'[r].since = ends => req'[r].root = ends \/ req'[r].over = ends
  <1> USE DEF Begin
  <1>1. ASSUME NEW op, NEW at, NEW q, q = Request(op, at) PROVE q.since = ends /\ q.root = ends
    BY <1>1 DEF Request
  <1>2. ASSUME NEW p \in Passwords, Login(r, p) PROVE req'[r].root = ends
    BY <1>2 DEF Login, Request, TypeOK
  <1>3. ASSUME NEW p \in Passwords, Register(r, p) PROVE req'[r].root = ends
    BY <1>3 DEF Register, Request, TypeOK
  <1>4. ASSUME NEW confirms \in BOOLEAN, Google(r, confirms) PROVE req'[r].root = ends
    BY <1>4 DEF Google, Request, TypeOK
  <1>5. ASSUME Resend(r) \/ Forgot(r) PROVE req'[r].root = ends
    BY <1>5 DEF Resend, Forgot, Request, TypeOK
  <1>6. ASSUME NEW op, NEW k, NEW p, OpenLink(r, op, k, p) PROVE req'[r].root = ends
    BY <1>6 DEF OpenLink, Request, TypeOK
  <1>7. ASSUME NEW s \in Sessions, Refresh(r, s) PROVE req'[r].root = ends \/ req'[r].over = ends
    <2>1. refresh[s].root = ends \/ refresh[s].over = ends
      BY <1>7 DEF Refresh, Presentable, EndInv, EndedMeansEnded
    <2>2. req'[r].root = refresh[s].root /\ req'[r].over = refresh[s].over
      BY <1>7 DEF Refresh, Request, TypeOK
    <2> QED BY <2>1, <2>2
  <1>8. QED
    BY <1>2, <1>3, <1>4, <1>5, <1>6, <1>7 DEF Arrive, Confirm, Reset

LEMMA EndNextKept ==
    ASSUME TypeOK, TypeOK', HoldInv, Lasting, EndInv, Next
    PROVE  EndInv'
  <1>1. ASSUME NEW r \in Requests, Arrive(r) PROVE EndInv'
    <2>1. UNCHANGED ends /\ Opened' \subseteq Opened
      <3>1. ASSUME NEW s \in Sessions, Refresh(r, s) PROVE UNCHANGED ends /\ Opened' \subseteq Opened
        BY <3>1 DEF Refresh, Presentable, Live, Opened, TypeOK
      <3>2. ASSUME UNCHANGED <<ends, refresh>> PROVE UNCHANGED ends /\ Opened' \subseteq Opened
        BY <3>2 DEF Opened
      <3> QED
        BY <1>1, <3>1, <3>2
        DEF Arrive, Login, Register, Google, Resend, Forgot, Confirm, Reset, OpenLink
    <2>2. UnderWay(req[r])'
      BY <1>1, <2>1, ArriveUnderWay DEF UnderWay
    <2> QED BY <1>1, <2>1, <2>2, OnlyOne, EndKept DEF Only
  <1>2. ASSUME NEW r \in Requests, Step(r), UNCHANGED ends,
               \A s \in Opened' \ Opened : refresh'[s].root = ends \/ refresh'[s].over = ends
        PROVE  EndInv'
    <2>1. req'[r] = Idle \/ UnderWay(req[r])'
      <3>1. ASSUME req'[r] # Idle PROVE UnderWay(req[r])'
        <4>1. Remembers(r)
          BY <1>2, <3>1, Remembered
        <4>2. ~ At(r, "idle")
          BY <1>2 DEF Step, IssueSession, Rotate, InsertUser, MatchUser, LinkUser, CreateUser,
                 FindOutstanding, ReplaceLinks, SendLink, MailFails, ClaimLink, VerifyUser,
                 SetPassword, ResetEnds, Fail, At
        <4>3. req[r] # Idle
          BY <4>2 DEF At, Idle
        <4> QED BY <1>2, <4>1, <4>3 DEF Remembers, EndInv, UnderWay
      <3> QED BY <3>1
    <2> QED BY <1>2, <2>1, OnlyOne, EndKept DEF Only
  <1>3. ASSUME NEW r \in Requests, Step(r), UNCHANGED <<ends, refresh>> PROVE EndInv'
    BY <1>2, <1>3 DEF Opened
  <1>4. ASSUME NEW r \in Requests, IssueSession(r) PROVE EndInv'
    <2>1. PICK s \in Sessions :
             /\ refresh[s] = None
             /\ refresh' = [t \in Sessions |->
                    CASE t = s -> Session(req[r])
                      [] t = req[r].session -> [refresh[t] EXCEPT !.heirs = @ + 1]
                      [] OTHER -> refresh[t]]
      BY <1>4 DEF IssueSession
    <2>2. req[r] # Idle /\ InFlight(req[r])
      BY <1>4, Busy DEF IssueSession, At, HoldInv
    <2>3. refresh'[s].root = ends \/ refresh'[s].over = ends
      <3>1. refresh'[s] = Session(req[r])
        <4>1. s # req[r].session
          BY <1>4, <2>1, <2>2, NoneIsNone DEF InFlight, IssueSession, At, Opened
        <4> QED BY <2>1, <4>1
      <3>2. UnderWay(req[r])
        BY <2>2 DEF EndInv
      <3> QED BY <3>1, <3>2 DEF Session, UnderWay
    <2>4. \A t \in Sessions : t # s /\ t \notin Opened => t \notin Opened'
      <3>1. \A t \in Sessions \ Opened : t # req[r].session
        BY <1>4, <2>2, NoneIsNone DEF InFlight, IssueSession, At
      <3> QED BY <2>1, <3>1 DEF Opened
    <2>5. UNCHANGED ends /\ Step(r)
      BY <1>4 DEF IssueSession, Step
    <2> QED BY <1>2, <2>3, <2>4, <2>5 DEF Opened
  <1>5. ASSUME NEW r \in Requests, Rotate(r) PROVE EndInv'
    <2>1. req[r].session \in Opened
      BY <1>5, Busy DEF Rotate, At, HoldInv, InFlight
    <2>2. Opened' \subseteq Opened
      BY <1>5, <2>1 DEF Rotate, Opened, TypeOK
    <2> QED BY <1>2, <1>5, <2>2 DEF Rotate, Step
  <1>6. ASSUME NEW r \in Requests, ResetEnds(r) PROVE EndInv'
    <2>1. Step(r) /\ EndSessions /\ Answer(r)
      BY <1>6 DEF ResetEnds, Step, Continue, Follows
    <2> QED BY <2>1, OnlyOne, EndEnds DEF Only, Answer, TypeOK
  <1>7. ASSUME LogoutAll PROVE EndInv'
    BY <1>7, EndEnds DEF LogoutAll
  <1>8. ASSUME NEW s \in Sessions, Logout(s) \/ ExpireSession(s) PROVE EndInv'
    <2>1. UNCHANGED <<ends, req>> /\ Opened' \subseteq Opened
      BY <1>8 DEF Logout, ExpireSession, Live, Opened, TypeOK
    <2> QED BY <2>1, EndKept
  <1>9. ASSUME NEW k \in Links, ExpireLink(k) PROVE EndInv'
    BY <1>9, EndKept DEF ExpireLink, Opened
  <1>10. ASSUME NEW r \in Requests, Step(r) PROVE EndInv'
    BY <1>3, <1>4, <1>5, <1>6, <1>10
    DEF Step, InsertUser, MatchUser, LinkUser, CreateUser, FindOutstanding, ReplaceLinks,
        SendLink, MailFails, ClaimLink, VerifyUser, SetPassword, Fail
  <1>11. QED
    BY <1>1, <1>7, <1>8, <1>9, <1>10 DEF Next

\* Once all sessions are ended, what works was signed in to since, or the
\* request that opened it, or one it comes from, overlapped the end: for any
\* number of requests and refreshes side by side (tokens.ts:135).
THEOREM SessionsEnd == Spec => []EndedMeansEnded
  <1>1. Init => EndInv
    BY DEF Init, EndInv, EndedMeansEnded, Live
  <1>2. TypeOK /\ HoldInv /\ (TypeOK /\ HoldInv)' /\ EndInv /\ [Next]_vars => EndInv'
    <2> SUFFICES ASSUME TypeOK, HoldInv, TypeOK', EndInv, [Next]_vars PROVE EndInv'
      OBVIOUS
    <2>1. CASE UNCHANGED vars
      BY <2>1 DEF vars, rest, EndInv, EndedMeansEnded, UnderWay, Live
    <2>2. CASE Next
      BY <2>2, NextLasts, EndNextKept
    <2> QED BY <2>1, <2>2
  <1>3. EndInv => EndedMeansEnded
    BY DEF EndInv
  <1>4. QED
    BY <1>1, <1>2, <1>3, TypeCorrect, PTL DEF Spec

-----------------------------------------------------------------------------
(* The account. *)

\* No handler writes back an unverified address over a verified one, whatever
\* it read before (accountRecovery.ts:133, 212).
THEOREM VerifiedForGood == Spec => StaysVerified
  <1>1. ASSUME TypeOK, Next, user # None, user.verified PROVE user'.verified
    <2>1. ASSUME NEW r \in Requests, Arrive(r) PROVE user' = user
      BY <2>1 DEF Arrive, Login, Register, Google, Refresh, Resend, Forgot, Confirm, Reset, OpenLink
    <2>2. ASSUME NEW r \in Requests,
                 IssueSession(r) \/ Rotate(r) \/ MatchUser(r) \/ FindOutstanding(r) \/ ReplaceLinks(r)
                 \/ SendLink(r) \/ MailFails(r) \/ ClaimLink(r) \/ ResetEnds(r) \/ Fail(r)
          PROVE  user' = user
      BY <2>2 DEF IssueSession, Rotate, MatchUser, FindOutstanding, ReplaceLinks, SendLink,
                  MailFails, ClaimLink, ResetEnds, Fail, rest
    <2>3. ASSUME NEW r \in Requests, InsertUser(r) \/ CreateUser(r) PROVE user' = user
      BY <1>1, <2>3 DEF InsertUser, CreateUser, Taken
    <2>4. ASSUME NEW r \in Requests, LinkUser(r) \/ VerifyUser(r) PROVE user'.verified
      BY <1>1, <2>4 DEF LinkUser, VerifyUser, Stamped, TypeOK, UserRow
    <2>5. ASSUME NEW r \in Requests, SetPassword(r) PROVE user'.verified
      BY <2>5 DEF SetPassword, Account, Stamped
    <2>6. ASSUME NEW x, Logout(x) \/ ExpireSession(x) \/ ExpireLink(x) \/ LogoutAll
          PROVE  user' = user
      BY <2>6 DEF Logout, ExpireSession, ExpireLink, LogoutAll
    <2>7. ASSUME NEW r \in Requests, Step(r) PROVE user'.verified
      BY <1>1, <2>2, <2>3, <2>4, <2>5, <2>7 DEF Step
    <2> QED BY <1>1, <2>1, <2>6, <2>7 DEF Next
  <1>2. TypeOK /\ [Next]_vars => [user # None /\ user.verified => user'.verified]_vars
    BY <1>1
  <1>3. QED
    BY <1>2, TypeCorrect, PTL DEF Spec, StaysVerified

\* What entitles an address to be marked verified.
Earned == vouched \/ \E k \in Sent : mail[k].redeemed > 0

\* A handler about to mark the address knows why it may.
Warranted(q) ==
    /\ q.at \in {"verify", "password"} => Earned
    /\ q.at \in {"match", "link", "create"} /\ q.verified => vouched
    /\ q.at = "link" => q.verified

EarnedInv == /\ user # None /\ user.verified => Earned
             /\ \A r \in Requests : req[r] # Idle => Warranted(req[r])

LEMMA EarnedLasts ==
    ASSUME TypeOK, TypeOK', Lasting, Earned
    PROVE  Earned'
  <1>1. CASE vouched
    BY <1>1 DEF Lasting, Earned
  <1>2. ASSUME NEW k \in Sent, mail[k].redeemed > 0 PROVE Earned'
    <2>1. LinkLasts(k)
      BY DEF Lasting
    <2>2. k \in Sent' /\ mail[k].redeemed \in Nat /\ mail'[k].redeemed \in Nat
      BY <2>1 DEF LinkLasts, Sent, TypeOK, LinkRow
    <2>3. mail'[k].redeemed > 0
      BY <1>2, <2>1, <2>2 DEF LinkLasts
    <2> QED BY <2>2, <2>3 DEF Earned
  <1>3. QED BY <1>1, <1>2 DEF Earned

\* What is left to show of a step of one request.
LEMMA EarnedKept ==
    ASSUME TypeOK, TypeOK', Lasting, EarnedInv, NEW r \in Requests, Only(r),
           user' # None /\ user'.verified => user' = user \/ Earned',
           req'[r] # Idle => Warranted(req[r])'
    PROVE  EarnedInv'
  <1>1. user' # None /\ user'.verified => Earned'
    BY EarnedLasts DEF EarnedInv
  <1>2. ASSUME NEW o \in Requests, o # r, req'[o] # Idle PROVE Warranted(req[o])'
    <2>1. req'[o] = req[o] /\ Warranted(req[o])
      BY <1>2 DEF Only, EarnedInv
    <2> QED BY <2>1, EarnedLasts DEF Warranted, Lasting
  <1>3. QED
    BY <1>1, <1>2 DEF EarnedInv

LEMMA ArriveEarned ==
    ASSUME TypeOK, TypeOK', Lasting, EarnedInv, NEW r \in Requests, Arrive(r)
    PROVE  EarnedInv'
  <1> USE DEF Begin
  <1>1. Warranted(req[r])'
    <2>1. ASSUME NEW p \in Passwords, Login(r, p) PROVE Warranted(req[r])'
      BY <2>1 DEF Login, Request, TypeOK, Warranted
    <2>2. ASSUME NEW p \in Passwords, Register(r, p) PROVE Warranted(req[r])'
      BY <2>2 DEF Register, Request, TypeOK, Warranted
    <2>3. ASSUME NEW confirms \in BOOLEAN, Google(r, confirms) PROVE Warranted(req[r])'
      BY <2>3 DEF Google, Request, TypeOK, Warranted
    <2>4. ASSUME NEW s \in Sessions, Refresh(r, s) PROVE Warranted(req[r])'
      BY <2>4 DEF Refresh, Request, TypeOK, Warranted
    <2>5. ASSUME Resend(r) \/ Forgot(r) PROVE Warranted(req[r])'
      BY <2>5 DEF Resend, Forgot, Request, TypeOK, Warranted
    <2>6. ASSUME NEW op, NEW k, NEW p, OpenLink(r, op, k, p) PROVE Warranted(req[r])'
      BY <2>6 DEF OpenLink, Request, TypeOK, Warranted
    <2> QED BY <2>1, <2>2, <2>3, <2>4, <2>5, <2>6 DEF Arrive, Confirm, Reset
  <1>2. user' = user
    BY DEF Arrive, Login, Register, Google, Refresh, Resend, Forgot, Confirm, Reset, OpenLink
  <1>3. QED
    BY <1>1, <1>2, OnlyOne, EarnedKept

LEMMA StepEarned ==
    ASSUME TypeOK, TypeOK', HoldInv, Lasting, EarnedInv, NEW r \in Requests, Step(r)
    PROVE  EarnedInv'
  <1>1. ~ At(r, "idle")
    BY DEF Step, IssueSession, Rotate, InsertUser, MatchUser, LinkUser, CreateUser,
           FindOutstanding, ReplaceLinks, SendLink, MailFails, ClaimLink, VerifyUser,
           SetPassword, ResetEnds, Fail, At
  <1>2. req[r] \in Requested /\ InFlight(req[r]) /\ Warranted(req[r])
    BY <1>1, Busy DEF HoldInv, EarnedInv
  <1>3. ASSUME NEW at \in {"outstanding", "issue", "end"}, Goto(r, at) PROVE Warranted(req[r])'
    BY <1>2, <1>3 DEF Goto, TypeOK, Requested, Warranted
  <1>4. ASSUME Answer(r) PROVE req'[r] = Idle
    BY <1>4 DEF Answer, TypeOK
  <1>5. ASSUME NEW at \in {"mail", "password"}, Continue(r, at)
        PROVE  req'[r] # Idle => Warranted(req[r])'
    BY <1>3, <1>4, <1>5 DEF Continue, Follows
  <1>6. ASSUME user' # None /\ user'.verified => user' = user \/ Earned',
               req'[r] # Idle => Warranted(req[r])'
        PROVE  EarnedInv'
    BY <1>6, OnlyOne, EarnedKept
  <1>7. ASSUME IssueSession(r) \/ Rotate(r) \/ ResetEnds(r) \/ Fail(r) PROVE EarnedInv'
    <2>1. user' = user
      BY <1>7 DEF IssueSession, Rotate, ResetEnds, Fail
    <2>2. Answer(r) \/ Goto(r, "issue")
      BY <1>7 DEF IssueSession, Rotate, ResetEnds, Fail, Continue, Follows
    <2> QED BY <1>3, <1>4, <1>6, <2>1, <2>2
  <1>8. ASSUME InsertUser(r) PROVE EarnedInv'
    <2>1. user' # None /\ user'.verified => user' = user
      BY <1>8 DEF InsertUser, Account
    <2>2. Answer(r) \/ Goto(r, "outstanding")
      BY <1>8 DEF InsertUser
    <2> QED BY <1>3, <1>4, <1>6, <2>1, <2>2
  <1>9. ASSUME MatchUser(r) PROVE EarnedInv'
    <2>1. ASSUME NEW at \in {"create", "link"}, Goto(r, at), at = "link" => req[r].verified
          PROVE  Warranted(req[r])'
      <3>1. req'[r] = [req[r] EXCEPT !.at = at]
        BY <2>1 DEF Goto, TypeOK
      <3>2. req'[r].at = at /\ req'[r].verified = req[r].verified
        BY <1>2, <3>1 DEF Requested
      <3>3. req[r].verified => vouched'
        BY <1>2, <1>9 DEF MatchUser, At, Warranted, Lasting
      <3> QED BY <2>1, <3>2, <3>3 DEF Warranted
    <2> QED BY <1>4, <1>6, <1>9, <2>1 DEF MatchUser, MayLink
  <1>10. ASSUME LinkUser(r) PROVE EarnedInv'
    <2>1. Earned
      BY <1>2, <1>10 DEF LinkUser, At, Warranted, Earned
    <2> QED BY <1>3, <1>6, <1>10, <2>1, EarnedLasts DEF LinkUser
  <1>11. ASSUME CreateUser(r) PROVE EarnedInv'
    <2>1. user' # None /\ user'.verified => user' = user \/ Earned'
      <3>1. user' = user \/ user'.verified = req[r].verified
        BY <1>11 DEF CreateUser, Account, Created
      <3>2. req[r].verified => Earned
        BY <1>2, <1>11 DEF CreateUser, At, Warranted, Earned
      <3> QED BY <3>1, <3>2, EarnedLasts
    <2> QED BY <1>3, <1>4, <1>6, <1>11, <2>1 DEF CreateUser
  <1>12. ASSUME FindOutstanding(r) \/ ReplaceLinks(r) PROVE EarnedInv'
    <2>1. req'[r].at \in {"replace", "mail"}
      <3>1. CASE FindOutstanding(r)
        <4> DEFINE L == Outstanding(Purpose(req[r].op))
        <4>1. req' = [req EXCEPT ![r].at = "replace", ![r].links = L]
          BY <3>1 DEF FindOutstanding
        <4> HIDE DEF L
        <4> QED BY <1>2, <4>1 DEF TypeOK, Requested
      <3>2. CASE ReplaceLinks(r)
        <4>1. PICK k \in Links : req' = [req EXCEPT ![r].at = "mail", ![r].link = k]
          BY <3>2 DEF ReplaceLinks
        <4> QED BY <1>2, <4>1 DEF TypeOK, Requested
      <3> QED BY <1>12, <3>1, <3>2
    <2> QED BY <1>6, <1>12, <2>1 DEF FindOutstanding, ReplaceLinks, Warranted
  <1>13. ASSUME SendLink(r) \/ MailFails(r) PROVE EarnedInv'
    BY <1>5, <1>6, <1>13 DEF SendLink, MailFails
  <1>14. ASSUME ClaimLink(r) PROVE EarnedInv'
    <2>1. CASE Answer(r)
      BY <1>4, <1>6, <1>14, <2>1 DEF ClaimLink
    <2>2. CASE ~ Answer(r)
      <3> DEFINE k == req[r].link
      <3>1. /\ mail' = [mail EXCEPT ![k] = [mail[k] EXCEPT !.status = "consumed", !.redeemed = @ + 1]]
            /\ Goto(r, Follows(req[r].op, "claim")) /\ user' = user
        BY <1>14, <2>2 DEF ClaimLink
      <3>2. k \in Sent /\ k \in Links /\ mail[k] \in LinkRow
        BY <1>2, <1>14 DEF ClaimLink, At, InFlight, Sent, TypeOK
      <3> HIDE DEF k
      <3>3. mail'[k].redeemed = mail[k].redeemed + 1 /\ mail[k].redeemed \in Nat
        BY <3>1, <3>2 DEF LinkRow, TypeOK
      <3>4. Earned'
        BY <3>2, <3>3, Grown DEF Earned
      <3>5. req'[r].at \in {"verify", "password"}
        BY <1>2, <3>1 DEF Goto, Follows, TypeOK, Requested
      <3> QED BY <1>6, <3>1, <3>4, <3>5 DEF Warranted
    <2> QED BY <2>1, <2>2
  <1>15. ASSUME VerifyUser(r) \/ SetPassword(r) PROVE EarnedInv'
    <2>1. Earned'
      BY <1>2, <1>15, EarnedLasts DEF VerifyUser, SetPassword, At, Warranted
    <2>2. req'[r] # Idle => Warranted(req[r])'
      BY <1>4, <1>5, <1>15 DEF VerifyUser, SetPassword
    <2> QED BY <1>6, <2>1, <2>2
  <1>16. QED
    BY <1>7, <1>8, <1>9, <1>10, <1>11, <1>12, <1>13, <1>14, <1>15 DEF Step

LEMMA EarnedInvariant == Spec => []EarnedInv
  <1>1. Init => EarnedInv
    BY DEF Init, EarnedInv, Account
  <1>2. TypeOK /\ HoldInv /\ (TypeOK /\ HoldInv)' /\ EarnedInv /\ [Next]_vars => EarnedInv'
    <2> SUFFICES ASSUME TypeOK, HoldInv, TypeOK', EarnedInv, [Next]_vars PROVE EarnedInv'
      OBVIOUS
    <2>1. CASE UNCHANGED vars
      BY <2>1 DEF vars, rest, EarnedInv, Earned, Warranted, Sent
    <2>2. CASE Next
      <3>1. Lasting
        BY <2>2, NextLasts
      <3>2. ASSUME UNCHANGED <<user, req>> PROVE EarnedInv'
        <4>1. ASSUME NEW o \in Requests, req'[o] # Idle PROVE Warranted(req[o])'
          BY <3>1, <3>2, <4>1, EarnedLasts DEF EarnedInv, Warranted, Lasting
        <4> QED BY <3>1, <3>2, <4>1, EarnedLasts DEF EarnedInv
      <3> QED
        BY <2>2, <3>1, <3>2, ArriveEarned, StepEarned
        DEF Next, Logout, ExpireSession, ExpireLink, LogoutAll
    <2> QED BY <2>1, <2>2
  <1>3. QED
    BY <1>1, <1>2, TypeCorrect, PTL DEF Spec

\* An address is marked verified only after a mailed link was redeemed or
\* Google confirmed it, whichever handlers interleave (googleAuth.ts:305).
THEOREM VerificationIsEarned == Spec => []VerifiedIsEarned
  <1>1. EarnedInv => VerifiedIsEarned
    BY DEF EarnedInv, Earned, Sent, VerifiedIsEarned
  <1>2. QED
    BY <1>1, EarnedInvariant, PTL

-----------------------------------------------------------------------------
(* Exchanges. *)

Exchanging(r, s) == req[r].at \in {"revoke", "issue"} /\ req[r].session = s

\* A session that one request at most is exchanging, and that has no heir
\* before that request is done.
Sole(s) ==
    /\ refresh[s].heirs <= 1
    /\ \A q, r \in Requests : Exchanging(q, s) /\ Exchanging(r, s) => q = r
    /\ refresh[s].live \/ (\E r \in Requests : Exchanging(r, s)) => refresh[s].heirs = 0
    /\ \A r \in Requests : Exchanging(r, s) /\ At(r, "issue") => ~ refresh[s].live

ExchangeInv == \A s \in Opened : refresh[s].contested \/ Sole(s)

\* A step that neither exchanges a session nor brings it back.
LEMMA SoleKept ==
    ASSUME NEW s \in Opened, refresh[s].contested \/ Sole(s),
           refresh'[s].heirs = refresh[s].heirs,
           refresh[s].contested => refresh'[s].contested,
           refresh'[s].live => refresh[s].live,
           \A o \in Requests : Exchanging(o, s)' => req'[o] = req[o]
    PROVE  refresh'[s].contested \/ Sole(s)'
  <1>1. CASE refresh[s].contested
    BY <1>1
  <1>2. CASE Sole(s)
    <2>1. \A o \in Requests : Exchanging(o, s)' => Exchanging(o, s)
      BY DEF Exchanging
    <2> QED BY <1>2, <2>1 DEF Sole, At
  <1>3. QED BY <1>1, <1>2

\* What steps other than an exchange do to the rows.
Untouched(s) ==
    \/ refresh'[s] = refresh[s]
    \/ refresh'[s] = [refresh[s] EXCEPT !.live = FALSE]

LEMMA ExchangeKept ==
    ASSUME TypeOK, ExchangeInv, Opened' \subseteq Opened, \A s \in Opened : Untouched(s),
           \A o \in Requests, s \in Opened : Exchanging(o, s)' => req'[o] = req[o]
    PROVE  ExchangeInv'
  <1>1. ASSUME NEW s \in Opened PROVE refresh'[s].contested \/ Sole(s)'
    <2>1. refresh[s] \in SessionRow
      BY DEF Opened, TypeOK
    <2>2. /\ refresh'[s].heirs = refresh[s].heirs
          /\ refresh[s].contested => refresh'[s].contested
          /\ refresh'[s].live => refresh[s].live
      BY <2>1 DEF Untouched, SessionRow
    <2> QED BY <2>2, SoleKept DEF ExchangeInv
  <1>2. QED BY <1>1 DEF ExchangeInv

\* Of a handler that opens a session without exchanging one.
LEMMA NotExchanging ==
    ASSUME TypeOK, HoldInv, NEW r \in Requests, Step(r),
           ~ At(r, "revoke"), ~ At(r, "issue")
    PROVE  \A s \in Opened : ~ Exchanging(r, s)'
  <1>1. ~ At(r, "idle")
    BY DEF Step, IssueSession, Rotate, InsertUser, MatchUser, LinkUser, CreateUser,
           FindOutstanding, ReplaceLinks, SendLink, MailFails, ClaimLink, VerifyUser,
           SetPassword, ResetEnds, Fail, At
  <1>2. req[r].session = None
    BY <1>1, Busy DEF HoldInv, InFlight, At
  <1>3. req'[r] = Idle \/ req'[r].session = None
    BY <1>2, Remembered DEF Remembers
  <1>4. QED
    BY <1>3, NoneIsNone DEF Exchanging, Idle, Opened

LEMMA RefreshExchange ==
    ASSUME TypeOK, ExchangeInv, NEW r \in Requests, NEW s \in Sessions, Refresh(r, s)
    PROVE  ExchangeInv'
  <1> DEFINE b == refresh[s].contested
                  \/ \E o \in Requests : At(o, "revoke") /\ req[o].session = s
  <1>1. s \in Opened /\ refresh[s] \in SessionRow /\ refresh[s].live
    BY DEF Refresh, Presentable, Live, Opened, TypeOK
  <1>2. refresh' = [refresh EXCEPT ![s].contested = b]
    BY DEF Refresh
  <1>3. b \in BOOLEAN /\ (refresh[s].contested => b)
    BY <1>1 DEF SessionRow
  <1>4. ~ b => \A o \in Requests : ~ (At(o, "revoke") /\ req[o].session = s)
    OBVIOUS
  <1> HIDE DEF b
  <1>5. /\ refresh'[s].contested = b /\ refresh'[s].heirs = refresh[s].heirs
        /\ refresh'[s].live = refresh[s].live
        /\ \A t \in Sessions \ {s} : refresh'[t] = refresh[t]
    BY <1>1, <1>2 DEF TypeOK, SessionRow
  <1>6. Opened' \subseteq Opened
    BY <1>1, <1>5 DEF Opened, TypeOK
  <1>7. req'[r].at = "revoke" /\ req'[r].session = s /\ Only(r)
    <2>1. Only(r)
      BY OnlyOne DEF Arrive
    <2> QED BY <2>1 DEF Refresh, Begin, Request, TypeOK
  <1>8. ASSUME NEW t \in Opened, t # s PROVE refresh'[t].contested \/ Sole(t)'
    <2>1. \A o \in Requests : Exchanging(o, t)' => req'[o] = req[o]
      BY <1>7, <1>8 DEF Only, Exchanging
    <2>2. refresh'[t] = refresh[t]
      BY <1>5, <1>8 DEF Opened
    <2> QED BY <2>1, <2>2, SoleKept DEF ExchangeInv
  <1>9. ASSUME ~ b PROVE Sole(s)'
    <2>1. Sole(s) /\ refresh[s].heirs = 0
      BY <1>1, <1>3, <1>9 DEF ExchangeInv, Sole
    <2>2. \A o \in Requests : ~ Exchanging(o, s)
      BY <1>1, <1>4, <1>9, <2>1 DEF Sole, Exchanging, At
    <2>3. \A o \in Requests : Exchanging(o, s)' => o = r
      BY <1>7, <2>2 DEF Only, Exchanging
    <2> QED BY <1>5, <1>7, <2>1, <2>3 DEF Sole, At
  <1>10. QED
    BY <1>5, <1>6, <1>8, <1>9 DEF ExchangeInv

LEMMA RotateExchange ==
    ASSUME TypeOK, HoldInv, ExchangeInv, NEW r \in Requests, Rotate(r)
    PROVE  ExchangeInv'
  <1>1. req[r] \in Requested /\ At(r, "revoke") /\ req[r].session \in Opened
    BY Busy DEF Rotate, At, HoldInv, InFlight
  <1> PICK s \in Opened : s = req[r].session
    BY <1>1
  <1>2. refresh' = [refresh EXCEPT ![s] = [refresh[s] EXCEPT !.live = FALSE]]
    BY DEF Rotate
  <1>3. req'[r].at = "issue" /\ req'[r].session = s
    BY <1>1 DEF Rotate, Goto, TypeOK, Requested
  <1>4. Exchanging(r, s) /\ s \in Sessions
    BY <1>1 DEF Exchanging, At, Opened
  <1>5. Only(r)
    BY OnlyOne DEF Step
  <1>6. refresh[s] \in SessionRow
    BY <1>1 DEF Opened, TypeOK
  <1>7. /\ refresh'[s].live = FALSE /\ refresh'[s].heirs = refresh[s].heirs
        /\ refresh'[s].contested = refresh[s].contested
        /\ \A t \in Sessions \ {s} : refresh'[t] = refresh[t]
    BY <1>2, <1>4, <1>6 DEF TypeOK, SessionRow
  <1>8. Opened' \subseteq Opened
    BY <1>1, <1>7 DEF Opened, TypeOK
  <1>9. ASSUME NEW t \in Opened, t # s PROVE refresh'[t].contested \/ Sole(t)'
    <2>1. \A o \in Requests : Exchanging(o, t)' => req'[o] = req[o]
      BY <1>3, <1>5, <1>9 DEF Only, Exchanging
    <2>2. refresh'[t] = refresh[t]
      BY <1>7, <1>9 DEF Opened
    <2> QED BY <2>1, <2>2, SoleKept DEF ExchangeInv
  <1>10. ASSUME Sole(s) PROVE Sole(s)'
    <2>1. \A o \in Requests : Exchanging(o, s)' => Exchanging(o, s)
      BY <1>4, <1>5 DEF Only, Exchanging
    <2>2. refresh[s].heirs = 0
      BY <1>4, <1>10 DEF Sole
    <2> QED BY <1>7, <1>10, <2>1, <2>2 DEF Sole
  <1>11. QED
    BY <1>1, <1>7, <1>8, <1>9, <1>10 DEF ExchangeInv

LEMMA IssueExchange ==
    ASSUME TypeOK, HoldInv, ExchangeInv, NEW r \in Requests, IssueSession(r)
    PROVE  ExchangeInv'
  <1>1. PICK s \in Sessions :
           /\ refresh[s] = None
           /\ refresh' = [t \in Sessions |->
                  CASE t = s -> Session(req[r])
                    [] t = req[r].session -> [refresh[t] EXCEPT !.heirs = @ + 1]
                    [] OTHER -> refresh[t]]
    BY DEF IssueSession
  <1>2. req[r] \in Requested /\ InFlight(req[r]) /\ At(r, "issue") /\ req'[r] = Idle
    BY Busy DEF IssueSession, At, HoldInv, Answer, TypeOK
  <1>3. Only(r)
    BY OnlyOne DEF Step
  <1>4. s # req[r].session
    BY <1>1, <1>2, NoneIsNone DEF InFlight, At, Opened
  <1>5. ASSUME NEW o \in Requests, NEW t, Exchanging(o, t)'
        PROVE  o # r /\ req'[o] = req[o] /\ Exchanging(o, t)
    BY <1>2, <1>3, <1>5 DEF Exchanging, Idle, Only
  <1>6. ASSUME NEW o \in Requests, NEW t \in Sessions, Exchanging(o, t) PROVE t \in Opened
    BY <1>6, Busy, NoneIsNone DEF Exchanging, At, HoldInv, InFlight
  <1>7. Sole(s)'
    <2>1. refresh'[s] = Session(req[r])
      BY <1>1, <1>4
    <2>2. refresh'[s].heirs = 0
      BY <2>1 DEF Session
    <2>3. \A o \in Requests : ~ Exchanging(o, s)'
      BY <1>1, <1>5, <1>6 DEF Opened
    <2> QED BY <2>2, <2>3 DEF Sole
  <1>8. ASSUME NEW t \in Opened, t # req[r].session PROVE refresh'[t].contested \/ Sole(t)'
    <2>1. refresh'[t] = refresh[t]
      BY <1>1, <1>8 DEF Opened
    <2> QED BY <1>5, <2>1, SoleKept DEF ExchangeInv
  <1>9. ASSUME NEW t \in Opened, t = req[r].session PROVE refresh'[t].contested \/ Sole(t)'
    <2>1. Exchanging(r, t) /\ refresh[t] \in SessionRow
      BY <1>2, <1>9 DEF Exchanging, At, Opened, TypeOK
    <2>2. refresh'[t] = [refresh[t] EXCEPT !.heirs = @ + 1]
      BY <1>1, <1>9 DEF Opened
    <2>3. /\ refresh'[t].heirs = refresh[t].heirs + 1
          /\ refresh'[t].live = refresh[t].live /\ refresh'[t].contested = refresh[t].contested
      BY <2>1, <2>2 DEF SessionRow
    <2>4. ASSUME Sole(t) PROVE Sole(t)'
      <3>1. refresh[t].heirs = 0 /\ ~ refresh[t].live
        BY <1>2, <2>1, <2>4 DEF Sole
      <3>2. \A o \in Requests : ~ Exchanging(o, t)'
        BY <1>5, <2>1, <2>4 DEF Sole
      <3> QED BY <2>3, <3>1, <3>2 DEF Sole
    <2> QED BY <2>3, <2>4 DEF ExchangeInv
  <1>10. ASSUME NEW t \in Opened', t # s PROVE t \in Opened
    <2>1. CASE t = req[r].session
      BY <1>2, <2>1, NoneIsNone DEF InFlight, At, Opened
    <2>2. CASE t # req[r].session
      BY <1>1, <1>10, <2>2 DEF Opened
    <2> QED BY <2>1, <2>2
  <1>11. QED
    BY <1>7, <1>8, <1>9, <1>10 DEF ExchangeInv

LEMMA NextExchange ==
    ASSUME TypeOK, TypeOK', HoldInv, ExchangeInv, Next
    PROVE  ExchangeInv'
  <1>1. ASSUME NEW r \in Requests, Arrive(r) PROVE ExchangeInv'
    <2>1. ASSUME NEW s \in Sessions, Refresh(r, s) PROVE ExchangeInv'
      BY <2>1, RefreshExchange
    <2>2. ASSUME UNCHANGED refresh, req'[r].at \notin {"revoke", "issue"} \/ req'[r].session = None
          PROVE  ExchangeInv'
      <3>1. \A s \in Opened : ~ Exchanging(r, s)'
        BY <2>2, NoneIsNone DEF Exchanging, Opened
      <3>2. Only(r)
        BY <1>1, OnlyOne
      <3>3. Opened' \subseteq Opened /\ \A s \in Opened : Untouched(s)
        BY <2>2 DEF Opened, Untouched
      <3> QED BY <3>1, <3>2, <3>3, ExchangeKept DEF Only
    <2> USE DEF Begin
    <2>3. ASSUME NEW p \in Passwords, Login(r, p) PROVE ExchangeInv'
      BY <2>2, <2>3 DEF Login, Request, TypeOK
    <2>7. ASSUME NEW p \in Passwords, Register(r, p) PROVE ExchangeInv'
      BY <2>2, <2>7 DEF Register, Request, TypeOK
    <2>4. ASSUME NEW confirms \in BOOLEAN, Google(r, confirms) PROVE ExchangeInv'
      BY <2>2, <2>4 DEF Google, Request, TypeOK
    <2>5. ASSUME Resend(r) \/ Forgot(r) PROVE ExchangeInv'
      BY <2>2, <2>5 DEF Resend, Forgot, Request, TypeOK
    <2>6. ASSUME NEW op, NEW k, NEW p, OpenLink(r, op, k, p) PROVE ExchangeInv'
      BY <2>2, <2>6 DEF OpenLink, Request, TypeOK
    <2> QED BY <1>1, <2>1, <2>3, <2>4, <2>5, <2>6, <2>7 DEF Arrive, Confirm, Reset
  <1>2. ASSUME AllRevoked = refresh' PROVE Opened' \subseteq Opened /\ \A s \in Opened : Untouched(s)
    BY <1>2 DEF AllRevoked, Opened, Untouched
  <1>3. ASSUME NEW r \in Requests, Step(r), ~ At(r, "revoke"), ~ At(r, "issue"),
               UNCHANGED refresh \/ refresh' = AllRevoked
        PROVE  ExchangeInv'
    <2>1. \A s \in Opened : ~ Exchanging(r, s)'
      BY <1>3, NotExchanging
    <2>2. Only(r)
      BY <1>3, OnlyOne
    <2>3. Opened' \subseteq Opened /\ \A s \in Opened : Untouched(s)
      BY <1>2, <1>3 DEF Opened, Untouched
    <2> QED BY <2>1, <2>2, <2>3, ExchangeKept DEF Only
  <1>4. ASSUME NEW r \in Requests, Fail(r) PROVE ExchangeInv'
    <2>1. req'[r] = Idle /\ UNCHANGED refresh
      BY <1>4 DEF Fail, Answer, TypeOK
    <2>2. Only(r)
      BY <1>4, OnlyOne DEF Step
    <2>3. \A s \in Opened : ~ Exchanging(r, s)'
      BY <2>1 DEF Exchanging, Idle
    <2>4. Opened' \subseteq Opened /\ \A s \in Opened : Untouched(s)
      BY <2>1 DEF Opened, Untouched
    <2> QED BY <2>2, <2>3, <2>4, ExchangeKept DEF Only
  <1>5. ASSUME NEW r \in Requests, Step(r), ~ IssueSession(r), ~ Rotate(r), ~ Fail(r)
        PROVE  ExchangeInv'
    BY <1>3, <1>5
    DEF Step, InsertUser, MatchUser, LinkUser, CreateUser, FindOutstanding, ReplaceLinks,
        SendLink, MailFails, ClaimLink, VerifyUser, SetPassword, ResetEnds, EndSessions, At
  <1>6. ASSUME UNCHANGED req, Opened' \subseteq Opened, \A s \in Opened : Untouched(s)
        PROVE  ExchangeInv'
    BY <1>6, ExchangeKept
  <1>7. ASSUME NEW s \in Sessions, Logout(s) \/ ExpireSession(s) PROVE ExchangeInv'
    <2>1. Opened' \subseteq Opened /\ \A t \in Opened : Untouched(t)
      BY <1>7 DEF Logout, ExpireSession, Live, Opened, TypeOK, Untouched
    <2> QED BY <1>6, <1>7, <2>1 DEF Logout, ExpireSession
  <1>8. ASSUME LogoutAll PROVE ExchangeInv'
    BY <1>2, <1>6, <1>8 DEF LogoutAll, EndSessions
  <1>9. ASSUME NEW k \in Links, ExpireLink(k) PROVE ExchangeInv'
    BY <1>6, <1>9 DEF ExpireLink, Opened, Untouched
  <1>10. QED
    BY <1>1, <1>4, <1>5, <1>7, <1>8, <1>9, RotateExchange, IssueExchange DEF Next

\* A session is exchanged for one other at most, unless two exchanges of it
\* overlapped: for any number of requests (tokens.ts:118).
THEOREM SessionsExchangedOnce == Spec => []ExchangedOnce
  <1>1. Init => ExchangeInv
    BY DEF Init, ExchangeInv, Opened
  <1>2. TypeOK /\ HoldInv /\ (TypeOK /\ HoldInv)' /\ ExchangeInv /\ [Next]_vars => ExchangeInv'
    <2> SUFFICES ASSUME TypeOK, HoldInv, TypeOK', ExchangeInv, [Next]_vars PROVE ExchangeInv'
      OBVIOUS
    <2>1. CASE UNCHANGED vars
      BY <2>1 DEF vars, rest, ExchangeInv, Sole, Exchanging, Opened, At
    <2>2. CASE Next
      BY <2>2, NextExchange
    <2> QED BY <2>1, <2>2
  <1>3. ExchangeInv => ExchangedOnce
    BY DEF ExchangeInv, Sole, Opened, ExchangedOnce
  <1>4. QED
    BY <1>1, <1>2, <1>3, TypeCorrect, PTL DEF Spec

-----------------------------------------------------------------------------
(* Passwords. *)

\* A session, or a request for one, that knows the password of the account, no
\* password, or an end it overlapped.
Current(password, over) ==
    \/ password \in {None, user.password}
    \/ over = ends /\ ends > 0

\* Stages from which a handler may go on to open a session as it is.
Signing == {"outstanding", "replace", "mail", "revoke", "issue"}

Trusty(q) ==
    /\ q.at \in {"match", "link", "create"} => q.password = None
    /\ q.at \in Signing /\ q.since = ends /\ ~ Changing => Current(q.password, q.over)

PasswordInv == /\ OldPasswordSignsOut
               /\ \A r \in Requests : req[r] # Idle => Trusty(req[r])

LEMMA EndPassword ==
    ASSUME TypeOK, TypeOK', HoldInv, PasswordInv, EndSessions,
           \A o \in Requests : req'[o] = req[o] \/ req'[o] = Idle
    PROVE  PasswordInv'
  <1>1. ASSUME NEW s \in Sessions, Live(s)' PROVE FALSE
    <2>1. s \in Opened /\ refresh[s] \in SessionRow
      BY <1>1 DEF EndSessions, AllRevoked, Live, Opened, TypeOK
    <2>2. refresh'[s] = [refresh[s] EXCEPT !.live = FALSE]
      BY <2>1 DEF EndSessions, AllRevoked, Opened
    <2>3. refresh'[s].live = FALSE
      BY <2>1, <2>2 DEF SessionRow
    <2> QED BY <1>1, <2>3 DEF Live
  <1>2. ASSUME NEW o \in Requests, req'[o] # Idle PROVE Trusty(req[o])'
    <2>1. req'[o] = req[o] /\ req[o].since <= ends /\ Trusty(req[o])
      BY <1>2 DEF HoldInv, InFlight, PasswordInv
    <2>2. req[o].since \in Nat /\ ends \in Nat /\ ends' = ends + 1
      BY <1>2, <2>1 DEF TypeOK, Requested, EndSessions
    <2> QED BY <2>1, <2>2 DEF Trusty
  <1>3. OldPasswordSignsOut'
    BY <1>1 DEF OldPasswordSignsOut
  <1>4. QED
    BY <1>2, <1>3 DEF PasswordInv

\* Between a new password and the end of the sessions nothing is promised.
LEMMA ChangingPassword ==
    ASSUME PasswordInv, Changing',
           \A o \in Requests : req'[o] = req[o] \/ req'[o] = Idle \/ req'[o].at = "end"
    PROVE  PasswordInv'
  <1>1. OldPasswordSignsOut'
    BY DEF OldPasswordSignsOut
  <1>2. ASSUME NEW o \in Requests, req'[o] # Idle PROVE Trusty(req[o])'
    BY <1>2 DEF PasswordInv, Trusty, Signing
  <1>3. QED
    BY <1>1, <1>2 DEF PasswordInv

\* What is left to show of a step that ends no sessions and keeps the password.
LEMMA PasswordKept ==
    ASSUME TypeOK, TypeOK', HoldInv, Lasting, PasswordInv, UNCHANGED ends,
           NEW r \in Requests, Only(r),
           Changing => Changing',
           user # None => user'.password = user.password,
           \A s \in Opened' \ Opened :
               ~ Changing => Current(refresh[s].password, refresh[s].over)',
           req'[r] # Idle => Trusty(req[r])'
    PROVE  PasswordInv'
  <1>1. ASSUME NEW s \in Sessions, Live(s)', ~ Changing'
        PROVE  Current(refresh[s].password, refresh[s].over)'
    <2>1. CASE s \notin Opened
      BY <1>1, <2>1 DEF Live, Opened
    <2>2. CASE s \in Opened
      <3>1. SessionLasts(s) /\ user # None
        BY <2>2 DEF Lasting, HoldInv
      <3>2. refresh[s] \in SessionRow /\ refresh'[s] \in SessionRow
        BY <1>1, <2>2 DEF Live, Opened, TypeOK
      <3>3. Live(s)
        BY <1>1, <2>2, <3>1, <3>2 DEF Live, Opened, SessionLasts, SessionRow
      <3> QED
        BY <1>1, <3>1, <3>3 DEF SessionLasts, PasswordInv, OldPasswordSignsOut, Current
    <2> QED BY <2>1, <2>2
  <1>2. ASSUME NEW o \in Requests, req'[o] # Idle PROVE Trusty(req[o])'
    <2>1. CASE o = r
      BY <1>2, <2>1
    <2>2. CASE o # r
      <3>1. req'[o] = req[o] /\ Trusty(req[o]) /\ InFlight(req[o])
        BY <1>2, <2>2 DEF Only, PasswordInv, HoldInv
      <3>2. req[o].at \in Signing => user # None
        BY <3>1 DEF InFlight, Signing
      <3> QED BY <3>1, <3>2 DEF Trusty, Current
    <2> QED BY <2>1, <2>2
  <1>3. OldPasswordSignsOut'
    BY <1>1 DEF OldPasswordSignsOut, Current
  <1>4. QED
    BY <1>2, <1>3 DEF PasswordInv

LEMMA ArrivePassword ==
    ASSUME TypeOK, TypeOK', HoldInv, Lasting, PasswordInv, NEW r \in Requests, Arrive(r)
    PROVE  PasswordInv'
  <1> USE DEF Begin
  <1>1. UNCHANGED <<user, ends, broken>> /\ req[r] = Idle
    BY DEF Arrive, Login, Register, Google, Refresh, Resend, Forgot, Confirm, Reset, OpenLink
  <1>2. Only(r)
    BY OnlyOne
  <1>3. Changing => Changing'
    BY <1>1, <1>2 DEF Changing, Only, At, Idle
  <1>4. Opened' \subseteq Opened
    <2>1. ASSUME NEW s \in Sessions, Refresh(r, s) PROVE Opened' \subseteq Opened
      BY <2>1 DEF Refresh, Presentable, Live, Opened, TypeOK
    <2>2. ASSUME UNCHANGED refresh PROVE Opened' \subseteq Opened
      BY <2>2 DEF Opened
    <2> QED
      BY <2>1, <2>2
      DEF Arrive, Login, Register, Google, Resend, Forgot, Confirm, Reset, OpenLink
  <1>5. Trusty(req[r])'
    <2>1. ASSUME NEW p \in Passwords, Login(r, p) PROVE Trusty(req[r])'
      BY <1>1, <2>1 DEF Login, Request, TypeOK, Trusty, Current
    <2>2. ASSUME NEW p \in Passwords, Register(r, p) PROVE Trusty(req[r])'
      BY <2>2 DEF Register, Request, TypeOK, Trusty, Signing
    <2>3. ASSUME NEW confirms \in BOOLEAN, Google(r, confirms) PROVE Trusty(req[r])'
      BY <2>3 DEF Google, Request, TypeOK, Trusty, Current
    <2>4. ASSUME NEW s \in Sessions, Refresh(r, s) PROVE Trusty(req[r])'
      <3>1. /\ req'[r].at = "revoke" /\ req'[r].password = refresh[s].password
            /\ req'[r].over = refresh[s].over
        BY <2>4 DEF Refresh, Request, TypeOK
      <3>2. ~ Changing => Current(refresh[s].password, refresh[s].over)
        BY <2>4 DEF Refresh, Presentable, PasswordInv, OldPasswordSignsOut, Current
      <3> QED BY <1>1, <1>3, <3>1, <3>2 DEF Trusty, Current
    <2>5. ASSUME Resend(r) \/ Forgot(r) PROVE Trusty(req[r])'
      BY <2>5 DEF Resend, Forgot, Request, TypeOK, Trusty, Current
    <2>6. ASSUME NEW op, NEW k, NEW p, OpenLink(r, op, k, p) PROVE Trusty(req[r])'
      BY <2>6 DEF OpenLink, Request, TypeOK, Trusty, Signing
    <2> QED BY <2>1, <2>2, <2>3, <2>4, <2>5, <2>6 DEF Arrive, Confirm, Reset
  <1>6. QED
    BY <1>1, <1>2, <1>3, <1>4, <1>5, PasswordKept

LEMMA StepPassword ==
    ASSUME TypeOK, TypeOK', HoldInv, Lasting, PasswordInv, NEW r \in Requests, Step(r)
    PROVE  PasswordInv'
  <1>1. ~ At(r, "idle")
    BY DEF Step, IssueSession, Rotate, InsertUser, MatchUser, LinkUser, CreateUser,
           FindOutstanding, ReplaceLinks, SendLink, MailFails, ClaimLink, VerifyUser,
           SetPassword, ResetEnds, Fail, At
  <1>2. req[r] \in Requested /\ req[r] # Idle /\ InFlight(req[r]) /\ Trusty(req[r])
    BY <1>1, Busy DEF HoldInv, PasswordInv
  <1>3. Only(r)
    BY OnlyOne
  <1>4. ASSUME Answer(r) PROVE req'[r] = Idle
    BY <1>4 DEF Answer, TypeOK
  <1>5. ASSUME ~ At(r, "end"), UNCHANGED broken PROVE Changing => Changing'
    BY <1>3, <1>5 DEF Changing, Only, At
  \* A handler on its way stays as trusty as it was.
  <1>6. ASSUME req'[r] # Idle, req[r].at \in Signing, UNCHANGED <<user, ends>>,
               Changing => Changing',
               req'[r].at \in Signing
        PROVE  Trusty(req[r])'
    <2>1. Remembers(r)
      BY <1>6, Remembered
    <2> QED BY <1>2, <1>6, <2>1 DEF Remembers, Trusty, Current, Signing
  \* One without a password may go on to any stage.
  <1>7. ASSUME req'[r] # Idle, req[r].password = None PROVE Trusty(req[r])'
    <2>1. Remembers(r)
      BY <1>7, Remembered
    <2> QED BY <1>7, <2>1 DEF Remembers, Trusty, Current
  <1>8. ASSUME NEW at, Goto(r, at) PROVE req'[r].at = at
    BY <1>2, <1>8 DEF Goto, TypeOK, Requested
  <1>9. ASSUME UNCHANGED <<ends, refresh>>, Changing => Changing',
               user # None => user'.password = user.password,
               req'[r] # Idle => Trusty(req[r])'
        PROVE  PasswordInv'
    <2>1. Opened' = Opened
      BY <1>9 DEF Opened
    <2> QED BY <1>3, <1>9, <2>1, PasswordKept
  <1>10. ASSUME IssueSession(r) PROVE PasswordInv'
    <2>1. PICK s \in Sessions :
             /\ refresh[s] = None
             /\ refresh' = [t \in Sessions |->
                    CASE t = s -> Session(req[r])
                      [] t = req[r].session -> [refresh[t] EXCEPT !.heirs = @ + 1]
                      [] OTHER -> refresh[t]]
      BY <1>10 DEF IssueSession
    <2>2. UNCHANGED <<user, ends, broken>> /\ At(r, "issue") /\ req'[r] = Idle
      BY <1>4, <1>10 DEF IssueSession
    <2>3. Changing => Changing'
      BY <1>5, <2>2 DEF At
    <2>4. ~ Changing => Current(refresh'[s].password, refresh'[s].over)
      <3>1. refresh'[s] = Session(req[r])
        <4>1. s # req[r].session
          BY <1>2, <2>1, <2>2, NoneIsNone DEF InFlight, At, Opened
        <4> QED BY <2>1, <4>1
      <3>2. CASE req[r].since = ends
        BY <1>2, <2>2, <3>1, <3>2 DEF Session, Trusty, At, Signing
      <3>3. CASE req[r].since # ends
        <4>1. ends > 0
          BY <1>2, <3>3 DEF InFlight, Requested, TypeOK
        <4> QED BY <3>1, <3>3, <4>1 DEF Session, Current
      <3> QED BY <3>2, <3>3
    <2>5. \A t \in Sessions : t # s /\ t \notin Opened => t \notin Opened'
      <3>1. \A t \in Sessions \ Opened : t # req[r].session
        BY <1>2, <2>2, NoneIsNone DEF InFlight, At
      <3> QED BY <2>1, <3>1 DEF Opened
    <2>6. \A t \in Opened' \ Opened :
             ~ Changing => Current(refresh[t].password, refresh[t].over)'
      BY <2>2, <2>4, <2>5 DEF Opened, Current
    <2> QED BY <1>3, <2>2, <2>3, <2>6, PasswordKept
  <1>11. ASSUME Rotate(r) PROVE PasswordInv'
    <2>1. At(r, "revoke") /\ UNCHANGED <<user, ends, broken>> /\ Goto(r, "issue")
      BY <1>11 DEF Rotate
    <2>2. Changing => Changing'
      BY <1>5, <2>1 DEF At
    <2>3. req'[r] # Idle => Trusty(req[r])'
      BY <1>6, <1>8, <2>1, <2>2 DEF At, Signing
    <2>4. Opened' \subseteq Opened
      <3>1. req[r].session \in Opened
        BY <1>2, <2>1 DEF At, InFlight
      <3> QED BY <1>11, <3>1 DEF Rotate, Opened, TypeOK
    <2> QED BY <1>3, <2>1, <2>2, <2>3, <2>4, PasswordKept
  <1>12. ASSUME InsertUser(r) PROVE PasswordInv'
    <2>1. Changing => Changing'
      BY <1>5, <1>12 DEF InsertUser, At
    <2>2. user # None => user' = user
      BY <1>12 DEF InsertUser, Taken
    <2>3. req'[r] # Idle => Trusty(req[r])'
      <3>1. ASSUME req'[r] # Idle PROVE Trusty(req[r])'
        <4>1. user'.password = req[r].password /\ Goto(r, "outstanding")
          BY <1>4, <1>12, <3>1 DEF InsertUser, Account
        <4>2. Remembers(r)
          BY <3>1, Remembered
        <4> QED BY <1>8, <4>1, <4>2 DEF Remembers, Trusty, Current
      <3> QED BY <3>1
    <2> QED BY <1>9, <1>12, <2>1, <2>2, <2>3 DEF InsertUser
  <1>13. ASSUME MatchUser(r) \/ LinkUser(r) \/ CreateUser(r) PROVE PasswordInv'
    <2>1. UNCHANGED <<ends, refresh, broken>> /\ req[r].at \in {"match", "link", "create"}
      BY <1>13 DEF MatchUser, LinkUser, CreateUser, At
    <2>2. Changing => Changing'
      BY <1>5, <2>1 DEF At
    <2>3. user # None => user'.password = user.password
      BY <1>13 DEF MatchUser, LinkUser, CreateUser, Taken, TypeOK, UserRow
    <2>4. req[r].password = None
      BY <1>2, <2>1 DEF Trusty
    <2> QED BY <1>7, <1>9, <2>1, <2>2, <2>3, <2>4
  <1>14. ASSUME FindOutstanding(r) \/ ReplaceLinks(r) \/ SendLink(r) \/ MailFails(r)
         PROVE  PasswordInv'
    <2>1. UNCHANGED <<user, ends, refresh, broken>> /\ req[r].at \in {"outstanding", "replace", "mail"}
      BY <1>14 DEF FindOutstanding, ReplaceLinks, SendLink, MailFails, At
    <2>2. Changing => Changing'
      BY <1>5, <2>1 DEF At
    <2>3. req'[r] # Idle => req'[r].at \in Signing
      <3>1. CASE FindOutstanding(r)
        <4> DEFINE L == Outstanding(Purpose(req[r].op))
        <4>1. req' = [req EXCEPT ![r].at = "replace", ![r].links = L]
          BY <3>1 DEF FindOutstanding
        <4> HIDE DEF L
        <4> QED BY <1>2, <4>1 DEF TypeOK, Requested, Signing
      <3>2. CASE ReplaceLinks(r)
        <4>1. PICK k \in Links : req' = [req EXCEPT ![r].at = "mail", ![r].link = k]
          BY <3>2 DEF ReplaceLinks
        <4> QED BY <1>2, <4>1 DEF TypeOK, Requested, Signing
      <3>3. CASE SendLink(r) \/ MailFails(r)
        BY <1>4, <1>8, <3>3 DEF SendLink, MailFails, Continue, Follows, Signing
      <3> QED BY <1>14, <3>1, <3>2, <3>3
    <2>4. req'[r] # Idle => Trusty(req[r])'
      BY <1>6, <2>1, <2>2, <2>3 DEF Signing
    <2> QED BY <1>9, <2>1, <2>2, <2>4
  <1>15. ASSUME ClaimLink(r) \/ VerifyUser(r) PROVE PasswordInv'
    <2>1. UNCHANGED <<ends, refresh, broken>> /\ req[r].at \in {"claim", "verify"}
      BY <1>15 DEF ClaimLink, VerifyUser, At
    <2>2. Changing => Changing'
      BY <1>5, <2>1 DEF At
    <2>3. user # None => user'.password = user.password
      BY <1>15 DEF ClaimLink, VerifyUser, TypeOK, UserRow
    <2>4. req'[r] # Idle => req'[r].at \in {"password", "verify"}
      BY <1>4, <1>8, <1>15 DEF ClaimLink, VerifyUser, Follows
    <2> QED BY <1>9, <2>1, <2>2, <2>3, <2>4 DEF Trusty, Signing
  <1>16. ASSUME SetPassword(r) PROVE PasswordInv'
    <2>1. Goto(r, "end")
      BY <1>16 DEF SetPassword, Continue, Follows
    <2>2. Changing' /\ req'[r].at = "end"
      BY <1>8, <2>1 DEF Changing, At
    <2> QED BY <1>3, <2>2, ChangingPassword DEF Only
  <1>17. ASSUME ResetEnds(r) PROVE PasswordInv'
    <2>1. EndSessions /\ Answer(r)
      BY <1>17 DEF ResetEnds, Continue, Follows
    <2> QED BY <1>3, <1>4, <2>1, EndPassword DEF Only
  <1>18. ASSUME Fail(r) PROVE PasswordInv'
    <2>1. Answer(r) /\ UNCHANGED <<user, ends, refresh>>
      BY <1>18 DEF Fail
    <2>2. CASE At(r, "end")
      <3>1. Changing'
        BY <1>18, <2>2 DEF Fail, Changing
      <3> QED BY <1>3, <1>4, <2>1, <3>1, ChangingPassword DEF Only
    <2>3. CASE ~ At(r, "end")
      <3>1. broken' = broken
        BY <1>18, <2>3 DEF Fail, TypeOK
      <3> QED BY <1>4, <1>5, <1>9, <2>1, <2>3, <3>1
    <2> QED BY <2>2, <2>3
  <1>19. QED
    BY <1>10, <1>11, <1>12, <1>13, <1>14, <1>15, <1>16, <1>17, <1>18 DEF Step

\* Once a reset is through, sessions opened with an earlier password are dead,
\* but for those under way at the time: for any number of sign-ins, refreshes
\* and resets side by side (accountRecovery.ts:188).
THEOREM OldPasswordsAreOut == Spec => []OldPasswordSignsOut
  <1>1. Init => PasswordInv
    BY DEF Init, PasswordInv, OldPasswordSignsOut, Live
  <1>2. TypeOK /\ HoldInv /\ (TypeOK /\ HoldInv)' /\ PasswordInv /\ [Next]_vars => PasswordInv'
    <2> SUFFICES ASSUME TypeOK, HoldInv, TypeOK', PasswordInv, [Next]_vars PROVE PasswordInv'
      OBVIOUS
    <2>1. CASE UNCHANGED vars
      BY <2>1 DEF vars, rest, PasswordInv, OldPasswordSignsOut, Trusty, Current, Changing, Live, At
    <2>2. CASE Next
      <3>1. Lasting
        BY <2>2, NextLasts
      <3>2. ASSUME UNCHANGED <<user, req, ends, broken>>, Opened' \subseteq Opened
            PROVE  PasswordInv'
        <4>1. Changing' <=> Changing
          BY <3>2 DEF Changing, At
        <4>2. ASSUME NEW s \in Sessions, Live(s)', ~ Changing
              PROVE  Current(refresh'[s].password, refresh'[s].over)
          <5>1. s \in Opened /\ SessionLasts(s)
            BY <3>1, <3>2, <4>2 DEF Live, Opened, Lasting
          <5>2. refresh[s] \in SessionRow /\ refresh'[s] \in SessionRow
            BY <4>2, <5>1 DEF Live, Opened, TypeOK
          <5>3. Live(s)
            BY <4>2, <5>1, <5>2 DEF Live, Opened, SessionLasts, SessionRow
          <5> QED
            BY <4>2, <5>1, <5>3 DEF SessionLasts, PasswordInv, OldPasswordSignsOut, Current
        <4>3. OldPasswordSignsOut'
          BY <3>2, <4>1, <4>2 DEF OldPasswordSignsOut, Current
        <4>4. \A o \in Requests : req'[o] # Idle => Trusty(req[o])'
          BY <3>2, <4>1 DEF PasswordInv, Trusty, Current
        <4> QED BY <4>3, <4>4 DEF PasswordInv
      <3>3. ASSUME LogoutAll PROVE PasswordInv'
        BY <3>3, EndPassword DEF LogoutAll
      <3>4. ASSUME NEW s \in Sessions, Logout(s) \/ ExpireSession(s) PROVE PasswordInv'
        <4>1. Opened' \subseteq Opened
          BY <3>4 DEF Logout, ExpireSession, Live, Opened, TypeOK
        <4> QED BY <3>2, <3>4, <4>1 DEF Logout, ExpireSession
      <3>5. ASSUME NEW k \in Links, ExpireLink(k) PROVE PasswordInv'
        BY <3>2, <3>5 DEF ExpireLink, Opened
      <3> QED BY <2>2, <3>1, <3>3, <3>4, <3>5, ArrivePassword, StepPassword DEF Next
    <2> QED BY <2>1, <2>2
  <1>3. PasswordInv => OldPasswordSignsOut
    BY DEF PasswordInv
  <1>4. QED
    BY <1>1, <1>2, <1>3, TypeCorrect, PTL DEF Spec

-----------------------------------------------------------------------------
(* The promise to the owner of the address. *)

Hands == {"verify", "password"}

Holds(q, k) == q.at \in Hands /\ q.link = k

\* What a request knows of the link it follows or is to replace.
Serves(q) ==
    /\ q.at = "insert" => q.password \in Passwords
    /\ q.at = "replace" => \A j \in q.links : mail[j].purpose = Purpose(q.op)
    /\ q.at = "claim" => q.op \in {"confirm", "reset"}
    /\ q.at = "verify" => q.op = "confirm"
    /\ q.at = "password" => q.op = "reset"
    /\ q.at \in {"claim"} \cup Hands =>
           /\ mail[q.link].purpose = Purpose(q.op)
           /\ q.op = "reset" => q.password \in Passwords
    /\ q.at \in Hands => mail[q.link].status = "consumed" /\ mail[q.link].redeemed > 0

ServeInv ==
    /\ \A r \in Requests : req[r] # Idle => Serves(req[r])
    /\ \A r, o \in Requests :
           req[r].at \in Hands /\ req[o].at \in Hands /\ req[r].link = req[o].link => r = o

LEMMA Gone ==
    ASSUME TypeOK, NEW r \in Requests, ~ At(r, "idle"), NEW at, Goto(r, at)
    PROVE  /\ req'[r].at = at /\ req'[r].op = req[r].op /\ req'[r].link = req[r].link
           /\ req'[r].links = req[r].links /\ req'[r].password = req[r].password
  <1>1. req'[r] = [req[r] EXCEPT !.at = at] /\ req[r] \in Requested
    BY Busy DEF Goto, TypeOK
  <1>2. QED
    BY <1>1 DEF Requested

LEMMA ServesOn ==
    ASSUME TypeOK, TypeOK', HoldInv, Lasting, ServeInv, NEW o \in Requests,
           req'[o] = req[o], req[o] # Idle
    PROVE  Serves(req[o])'
  <1>1. Serves(req[o]) /\ InFlight(req[o]) /\ req[o] \in Requested
    BY DEF ServeInv, HoldInv, TypeOK
  <1>2. \A k \in Sent : mail'[k].purpose = mail[k].purpose
    BY DEF Lasting, LinkLasts
  <1>3. ASSUME req[o].at \in {"claim"} \cup Hands
        PROVE  mail'[req[o].link].purpose = Purpose(req[o].op)
    BY <1>1, <1>2, <1>3 DEF Serves, InFlight, Hands
  <1>4. ASSUME req[o].at \in Hands
        PROVE  mail'[req[o].link].status = "consumed" /\ mail'[req[o].link].redeemed > 0
    <2> DEFINE k == req[o].link
    <2>1. k \in Sent /\ LinkLasts(k)
      BY <1>1, <1>4 DEF InFlight, Hands, Lasting
    <2>2. mail[k].redeemed \in Nat /\ mail'[k].redeemed \in Nat
      BY <2>1 DEF LinkLasts, Sent, TypeOK, LinkRow
    <2>3. mail[k].status = "consumed" /\ mail[k].redeemed > 0
      BY <1>1, <1>4 DEF Serves
    <2> QED BY <2>1, <2>2, <2>3 DEF LinkLasts
  <1>5. ASSUME req[o].at = "replace", NEW j \in req[o].links
        PROVE  mail'[j].purpose = Purpose(req[o].op)
    BY <1>1, <1>2, <1>5 DEF Serves, InFlight
  <1>6. QED
    BY <1>1, <1>3, <1>4, <1>5 DEF Serves

\* What is left to show of a step of one request.
LEMMA ServeKept ==
    ASSUME TypeOK, TypeOK', HoldInv, Lasting, ServeInv, NEW r \in Requests, Only(r),
           req'[r] # Idle => Serves(req[r])',
           req'[r].at \in Hands =>
               \A o \in Requests : o # r /\ req[o].at \in Hands => req[o].link # req'[r].link
    PROVE  ServeInv'
  <1>1. ASSUME NEW o \in Requests, req'[o] # Idle PROVE Serves(req[o])'
    BY <1>1, ServesOn DEF Only
  <1>2. ASSUME NEW o \in Requests, NEW p \in Requests,
               req'[o].at \in Hands, req'[p].at \in Hands, req'[o].link = req'[p].link
        PROVE  o = p
    BY <1>2 DEF Only, ServeInv
  <1>3. QED
    BY <1>1, <1>2 DEF ServeInv

LEMMA ArriveServes ==
    ASSUME TypeOK, TypeOK', HoldInv, Lasting, ServeInv, NEW r \in Requests, Arrive(r)
    PROVE  ServeInv' /\ req[r] = Idle /\ req'[r].at \notin Hands
  <1> USE DEF Begin, Hands
  <1>1. Serves(req[r])' /\ req[r] = Idle /\ req'[r].at \notin Hands
    <2>1. ASSUME NEW p \in Passwords, Login(r, p)
          PROVE  Serves(req[r])' /\ req[r] = Idle /\ req'[r].at \notin Hands
      BY <2>1 DEF Login, Request, TypeOK, Serves
    <2>2. ASSUME NEW p \in Passwords, Register(r, p)
          PROVE  Serves(req[r])' /\ req[r] = Idle /\ req'[r].at \notin Hands
      BY <2>2 DEF Register, Request, TypeOK, Serves
    <2>3. ASSUME NEW confirms \in BOOLEAN, Google(r, confirms)
          PROVE  Serves(req[r])' /\ req[r] = Idle /\ req'[r].at \notin Hands
      BY <2>3 DEF Google, Request, TypeOK, Serves
    <2>4. ASSUME NEW s \in Sessions, Refresh(r, s)
          PROVE  Serves(req[r])' /\ req[r] = Idle /\ req'[r].at \notin Hands
      BY <2>4 DEF Refresh, Request, TypeOK, Serves
    <2>5. ASSUME Resend(r) \/ Forgot(r)
          PROVE  Serves(req[r])' /\ req[r] = Idle /\ req'[r].at \notin Hands
      BY <2>5 DEF Resend, Forgot, Request, TypeOK, Serves
    <2>6. ASSUME NEW k, NEW p, NEW op \in {"confirm", "reset"}, op = "reset" => p \in Passwords,
                 OpenLink(r, op, k, p)
          PROVE  Serves(req[r])' /\ req[r] = Idle /\ req'[r].at \notin Hands
      <3> DEFINE q == [Request(op, "claim") EXCEPT
                         !.link = k, !.password = p, !.verified = user.verified]
      <3>1. req' = [req EXCEPT ![r] = q] /\ req[r] = Idle /\ mail' = mail
            /\ mail[k].purpose = Purpose(op)
        BY <2>6 DEF OpenLink
      <3>2. q.at = "claim" /\ q.op = op /\ q.link = k /\ q.password = p
        BY DEF Request
      <3>3. req'[r] = q
        BY <3>1 DEF TypeOK
      <3> HIDE DEF q
      <3> QED BY <2>6, <3>1, <3>2, <3>3 DEF Serves
    <2> QED BY <2>1, <2>2, <2>3, <2>4, <2>5, <2>6 DEF Arrive, Confirm, Reset
  <1>2. QED
    BY <1>1, OnlyOne, ServeKept

\* Steps that leave the mail alone and take no link in hand.
Elsewhere(r) ==
    req'[r] = Idle \/ req'[r].at \in {"outstanding", "issue", "create", "link", "end"}

LEMMA StepsElsewhere ==
    ASSUME TypeOK, NEW r \in Requests,
           \/ IssueSession(r) \/ Rotate(r) \/ InsertUser(r) \/ MatchUser(r) \/ LinkUser(r)
           \/ CreateUser(r) \/ SendLink(r) \/ MailFails(r) \/ VerifyUser(r) \/ SetPassword(r)
           \/ ResetEnds(r) \/ Fail(r)
    PROVE  Elsewhere(r) /\ mail' = mail
  <1>1. ASSUME Answer(r) PROVE Elsewhere(r)
    BY <1>1 DEF Answer, TypeOK, Elsewhere
  <1>2. ASSUME ~ At(r, "idle"), NEW at \in {"outstanding", "issue", "create", "link", "end"},
               Goto(r, at)
        PROVE  Elsewhere(r)
    BY <1>2, Gone DEF Elsewhere
  <1>3. ASSUME ~ At(r, "idle"), NEW at \in {"mail", "password", "end"}, Continue(r, at)
        PROVE  Elsewhere(r)
    BY <1>1, <1>2, <1>3 DEF Continue, Follows
  <1>4. ASSUME IssueSession(r) \/ Rotate(r) \/ InsertUser(r)
        PROVE  Elsewhere(r) /\ mail' = mail
    BY <1>1, <1>2, <1>4 DEF IssueSession, Rotate, InsertUser, At
  <1>5. ASSUME MatchUser(r) \/ LinkUser(r) \/ CreateUser(r)
        PROVE  Elsewhere(r) /\ mail' = mail
    BY <1>1, <1>2, <1>5 DEF MatchUser, LinkUser, CreateUser, At
  <1>6. ASSUME SendLink(r) \/ MailFails(r) \/ SetPassword(r) \/ ResetEnds(r)
        PROVE  Elsewhere(r) /\ mail' = mail
    BY <1>3, <1>6 DEF SendLink, MailFails, SetPassword, ResetEnds, At
  <1>7. ASSUME VerifyUser(r) \/ Fail(r) PROVE Elsewhere(r) /\ mail' = mail
    BY <1>1, <1>7 DEF VerifyUser, Fail
  <1>8. QED
    BY <1>4, <1>5, <1>6, <1>7

\* A claim that goes through, and its link in hand.
Redeemed(r, k) ==
    /\ k \in Sent /\ Claimable(k)
    /\ mail' = [mail EXCEPT ![k] = [mail[k] EXCEPT !.status = "consumed", !.redeemed = @ + 1]]
    /\ req'[r].link = k /\ req'[r].op = req[r].op /\ req'[r].password = req[r].password
    /\ req'[r].at = IF req[r].op = "reset" THEN "password" ELSE "verify"

LEMMA ClaimCases ==
    ASSUME TypeOK, HoldInv, NEW r \in Requests, ClaimLink(r)
    PROVE  \/ mail' = mail /\ req'[r] = Idle
           \/ Redeemed(r, req[r].link)
  <1>1. ~ At(r, "idle") /\ req[r] # Idle /\ req[r].link \in Sent
    BY Busy DEF ClaimLink, At, HoldInv, InFlight
  <1>2. CASE ~ Claimable(req[r].link)
    BY <1>2 DEF ClaimLink, Answer, TypeOK
  <1>3. CASE Claimable(req[r].link)
    <2> DEFINE k == req[r].link
    <2>1. mail' = [mail EXCEPT ![k] = [mail[k] EXCEPT !.status = "consumed", !.redeemed = @ + 1]]
      BY <1>3 DEF ClaimLink
    <2>2. Goto(r, Follows(req[r].op, "claim"))
      BY <1>3 DEF ClaimLink
    <2> QED BY <1>1, <1>3, <2>1, <2>2, Gone DEF Redeemed, Follows
  <1>4. QED
    BY <1>2, <1>3

LEMMA StepServes ==
    ASSUME TypeOK, TypeOK', HoldInv, Lasting, ServeInv, NEW r \in Requests, Step(r)
    PROVE  ServeInv'
  <1>1. Only(r)
    BY OnlyOne
  <1>2. ASSUME Elsewhere(r) PROVE ServeInv'
    <2>1. req'[r] # Idle => Serves(req[r])'
      BY <1>2 DEF Elsewhere, Serves, Hands
    <2>2. req'[r].at \notin Hands
      BY <1>2 DEF Elsewhere, Idle, Hands
    <2> QED BY <1>1, <2>1, <2>2, ServeKept
  <1>3. ASSUME FindOutstanding(r) PROVE ServeInv'
    <2> DEFINE L == Outstanding(Purpose(req[r].op))
    <2>1. req' = [req EXCEPT ![r].at = "replace", ![r].links = L] /\ mail' = mail
      BY <1>3 DEF FindOutstanding
    <2>2. \A j \in L : mail[j].purpose = Purpose(req[r].op)
      BY DEF Outstanding
    <2>3. req[r] \in Requested
      BY <1>3, Busy DEF FindOutstanding, At
    <2> HIDE DEF L
    <2>4. req'[r].at = "replace" /\ req'[r].links = L /\ req'[r].op = req[r].op
      BY <2>1, <2>3 DEF TypeOK, Requested
    <2>5. Serves(req[r])'
      BY <2>1, <2>2, <2>4 DEF Serves, Hands
    <2> QED BY <1>1, <2>4, <2>5, ServeKept DEF Hands
  <1>4. ASSUME ReplaceLinks(r) PROVE ServeInv'
    <2>1. PICK k \in Links : req' = [req EXCEPT ![r].at = "mail", ![r].link = k]
      BY <1>4 DEF ReplaceLinks
    <2>2. req[r] \in Requested
      BY <1>4, Busy DEF ReplaceLinks, At
    <2>3. req'[r].at = "mail"
      BY <2>1, <2>2 DEF TypeOK, Requested
    <2> QED BY <1>1, <2>3, ServeKept DEF Serves, Hands
  <1>5. ASSUME ClaimLink(r) PROVE ServeInv'
    <2> DEFINE k == req[r].link
    <2>1. CASE req'[r] = Idle
      BY <1>2, <2>1 DEF Elsewhere
    <2>2. CASE Redeemed(r, k)
      <3>1. req[r] \in Requested /\ req[r] # Idle /\ Serves(req[r]) /\ At(r, "claim")
        BY <1>5, Busy DEF ClaimLink, At, ServeInv
      <3>2. k \in Links /\ mail[k] \in LinkRow
        BY <2>2 DEF Redeemed, Sent, TypeOK
      <3>3. mail'[k].status = "consumed" /\ mail'[k].redeemed > 0
            /\ mail'[k].purpose = mail[k].purpose
        BY <2>2, <3>2 DEF Redeemed, TypeOK, LinkRow
      <3>4. Serves(req[r])'
        BY <2>2, <3>1, <3>3 DEF Redeemed, Serves, At, Hands
      <3>5. ASSUME NEW o \in Requests, req[o].at \in Hands PROVE req[o].link # k
        <4>1. req[o] # Idle
          BY <3>5 DEF Hands, Idle
        <4> QED BY <2>2, <3>5, <4>1 DEF ServeInv, Serves, Redeemed, Claimable
      <3>6. req'[r].link = k
        BY <2>2 DEF Redeemed
      <3> QED BY <1>1, <3>4, <3>5, <3>6, ServeKept
    <2> QED BY <1>5, <2>1, <2>2, ClaimCases
  <1>6. QED
    BY <1>2, <1>3, <1>4, <1>5, StepsElsewhere DEF Step

LEMMA ServeInvariant == Spec => []ServeInv
  <1>1. Init => ServeInv
    BY DEF Init, ServeInv, Idle, Hands
  <1>2. TypeOK /\ HoldInv /\ (TypeOK /\ HoldInv)' /\ ServeInv /\ [Next]_vars => ServeInv'
    <2> SUFFICES ASSUME TypeOK, HoldInv, TypeOK', ServeInv, [Next]_vars PROVE ServeInv'
      OBVIOUS
    <2>1. CASE UNCHANGED vars
      BY <2>1 DEF vars, ServeInv, Serves
    <2>2. CASE Next
      <3>1. Lasting
        BY <2>2, NextLasts
      <3>2. ASSUME UNCHANGED req PROVE ServeInv'
        <4>1. \A o \in Requests : req'[o] # Idle => Serves(req[o])'
          BY <3>1, <3>2, ServesOn
        <4> QED BY <3>2, <4>1 DEF ServeInv
      <3> QED
        BY <2>2, <3>2, <3>1, ArriveServes, StepServes
        DEF Next, Logout, ExpireSession, ExpireLink, LogoutAll
    <2> QED BY <2>1, <2>2
  <1>3. QED
    BY <1>1, <1>2, TypeCorrect, PTL DEF Spec

\* The mapped state of the links.
For == [k \in Links |-> IF mail[k] = None THEN None ELSE mail[k].purpose]

States == [k \in Links |-> LinkState(k)]

LEMMA HeldBy == \A k : InHand(k) <=> \E r \in Requests : Holds(req[r], k)
  BY DEF InHand, Holds, Hands

\* A link in hand is one that was redeemed.
LEMMA HeldIsRedeemed ==
    ASSUME HoldInv, ServeInv, NEW k, InHand(k)
    PROVE  k \in Sent /\ mail[k].status = "consumed" /\ mail[k].redeemed > 0
  BY DEF InHand, HoldInv, InFlight, ServeInv, Serves, Hands, Idle

\* Rows, the requests that hold them and nothing else make up a link's state.
LEMMA SameState ==
    ASSUME NEW k \in Links, InHand(k)' <=> InHand(k), mail'[k] = mail[k]
    PROVE  LinkState(k)' = LinkState(k)
  BY DEF LinkState

LEMMA HandsStay ==
    ASSUME NEW r \in Requests, Only(r), NEW k,
           Holds(req'[r], k) <=> Holds(req[r], k)
    PROVE  InHand(k)' <=> InHand(k)
  BY DEF Only, InHand, Holds, Hands

\* Steps that neither touch the mail nor take or drop a link.
LEMMA LinksStay ==
    ASSUME NEW r \in Requests, Only(r), mail' = mail,
           req[r].at \notin Hands, req'[r].at \notin Hands
    PROVE  For' = For /\ States' = States
  <1>1. \A k \in Links : LinkState(k)' = LinkState(k)
    BY HandsStay, SameState DEF Holds
  <1>2. QED
    BY <1>1 DEF For, States

\* Steps that drop a link and leave the mail.
LEMMA LinkDropped ==
    ASSUME TypeOK, HoldInv, ServeInv, NEW r \in Requests, Only(r), mail' = mail,
           NEW k, Holds(req[r], k), req'[r].at \notin Hands
    PROVE  /\ k \in Links /\ For' = For
           /\ States[k] = "taken" /\ States' = [States EXCEPT ![k] = "used"]
  <1>1. InHand(k)
    BY DEF InHand, Holds, Hands
  <1>2. k \in Sent /\ k \in Links /\ mail[k] # None /\ mail[k].redeemed > 0
    BY <1>1, HeldIsRedeemed DEF Sent
  <1>3. ~ InHand(k)'
    <2>1. \A o \in Requests : o # r => ~ Holds(req'[o], k)
      BY DEF Only, Holds, ServeInv
    <2> QED BY <2>1 DEF InHand, Holds, Hands
  <1>4. LinkState(k) = "taken" /\ LinkState(k)' = "used"
    BY <1>1, <1>2, <1>3 DEF LinkState
  <1>5. \A j \in Links : j # k => LinkState(j)' = LinkState(j)
    BY HandsStay, SameState DEF Holds
  <1>6. QED
    BY <1>2, <1>4, <1>5 DEF For, States

LEMMA LinkTaken ==
    ASSUME TypeOK, HoldInv, RedeemInv, ServeInv, NEW r \in Requests, Only(r), NEW k,
           Redeemed(r, k), req[r].at = "claim"
    PROVE  /\ k \in Links /\ For' = For
           /\ States[k] = "open" /\ States' = [States EXCEPT ![k] = "taken"]
  <1>1. k \in Sent /\ k \in Links /\ mail[k] \in LinkRow /\ mail[k] # None
    BY DEF Redeemed, Sent, TypeOK
  <1>2. mail' = [mail EXCEPT ![k] = [mail[k] EXCEPT !.status = "consumed", !.redeemed = @ + 1]]
    BY DEF Redeemed
  <1>3. mail'[k] \in LinkRow /\ mail'[k].purpose = mail[k].purpose
    <2>1. mail'[k] = [mail[k] EXCEPT !.status = "consumed", !.redeemed = @ + 1]
      BY <1>1, <1>2 DEF TypeOK
    <2>2. mail[k].redeemed + 1 \in Nat
      BY <1>1 DEF LinkRow
    <2>3. mail'[k].purpose = mail[k].purpose
      BY <1>1, <2>1 DEF LinkRow
    <2>4. mail'[k] \in LinkRow
      BY <1>1, <2>1, <2>2 DEF LinkRow
    <2> QED BY <2>3, <2>4
  <1>4. mail'[k] # None
    BY <1>3, NoneIsNone
  <1>5. \A j \in Links : j # k => mail'[j] = mail[j]
    BY <1>2 DEF TypeOK
  <1>6. For' = For
    BY <1>1, <1>3, <1>4, <1>5 DEF For
  <1>7. LinkState(k) = "open"
    <2>1. mail[k].status # "consumed" /\ mail[k].redeemed = 0
      BY <1>1 DEF Redeemed, Claimable, RedeemInv
    <2> QED BY <1>1, <2>1, HeldIsRedeemed DEF LinkState
  <1>8. LinkState(k)' = "taken"
    <2>1. InHand(k)'
      BY DEF InHand, Redeemed
    <2> QED BY <1>4, <2>1 DEF LinkState
  <1>9. \A j \in Links : j # k => LinkState(j)' = LinkState(j)
    <2>1. \A j \in Links : j # k => (Holds(req'[r], j) <=> Holds(req[r], j))
      BY DEF Holds, Hands, Redeemed
    <2> QED BY <1>5, <2>1, HandsStay, SameState
  <1>10. QED
    BY <1>1, <1>6, <1>7, <1>8, <1>9 DEF States

\* A link that expires stays open: the claim asks for consumed_at alone.
LEMMA LinkExpires ==
    ASSUME TypeOK, HoldInv, RedeemInv, ServeInv, NEW k \in Links, ExpireLink(k)
    PROVE  For' = For /\ States' = States
  <1>1. mail[k] \in LinkRow /\ mail[k] # None /\ mail[k].status = "fresh" /\ k \in Sent
    BY DEF ExpireLink, TypeOK, Sent
  <1>2. mail' = [mail EXCEPT ![k] = [mail[k] EXCEPT !.status = "expired"]] /\ req' = req
    BY DEF ExpireLink
  <1>3. mail'[k] \in LinkRow /\ mail'[k].purpose = mail[k].purpose
        /\ mail'[k].redeemed = mail[k].redeemed /\ mail'[k].status = "expired"
    BY <1>1, <1>2 DEF TypeOK, LinkRow
  <1>4. mail'[k] # None
    BY <1>3, NoneIsNone
  <1>5. \A j \in Links : j # k => mail'[j] = mail[j]
    BY <1>2 DEF TypeOK
  <1>6. \A j \in Links : InHand(j)' <=> InHand(j)
    BY <1>2 DEF InHand
  <1>7. LinkState(k)' = LinkState(k)
    BY <1>1, <1>3, <1>4, <1>6 DEF LinkState
  <1>8. \A j \in Links : LinkState(j)' = LinkState(j)
    BY <1>5, <1>6, <1>7, SameState
  <1>9. QED
    BY <1>1, <1>3, <1>4, <1>5, <1>8 DEF For, States

\* A link is mailed: those it replaces were open ones of its purpose.
LEMMA LinkMailed ==
    ASSUME TypeOK, TypeOK', HoldInv, RedeemInv, ServeInv, NEW r \in Requests, Only(r),
           ReplaceLinks(r)
    PROVE  \E k \in Links : Ownership!Mail(k)
  <1>1. PICK k \in Links :
           /\ mail[k] = None
           /\ mail' = [j \in Links |->
                  CASE j = k -> Link(req[r])
                    [] j \in req[r].links -> [mail[j] EXCEPT !.status = "consumed"]
                    [] OTHER -> mail[j]]
           /\ req' = [req EXCEPT ![r].at = "mail", ![r].link = k]
    BY DEF ReplaceLinks
  <1>2. req[r] \in Requested /\ InFlight(req[r]) /\ Serves(req[r]) /\ At(r, "replace")
    BY Busy DEF ReplaceLinks, At, HoldInv, ServeInv
  <1> DEFINE p == Purpose(req[r].op)
             L == req[r].links
             old == {j \in L : LinkState(j) = "open"}
  <1>3. user # None
    BY <1>2 DEF InFlight, At
  <1>4. L \subseteq Sent /\ k \notin Sent /\ k \notin L /\ \A j \in L : mail[j].purpose = p
    BY <1>1, <1>2 DEF InFlight, Serves, Sent, At
  <1>5. p \in {"verify", "reset"}
    BY DEF Purpose
  <1>6. mail'[k] = Link(req[r]) /\ mail'[k] \in LinkRow /\ mail'[k].purpose = p
        /\ mail'[k].status = "fresh" /\ mail'[k].redeemed = 0
    <2>1. mail'[k] = Link(req[r])
      BY <1>1, <1>4
    <2> QED BY <1>2, <2>1 DEF Link, LinkRow, Purpose, Requested
  <1>7. \A j \in L : mail[j] \in LinkRow /\ mail'[j] = [mail[j] EXCEPT !.status = "consumed"]
    BY <1>1, <1>4 DEF Sent, TypeOK
  <1>8. \A j \in L : /\ mail'[j] \in LinkRow /\ mail'[j].purpose = mail[j].purpose
                     /\ mail'[j].redeemed = mail[j].redeemed /\ mail'[j].status = "consumed"
    BY <1>7 DEF LinkRow
  <1>9. \A j \in Links : j # k /\ j \notin L => mail'[j] = mail[j]
    BY <1>1
  <1>10. mail'[k] # None /\ \A j \in L : mail[j] # None /\ mail'[j] # None
    BY <1>6, <1>7, <1>8, NoneIsNone
  <1>11. \A j \in Links : InHand(j)' <=> InHand(j)
    <2>1. req'[r].at = "mail"
      BY <1>1, <1>2 DEF TypeOK, Requested
    <2>2. \A j : Holds(req'[r], j) <=> Holds(req[r], j)
      BY <1>2, <2>1 DEF Holds, Hands, At
    <2> QED BY <2>2, HandsStay
  <1>12. ~ InHand(k)
    BY <1>4, HeldIsRedeemed
  <1>13. LinkState(k) = "none" /\ LinkState(k)' = "open"
    BY <1>1, <1>6, <1>10, <1>11, <1>12 DEF LinkState
  <1> HIDE DEF p, L
  <1>14. \A j \in L : LinkState(j)' = IF LinkState(j) = "open" THEN "void" ELSE LinkState(j)
    <2> SUFFICES ASSUME NEW j \in L
                 PROVE  LinkState(j)' = IF LinkState(j) = "open" THEN "void" ELSE LinkState(j)
      OBVIOUS
    <2>1. j \in Links
      BY <1>4 DEF Sent
    <2> QED BY <1>8, <1>10, <1>11, <2>1 DEF LinkState
  <1>15. \A j \in Links : j # k /\ j \notin L => LinkState(j)' = LinkState(j)
    BY <1>9, <1>11, SameState
  <1>16. For' = [For EXCEPT ![k] = p]
    <2>1. \A j \in Links : j # k => (IF mail[j] = None THEN None ELSE mail[j].purpose)'
                                    = IF mail[j] = None THEN None ELSE mail[j].purpose
      BY <1>8, <1>9, <1>10
    <2> QED BY <1>6, <1>10, <2>1 DEF For
  <1>17. States' = [j \in Links |-> IF j = k THEN "open" ELSE IF j \in old THEN "void" ELSE States[j]]
    BY <1>13, <1>14, <1>15 DEF States
  <1>18. old \in SUBSET {j \in Links : States[j] = "open" /\ For[j] = p}
    BY <1>4, <1>10 DEF States, For, Sent
  <1>19. States[k] = "none"
    BY <1>13 DEF States
  <1>20. UNCHANGED <<user, identity, vouched>>
    BY DEF ReplaceLinks, rest
  <1> HIDE DEF old
  <1>21. \E q \in {"verify", "reset"} :
            \E gone \in SUBSET {j \in Links : States[j] = "open" /\ For[j] = q} :
               /\ For' = [For EXCEPT ![k] = q]
               /\ States' = [j \in Links |-> IF j = k THEN "open"
                                            ELSE IF j \in gone THEN "void" ELSE States[j]]
    BY <1>5, <1>16, <1>17, <1>18
  <1>22. Ownership!Mail(k)
    BY <1>3, <1>19, <1>20, <1>21 DEF Ownership!Mail, For, States
  <1>23. QED
    BY <1>22

Unseen == UNCHANGED <<user, identity, vouched>> /\ For' = For /\ States' = States

Owned == Ownership!Next \/ UNCHANGED Ownership!ownershipVars

LEMMA UnseenIsOwned == Unseen => Owned
  BY DEF Unseen, Owned, For, States, Ownership!ownershipVars

LEMMA ArriveOwned ==
    ASSUME TypeOK, TypeOK', HoldInv, Lasting, ServeInv, NEW r \in Requests, Arrive(r)
    PROVE  Owned
  <1>1. For' = For /\ States' = States
    <2>1. mail' = mail
      BY DEF Arrive, Login, Register, Google, Refresh, Resend, Forgot, Confirm, Reset, OpenLink
    <2>2. req[r].at \notin Hands /\ req'[r].at \notin Hands
      BY ArriveServes DEF Idle, Hands
    <2> QED BY <2>1, <2>2, OnlyOne, LinksStay
  <1>2. UNCHANGED <<user, identity>>
    BY DEF Arrive, Login, Register, Google, Refresh, Resend, Forgot, Confirm, Reset, OpenLink
  <1>3. CASE vouched' = vouched
    BY <1>1, <1>2, <1>3, UnseenIsOwned DEF Unseen
  <1>4. ASSUME NEW confirms \in BOOLEAN, Google(r, confirms) PROVE Owned
    <2>1. CASE confirms
      <3>1. Ownership!Vouch
        BY <1>1, <1>2, <1>4, <2>1 DEF Google, Ownership!Vouch, For, States
      <3> QED BY <3>1 DEF Owned, Ownership!Next
    <2>2. CASE ~ confirms
      <3>1. vouched' = vouched
        BY <1>4, <2>2 DEF Google, TypeOK
      <3> QED BY <1>3, <3>1
    <2> QED BY <2>1, <2>2
  <1>5. QED
    BY <1>3, <1>4
    DEF Arrive, Login, Register, Refresh, Resend, Forgot, Confirm, Reset, OpenLink, rest

LEMMA StepOwned ==
    ASSUME TypeOK, TypeOK', HoldInv, Lasting, RedeemInv, EarnedInv, ServeInv,
           NEW r \in Requests, Step(r)
    PROVE  Owned
  <1>1. Only(r)
    BY OnlyOne
  <1>2. Elsewhere(r) => req'[r].at \notin Hands
    BY DEF Elsewhere, Hands, Idle
  <1>3. ASSUME mail' = mail, Elsewhere(r), req[r].at \notin Hands
        PROVE  For' = For /\ States' = States
    BY <1>1, <1>2, <1>3, LinksStay
  <1>4. ASSUME \/ IssueSession(r) \/ Rotate(r) \/ MatchUser(r) \/ SendLink(r) \/ MailFails(r)
               \/ ResetEnds(r)
        PROVE  Owned
    <2>1. UNCHANGED <<user, identity, vouched>>
      BY <1>4 DEF IssueSession, Rotate, MatchUser, SendLink, MailFails, ResetEnds, rest
    <2>2. req[r].at \notin Hands
      BY <1>4 DEF IssueSession, Rotate, MatchUser, SendLink, MailFails, ResetEnds, At, Hands
    <2> QED BY <1>3, <1>4, <2>1, <2>2, StepsElsewhere, UnseenIsOwned DEF Unseen
  <1>5. ASSUME InsertUser(r) PROVE Owned
    <2>1. For' = For /\ States' = States
      BY <1>3, <1>5, StepsElsewhere DEF InsertUser, At, Hands
    <2>2. CASE Taken
      BY <1>5, <2>1, <2>2, UnseenIsOwned DEF InsertUser, Unseen, rest
    <2>3. CASE ~ Taken
      <3>1. req[r].password \in Passwords
        BY <1>5, Busy DEF InsertUser, At, ServeInv, Serves
      <3>2. Ownership!Register
        BY <1>5, <2>1, <2>3, <3>1
        DEF InsertUser, Taken, Account, rest, Ownership!Register, Ownership!Row, For, States
      <3> QED BY <3>2 DEF Owned, Ownership!Next
    <2> QED BY <2>2, <2>3
  <1>6. ASSUME LinkUser(r) PROVE Owned
    <2>1. For' = For /\ States' = States
      BY <1>3, <1>6, StepsElsewhere DEF LinkUser, At, Hands
    <2>2. req[r] # Idle /\ At(r, "link")
      BY <1>6, Busy DEF LinkUser, At
    <2>3. vouched /\ user \in UserRow /\ user # None
      BY <2>2 DEF EarnedInv, Warranted, HoldInv, InFlight, At, TypeOK
    <2>4. user' = Ownership!Row(user.password, TRUE)
      BY <1>6, <2>3 DEF LinkUser, UserRow, Ownership!Row
    <2>5. Ownership!Attach
      BY <1>6, <2>1, <2>3, <2>4 DEF LinkUser, rest, Ownership!Attach, For, States
    <2> QED BY <2>5 DEF Owned, Ownership!Next
  <1>7. ASSUME CreateUser(r) PROVE Owned
    <2>1. For' = For /\ States' = States
      BY <1>3, <1>7, StepsElsewhere DEF CreateUser, At, Hands
    <2>2. CASE Taken
      BY <1>7, <2>1, <2>2, UnseenIsOwned DEF CreateUser, Unseen, rest
    <2>3. CASE ~ Taken
      <3>1. req[r] \in Requested /\ (req[r].verified => vouched)
        BY <1>7, Busy DEF CreateUser, At, EarnedInv, Warranted
      <3>2. user' = Ownership!Row(None, req[r].verified) /\ req[r].verified \in BOOLEAN
        BY <1>7, <2>3, <3>1 DEF CreateUser, Created, Account, Requested, Ownership!Row
      <3>3. Ownership!Join
        BY <1>7, <2>1, <2>3, <3>1, <3>2
        DEF CreateUser, Taken, rest, Ownership!Join, For, States
      <3> QED BY <3>3 DEF Owned, Ownership!Next
    <2> QED BY <2>2, <2>3
  <1>8. ASSUME FindOutstanding(r) PROVE Owned
    <2> DEFINE L == Outstanding(Purpose(req[r].op))
    <2>1. req' = [req EXCEPT ![r].at = "replace", ![r].links = L] /\ mail' = mail
      BY <1>8 DEF FindOutstanding
    <2>2. req[r] \in Requested
      BY <1>8, Busy DEF FindOutstanding, At
    <2> HIDE DEF L
    <2>3. req'[r].at = "replace"
      BY <2>1, <2>2 DEF TypeOK, Requested
    <2>4. For' = For /\ States' = States
      BY <1>1, <1>8, <2>1, <2>3, LinksStay DEF FindOutstanding, At, Hands
    <2> QED BY <1>8, <2>4, UnseenIsOwned DEF FindOutstanding, Unseen, rest
  <1>9. ASSUME ReplaceLinks(r) PROVE Owned
    BY <1>1, <1>9, LinkMailed DEF Owned, Ownership!Next
  <1>10. ASSUME ClaimLink(r) PROVE Owned
    <2>1. UNCHANGED <<user, identity, vouched>> /\ req[r].at = "claim"
      BY <1>10 DEF ClaimLink, At, rest
    <2>2. CASE mail' = mail /\ req'[r] = Idle
      <3>1. For' = For /\ States' = States
        BY <1>3, <2>1, <2>2 DEF Elsewhere, Hands
      <3> QED BY <2>1, <3>1, UnseenIsOwned DEF Unseen
    <2>3. ASSUME NEW k, Redeemed(r, k) PROVE Owned
      <3>1. /\ k \in Links /\ For' = For
            /\ States[k] = "open" /\ States' = [States EXCEPT ![k] = "taken"]
        BY <1>1, <2>1, <2>3, LinkTaken
      <3>2. Ownership!Redeem(k)
        BY <2>1, <3>1 DEF Ownership!Redeem, Ownership!Move, For, States
      <3> QED BY <3>1, <3>2 DEF Owned, Ownership!Next
    <2> QED BY <1>10, <2>2, <2>3, ClaimCases
  <1>11. ASSUME NEW k, Holds(req[r], k), Elsewhere(r), mail' = mail
         PROVE  /\ k \in Links /\ For' = For
                /\ States[k] = "taken" /\ States' = [States EXCEPT ![k] = "used"]
                /\ mail[k] # None
                /\ For[k] = Purpose(req[r].op)
    <2>1. /\ k \in Links /\ For' = For
          /\ States[k] = "taken" /\ States' = [States EXCEPT ![k] = "used"]
      BY <1>1, <1>2, <1>11, LinkDropped
    <2>2. InHand(k) /\ req[r] # Idle
      BY <1>11 DEF InHand, Holds, Hands, Idle
    <2>3. mail[k] # None /\ mail[k].purpose = Purpose(req[r].op)
      BY <1>11, <2>2, HeldIsRedeemed DEF Sent, ServeInv, Serves, Holds
    <2> QED BY <2>1, <2>3 DEF For
  <1>12. ASSUME VerifyUser(r) PROVE Owned
    <2>1. PICK k : k = req[r].link
      OBVIOUS
    <2>2. Holds(req[r], k) /\ req[r] # Idle /\ At(r, "verify")
      BY <1>12, <2>1, Busy DEF VerifyUser, At, Holds, Hands
    <2>3. req[r].op = "confirm" /\ user \in UserRow
      BY <2>2 DEF ServeInv, Serves, HoldInv, InFlight, TypeOK, At
    <2>4. /\ k \in Links /\ For' = For
          /\ States[k] = "taken" /\ States' = [States EXCEPT ![k] = "used"]
          /\ For[k] = "verify"
      BY <1>11, <1>12, <2>2, <2>3, StepsElsewhere DEF Purpose
    <2>5. user' = Ownership!Row(user.password, TRUE)
      BY <1>12, <2>3 DEF VerifyUser, Stamped, UserRow, Ownership!Row
    <2>6. Ownership!Verify(k)
      BY <1>12, <2>4, <2>5
      DEF VerifyUser, rest, Ownership!Verify, Ownership!Move, For, States
    <2> QED BY <2>4, <2>6 DEF Owned, Ownership!Next
  <1>13. ASSUME SetPassword(r) PROVE Owned
    <2>1. PICK k : k = req[r].link
      OBVIOUS
    <2>2. Holds(req[r], k) /\ req[r] # Idle /\ At(r, "password")
      BY <1>13, <2>1, Busy DEF SetPassword, At, Holds, Hands
    <2>3. req[r].op = "reset" /\ req[r].password \in Passwords
      BY <2>2 DEF ServeInv, Serves, At, Hands
    <2>4. /\ k \in Links /\ For' = For
          /\ States[k] = "taken" /\ States' = [States EXCEPT ![k] = "used"]
          /\ For[k] = "reset"
      BY <1>11, <1>13, <2>2, <2>3, StepsElsewhere DEF Purpose
    <2>5. user' = Ownership!Row(req[r].password, TRUE)
      BY <1>13 DEF SetPassword, Stamped, Account, Ownership!Row
    <2>6. Ownership!Change(k)
      BY <1>13, <2>3, <2>4, <2>5
      DEF SetPassword, rest, Ownership!Change, Ownership!Move, For, States
    <2> QED BY <2>4, <2>6 DEF Owned, Ownership!Next
  <1>14. ASSUME Fail(r) PROVE Owned
    <2>1. UNCHANGED <<user, identity, vouched>>
      BY <1>14 DEF Fail, rest
    <2>2. CASE req[r].at \notin Hands
      BY <1>3, <1>14, <2>1, <2>2, StepsElsewhere, UnseenIsOwned DEF Unseen
    <2>3. CASE req[r].at \in Hands
      <3>1. PICK k : k = req[r].link
        OBVIOUS
      <3>2. /\ k \in Links /\ For' = For
            /\ States[k] = "taken" /\ States' = [States EXCEPT ![k] = "used"]
        BY <1>11, <1>14, <2>3, <3>1, StepsElsewhere DEF Holds
      <3>3. Ownership!Waste(k)
        BY <2>1, <3>2 DEF Ownership!Waste, Ownership!Move, For, States
      <3> QED BY <3>2, <3>3 DEF Owned, Ownership!Next
    <2> QED BY <2>2, <2>3
  <1>15. QED
    BY <1>4, <1>5, <1>6, <1>7, <1>8, <1>9, <1>10, <1>12, <1>13, <1>14 DEF Step

\* Whatever requests interleave, fail half way and are retried, the address is
\* its owner's: every committed statement is one step of the promise that
\* AddressOwnership states, or is not seen there (authTokens.ts:71,
\* googleAuth.ts:305, accountRecovery.ts:188).
THEOREM AddressIsOwned == Spec => ImplementsOwnership
  <1>1. Init => Ownership!Init
    <2> SUFFICES ASSUME Init PROVE Ownership!Init
      OBVIOUS
    <2>1. \A k \in Links : mail[k] = None
      BY DEF Init
    <2>2. [k \in Links |-> IF mail[k] = None THEN None ELSE mail[k].purpose]
          = [k \in Links |-> None]
      BY <2>1
    <2>3. [k \in Links |-> LinkState(k)] = [k \in Links |-> "none"]
      BY <2>1 DEF LinkState
    <2> QED BY <2>2, <2>3 DEF Init, Account, Ownership!Init, Ownership!Row
  <1>2. /\ TypeOK /\ HoldInv /\ (TypeOK /\ HoldInv)' /\ LinkInv /\ EarnedInv /\ ServeInv
        /\ [Next]_vars
        => [Ownership!Next]_Ownership!ownershipVars
    <2> SUFFICES ASSUME TypeOK, HoldInv, TypeOK', RedeemInv, EarnedInv, ServeInv, [Next]_vars
                 PROVE  Owned
      BY DEF LinkInv, Owned
    <2>1. ASSUME UNCHANGED <<user, identity, vouched, mail, req>> PROVE Owned
      BY <2>1, UnseenIsOwned DEF Unseen, For, States, LinkState, InHand
    <2>2. CASE UNCHANGED vars
      BY <2>1, <2>2 DEF vars, rest
    <2>3. CASE Next
      <3>1. Lasting
        BY <2>3, NextLasts
      <3>2. ASSUME NEW r \in Requests, Arrive(r) \/ Step(r) PROVE Owned
        BY <3>1, <3>2, ArriveOwned, StepOwned
      <3>3. ASSUME NEW k \in Links, ExpireLink(k) PROVE Owned
        BY <3>3, LinkExpires, UnseenIsOwned DEF Unseen, ExpireLink, rest
      <3>4. ASSUME LogoutAll PROVE Owned
        BY <2>1, <3>4 DEF LogoutAll, rest
      <3>5. ASSUME NEW s \in Sessions, Logout(s) \/ ExpireSession(s) PROVE Owned
        BY <2>1, <3>5 DEF Logout, ExpireSession, rest
      <3> QED BY <2>3, <3>2, <3>3, <3>4, <3>5 DEF Next
    <2> QED BY <2>2, <2>3
  <1>3. QED
    BY <1>1, <1>2, TypeCorrect, LinkInvariant, EarnedInvariant, ServeInvariant, PTL
    DEF Spec, ImplementsOwnership, Ownership!Spec

==============================================================================
