---------------------------- MODULE SignInProofs ----------------------------
(***************************************************************************)
(* Proofs about SignIn, for any number of people, requests and passwords:  *)
(* its types, that a code opens once, that the newest code counts, that    *)
(* cookies work and that users of Google and Facebook are complete.        *)
(*                                                                         *)
(* TInv is the part of the inductive invariant they share: what requests   *)
(* have read and own, and which rows and accounts they can rely on.  Each  *)
(* property adds a part of its own; those about users whose requests come  *)
(* one at a time also rest on OneAtATime.  A step is a request that starts *)
(* (Openings), one that goes on (Movings), a mail that comes or is         *)
(* rejected, or no request's (KindsOfSteps).                               *)
(***************************************************************************)
EXTENDS SignIn, SequenceTheorems, TLAPS

-----------------------------------------------------------------------------
(* The inductive invariant                                                 *)

\* What a request has read fits the step it has come to.
FitsAt(s, v) ==
  /\ s \in {"new", "over"} => v = Nothing
  /\ s \in {"hash", "reset", "plain"} => v.pw \in Passwords
  /\ s = "account" => v.op \in {"login", "oauth"}
  /\ s \in {"user", "reuse"} => v.op = "oauth"
  /\ s \in {"user", "account"} /\ v.op = "oauth" => v.by # "email"
  /\ s = "reuse" => v.by = "google"
  /\ s \in {"token", "access"} => v.op \in {"login", "refresh", "oauth", "joined"}
  /\ s = "row" => v.op \in {"login", "none"}
  /\ s = "mail" => v.op = "none"
  /\ s \in {"mail", "letter"} => v.to \in Users
  /\ v.id # None => v.op = "forgot"
  /\ s = "cookie" => v.op = "refresh"
  /\ s = "redirect" => v.op \in {"oauth", "joined"}
  /\ s \in Parts => v.op \in {"joined", "business"}
  /\ s \in {"use", "drop"} =>
       /\ v.op \in {"verify", "forgot"} /\ v.code # None
       /\ v.op = "forgot" => v.pw \in Passwords
       /\ v.op = "verify" => v.acc # None
StepsFit ==
  \A r \in Requests :
    FitsAt(at[r], saw[r]) /\ (r \in mail => at[r] \in {"row", "over"})

\* A refresh token that is kept anywhere is one of a request of its user.
Has(u, p) == accounts[<<u, p>>] # None
Own(u, t) == t # None /\ of[t] = u
TokensAreOwn ==
  /\ \A u \in Users, p \in Providers :
       Has(u, p) => Own(u, accounts[<<u, p>>].refresh)
  /\ \A u \in Users : jar[u].refresh # None => Own(u, jar[u].refresh)
  /\ \A r \in Requests :
       /\ saw[r].acc # None => Own(of[r], saw[r].acc.refresh)
       /\ at[r] \in {"user", "account", "reuse"} => saw[r].key = r
       /\ at[r] = "token" => Own(of[r], saw[r].key)

\* Accounts are never given up: who has read one, or a token of one, can rely
\* on it, and on the row of its user.
Joined(r) == saw[r].op = "joined"
AccountsStay ==
  /\ \A u \in Users, p \in Providers : Has(u, p) => stored[u] # None
  /\ \A u \in Users : jar[u].refresh # None => \E p \in Providers : Has(u, p)
  /\ \A u \in Users : codes[u] # <<>> => stored[u] # None
  /\ \A r \in Requests :
       /\ saw[r].acc # None => Has(of[r], "email")
       /\ at[r] \in {"access", "redirect"} \/ (at[r] \in Parts /\ Joined(r)) =>
            Has(of[r], saw[r].by)
       /\ at[r] = "reuse" => Has(of[r], "google")

\* A request whose user was deleted knows it; others find the row.
Makers == {"new", "hash", "user", "letter"}
RowsStay ==
  \A r \in Requests :
    /\ r \in orphans => of[r] \notin serial /\ at[r] \notin Makers
    /\ InProgress(r) /\ at[r] \notin Makers /\ r \notin orphans => stored[of[r]] # None

\* A code is made by a request of its user, last of all.
CodesAreOwn ==
  \A u \in Users : \A i \in DOMAIN codes[u] :
    of[codes[u][i].code] = u /\ at[codes[u][i].code] = "over"

TInv == TypeOK /\ StepsFit /\ TokensAreOwn /\ AccountsStay /\ RowsStay /\ CodesAreOwn

\* Of a user whose requests come one at a time, one is busy at most.
Busies(r) == InProgress(r) \/ r \in mail
OneAtATime ==
  \A r, q \in Requests :
    Busies(r) /\ Busies(q) /\ of[r] = of[q] /\ of[r] \in serial => r = q

\* Then a code that opened is used, and one about to be used has not opened.
Opens ==
  /\ \A c \in Requests : opened[c] # 0 => at[c] = "over"
  /\ \A c \in Requests : of[c] \in serial /\ opened[c] # 0 =>
       opened[c] = 1 /\ \A i \in RowsOf(of[c], c) : codes[of[c]][i].used
  /\ \A r \in Requests : at[r] = "use" =>
       /\ of[saw[r].code] = of[r]
       /\ of[r] \in serial => opened[saw[r].code] = 0

\* The code mailed last counts, or it is on its way: the mail of the row that
\* was made last, or the row of the mail that came last.
Counts(u, c) == \E i \in LatestUnused(u) : codes[u][i].code = c
Mailed(r) == at[r] = "row" /\ r \notin mail
Unmailed(r) == at[r] = "over" /\ r \in mail
Newest(u) ==
  /\ \A r \in Requests : of[r] = u =>
       /\ Mailed(r) => newest[u] = r
       /\ Unmailed(r) => Counts(u, r)
       /\ at[r] \in {"use", "drop"} => newest[u] \in spent \cup {None, saw[r].code}
  /\ (\A r \in Requests : of[r] = u => ~Mailed(r) /\ ~Unmailed(r)) =>
       newest[u] \in spent \cup {None} \/ Counts(u, newest[u])
NewestCounts == \A u \in serial \ (cut \cup crossed) : Newest(u)

\* A mail goes to the user whose row follows it, or both have been crossed.
MailsMeet ==
  \A r \in Requests :
    /\ at[r] = "mail" =>
         saw[r].to = of[r] \/ (saw[r].to \in crossed /\ of[r] \in crossed)
    /\ at[r] = "letter" => saw[r].to \in crossed

\* Cookies are renewed by a sign-in, a refresh or a verified code only.
Renews == {"login", "refresh", "oauth", "joined"}
Taken(r) == accounts[<<of[r], saw[r].by>>]
CookiesHold(u) ==
  /\ \E p \in Providers : Has(u, p) /\ accounts[<<u, p>>].refresh = jar[u].refresh
  /\ jar[u].access # None =>
       \E p \in Providers : Has(u, p) /\ accounts[<<u, p>>].access = jar[u].access
Renewing(r) ==
  /\ InProgress(r) /\ saw[r].op \in Renews => of[r] \notin fresh
  /\ at[r] = "use" /\ saw[r].op = "verify" => accounts[<<of[r], "email">>] = saw[r].acc
  /\ InProgress(r) /\ saw[r].op = "refresh" => saw[r].key = jar[of[r]].refresh
  /\ saw[r].op = "refresh" /\ at[r] \in {"access", "cookie"} =>
       Has(of[r], saw[r].by) /\ Taken(r).refresh = saw[r].key
  /\ at[r] = "cookie" => Taken(r).access = r
CookiesRenewed ==
  /\ \A u \in fresh \cap serial : CookiesHold(u)
  /\ \A r \in Requests : of[r] \in serial => Renewing(r)

\* A user without a password has an account of Google or Facebook, or the
\* request that made him is about to make it, and no other one makes one.
Making(r) == at[r] = "account" /\ saw[r].op = "oauth" /\ r \notin orphans
MakersInv ==
  /\ \A r \in Requests : Making(r) => \A p \in Providers \ {"email"} : ~Has(of[r], p)
  /\ \A r, q \in Requests : Making(r) /\ Making(q) /\ of[r] = of[q] => r = q
  /\ \A u \in Users : stored[u] # None /\ stored[u].pw = None =>
       \/ u \in cut
       \/ \E p \in Providers \ {"email"} : Has(u, p)
       \/ \E r \in Requests : of[r] = u /\ Making(r)

\* One with an account of Facebook has the business rows, or the request that
\* joined him makes them, or one that has made the integration.
JoinedSteps == {"token", "access", "redirect"} \cup Parts
JoinedInv ==
  /\ \A r \in Requests : Joined(r) =>
       /\ at[r] \in JoinedSteps
       /\ "facebook" \in Providers /\ Has(of[r], "facebook")
       /\ at[r] = "token" => saw[r].key = r /\ accounts[<<of[r], "facebook">>].refresh = r
       /\ at[r] = "redirect" => of[r] \in bare \/ "contents" \in business[of[r]]
  /\ \A u \in Users \ (cut \cup bare) : "contents" \notin business[u] =>
       /\ "integration" \in business[u] => \E r \in Requests : of[r] = u /\ at[r] = "contents"
       /\ "facebook" \in Providers /\ Has(u, "facebook") =>
            \E r \in Requests : of[r] = u /\ (Joined(r) \/ at[r] = "contents")

\* His business row comes first, and whoever has passed it finds it.
WabaInv ==
  /\ \A r \in Requests :
       /\ at[r] \in {"integration", "contents", "redirect"} /\ (at[r] = "redirect" => Joined(r)) =>
            "waba" \in business[of[r]]
       /\ at[r] = "contents" /\ r \in orphans => of[r] \in bare
       /\ at[r] = "integration" \/ (Joined(r) /\ at[r] # "contents") => r \notin orphans
  /\ \A u \in Users \ cut :
       "facebook" \in Providers /\ Has(u, "facebook") /\ "waba" \notin business[u] =>
         \E r \in Requests : of[r] = u /\ Joined(r) /\ at[r] \in {"token", "access", "waba"}

-----------------------------------------------------------------------------
(* Steps of a request                                                      *)

\* A request begins, ...
LEMMA BeginStep ==
  ASSUME TypeOK, NEW r \in Requests, NEW u \in Users, NEW step \in Steps \ {"new"},
         NEW seen \in Seen, Begin(r, u, step, seen)
  PROVE  /\ at[r] = "new" /\ of[r] = None
         /\ at'[r] = step /\ of'[r] = u /\ saw'[r] = seen
         /\ \A q \in Requests \ {r} : at'[q] = at[q] /\ of'[q] = of[q] /\ saw'[q] = saw[q]
         /\ at' \in [Requests -> Steps] /\ of' \in [Requests -> Users \cup {None}]
         /\ saw' \in [Requests -> Seen]
         /\ \A q \in Requests : at'[q] = "new" <=> of'[q] = None
         /\ serial' \subseteq serial /\ \A w \in Users \ {u} : w \in serial' <=> w \in serial
         /\ u \in serial' => ~Busy(u)
<1>1. u # None
  BY SignInAssumption
<1> QED BY <1>1 DEF Begin, TypeOK

\* ... goes on ...
LEMMA GoesStep ==
  ASSUME TypeOK, NEW r \in Requests, NEW from \in Steps \ {"new"},
         NEW to \in Steps \ {"new"}, NEW seen \in Seen, GoesWith(r, from, to, seen),
         UNCHANGED of
  PROVE  /\ at[r] = from /\ of[r] \in Users
         /\ at'[r] = to /\ saw'[r] = seen
         /\ \A q \in Requests \ {r} : at'[q] = at[q] /\ saw'[q] = saw[q]
         /\ at' \in [Requests -> Steps] /\ of' \in [Requests -> Users \cup {None}]
         /\ saw' \in [Requests -> Seen]
         /\ \A q \in Requests : at'[q] = "new" <=> of'[q] = None
  BY DEF GoesWith, TypeOK

\* What a request has read at first is a record like the others.
LEMMA NothingSeen == Nothing \in Seen
  BY SignInAssumption DEF Nothing, Seen, Tokens, Operations

\* The ten operations a request begins with.
Starts(r) ==
  \E u \in Users :
    \/ \E p \in Passwords : Register(r, u, p) \/ Login(r, u, p)
    \/ \E w \in Users : SendOtp(r, u, w)
    \/ SendOtpToNone(r, u) \/ Refresh(r, u) \/ ConnectBusiness(r, u)
    \/ \E c \in Requests :
         \/ Verify(r, u, c)
         \/ \E p \in Passwords, x \in Users \cup {None} : ForgotPassword(r, u, c, p, x)
    \/ \E old, new \in Passwords : ChangePassword(r, u, old, new)
    \/ \E p \in Providers : OAuth(r, u, p)

\* What they have in common: where they come to and what they have read.
FirstSteps == {"hash", "account", "mail", "letter", "token", "waba", "drop", "use", "plain",
               "user", "reuse"}
Opening(r, u, step, seen) ==
  /\ Begin(r, u, step, seen)
  /\ UNCHANGED <<rows, browser, mail, orphans, cut, bare, opened, spent>>
  /\ crossed \subseteq crossed' /\ crossed' \subseteq Users
  /\ step = "mail" => seen.to = u \/ (seen.to \in crossed' /\ u \in crossed')
  /\ step = "letter" => seen.to \in crossed'
  /\ fresh' = IF seen.op \in Renews THEN fresh \ {u} ELSE fresh
  /\ FitsAt(step, seen)
  /\ seen.acc # None => Has(u, "email") /\ seen.acc = accounts[<<u, "email">>]
  /\ step = "token" => Own(u, seen.key)
  /\ step \in {"user", "account", "reuse"} => seen.key = r
  /\ step \notin Makers => stored[u] # None
  /\ step \in {"use", "drop"} =>
       \E i \in LatestUnused(u) : codes[u][i].code = seen.code
  /\ step = "account" => seen.op = "login"
  /\ step = "reuse" => Has(u, "google")
  /\ seen.op = "refresh" => seen.key = jar[u].refresh
  /\ seen.op # "joined"

\* Each of the ten is such a step.
LEMMA Openings ==
  ASSUME TInv, NEW r \in Requests, Starts(r)
  PROVE  \E u \in Users, step \in FirstSteps, seen \in Seen : Opening(r, u, step, seen)
<1> DEFINE Goal(u) == \E step \in FirstSteps, seen \in Seen : Opening(r, u, step, seen)
<1>0. crossed \subseteq Users
  BY DEF TInv, TypeOK
<1> USE <1>0, NothingSeen, SignInAssumption DEF FirstSteps, Renews, Makers, FitsAt, Parts, Nothing, Has
<1>1. ASSUME NEW u \in Users, NEW p \in Passwords, Register(r, u, p)
      PROVE  Goal(u)
  <2>1. [Nothing EXCEPT !.pw = p] \in Seen
    BY DEF Seen, Nothing
  <2>2. Opening(r, u, "hash", [Nothing EXCEPT !.pw = p])
    BY <1>1 DEF Register, Opening
  <2> QED BY <2>1, <2>2
<1>2. ASSUME NEW u \in Users, NEW p \in Passwords, Login(r, u, p)
      PROVE  Goal(u)
  <2>v. [Nothing EXCEPT !.key = r, !.op = "login",
                                              !.acc = accounts[<<u, "email">>]] \in Seen
    BY DEF Seen, Tokens, Operations, TInv, TypeOK
  <2>1. PICK v \in Seen : v = [Nothing EXCEPT !.key = r, !.op = "login",
                                              !.acc = accounts[<<u, "email">>]]
    BY <2>v
  <2>2. Opening(r, u, "account", v)
    BY <1>2, <2>1 DEF Login, Opening
  <2> QED BY <2>2
<1>3. ASSUME NEW u \in Users, NEW w \in Users, SendOtp(r, u, w)
      PROVE  Goal(u)
  <2>v. [Nothing EXCEPT !.to = w] \in Seen
    BY DEF Seen
  <2>1. PICK v \in Seen : v = [Nothing EXCEPT !.to = w]
    BY <2>v
  <2>2. Opening(r, u, "mail", v)
    BY <1>3, <2>1 DEF SendOtp, Opening
  <2> QED BY <2>1, <2>2
<1>30. ASSUME NEW u \in Users, SendOtpToNone(r, u)
       PROVE  Goal(u)
  <2>v. [Nothing EXCEPT !.to = u] \in Seen
    BY DEF Seen
  <2>1. PICK v \in Seen : v = [Nothing EXCEPT !.to = u]
    BY <2>v
  <2>2. Opening(r, u, "letter", v)
    BY <1>30, <2>1 DEF SendOtpToNone, Opening
  <2> QED BY <2>1, <2>2
<1>4. ASSUME NEW u \in Users, Refresh(r, u)
      PROVE  Goal(u)
  <2>v. [Nothing EXCEPT !.key = jar[u].refresh, !.op = "refresh"] \in Seen
    BY DEF Seen, Tokens, Operations, Account, TInv, TypeOK
  <2>1. PICK v \in Seen : v = [Nothing EXCEPT !.key = jar[u].refresh, !.op = "refresh"]
    BY <2>v
  <2>2. Own(u, jar[u].refresh) /\ stored[u] # None
    BY <1>4 DEF TInv, TokensAreOwn, AccountsStay, Refresh
  <2>3. Opening(r, u, "token", v)
    BY <1>4, <2>1, <2>2 DEF Refresh, Opening
  <2> QED BY <2>3
<1>5. ASSUME NEW u \in Users, ConnectBusiness(r, u)
      PROVE  Goal(u)
  <2>v. [Nothing EXCEPT !.op = "business"] \in Seen
    BY DEF Seen, Operations
  <2>1. PICK v \in Seen : v = [Nothing EXCEPT !.op = "business"]
    BY <2>v
  <2>2. Opening(r, u, "waba", v)
    BY <1>5, <2>1 DEF ConnectBusiness, Opening
  <2> QED BY <2>2
<1>6. ASSUME NEW u \in Users, NEW c \in Requests, NEW seen \in Seen, NEW next \in {"verify", "forgot"},
             Present(r, u, c, seen, next), UNCHANGED fresh, stored[u] # None,
             next = "forgot" => seen.pw \in Passwords /\ seen.acc = None,
             next = "verify" => seen.acc # None /\ seen.acc = accounts[<<u, "email">>]
                                /\ seen.id = None
      PROVE  Goal(u)
  <2>1. PICK i \in LatestUnused(u) :
          Begin(r, u, IF codes[u][i].late THEN "drop" ELSE "use",
                [seen EXCEPT !.code = codes[u][i].code, !.op = next])
    BY <1>6 DEF Present
  <2>2. codes[u][i].code \in Requests
    <3>1. codes[u] \in Seq(Code) /\ i \in DOMAIN codes[u]
      BY DEF LatestUnused, Unused, TInv, TypeOK
    <3>2. codes[u][i] \in Code
      BY <3>1, ElementOfSeq, LenProperties
    <3> QED BY <3>2 DEF Code
  <2>v. [seen EXCEPT !.code = codes[u][i].code, !.op = next] \in Seen
    BY <1>6, <2>2 DEF Seen, Tokens, Operations
  <2>3. PICK v \in Seen : v = [seen EXCEPT !.code = codes[u][i].code, !.op = next]
    BY <2>v
  <2>4. PICK s \in {"use", "drop"} : s = IF codes[u][i].late THEN "drop" ELSE "use"
    OBVIOUS
  <2>5. v.op = next /\ v.code = codes[u][i].code /\ v.acc = seen.acc /\ v.pw = seen.pw
        /\ v.id = seen.id
    BY <2>3 DEF Seen
  <2>6. FitsAt(s, v)
    BY <1>6, <2>2, <2>4, <2>5
  <2>7. Opening(r, u, s, v)
    BY <1>6, <2>1, <2>2, <2>3, <2>4, <2>5, <2>6 DEF Opening, Present
  <2> QED BY <2>7
<1>7. ASSUME NEW u \in Users, NEW c \in Requests, Verify(r, u, c)
      PROVE  Goal(u)
  <2>v. [Nothing EXCEPT !.acc = accounts[<<u, "email">>]] \in Seen
    BY DEF Seen, Tokens, Operations, TInv, TypeOK
  <2>1. PICK v \in Seen : v = [Nothing EXCEPT !.acc = accounts[<<u, "email">>]]
    BY <2>v
  <2>2. stored[u] # None
    BY <1>7 DEF Verify, TInv, AccountsStay
  <2>3. Present(r, u, c, v, "verify") /\ UNCHANGED fresh /\ v.acc # None /\ v.id = None
        /\ v.acc = accounts[<<u, "email">>]
    BY <1>7, <2>1 DEF Verify, Present
  <2> QED BY <1>6, <2>2, <2>3
<1>8. ASSUME NEW u \in Users, NEW c \in Requests, NEW p \in Passwords,
             NEW x \in Users \cup {None}, ForgotPassword(r, u, c, p, x)
      PROVE  Goal(u)
  <2>v. [Nothing EXCEPT !.pw = p, !.id = x] \in Seen
    BY DEF Seen
  <2>1. PICK v \in Seen : v = [Nothing EXCEPT !.pw = p, !.id = x]
    BY <2>v
  <2>2. Present(r, u, c, v, "forgot") /\ UNCHANGED fresh /\ v.acc = None /\ v.pw = p
    BY <1>8, <2>1 DEF ForgotPassword, Present
  <2>3. codes[u] # <<>>
    BY <2>2, EmptySeq DEF Present, LatestUnused, Unused
  <2>4. stored[u] # None
    BY <2>3 DEF TInv, AccountsStay
  <2> QED BY <1>6, <2>2, <2>4
<1>9. ASSUME NEW u \in Users, NEW old \in Passwords, NEW new \in Passwords,
             ChangePassword(r, u, old, new)
      PROVE  Goal(u)
  <2>v. [Nothing EXCEPT !.pw = new] \in Seen
    BY DEF Seen
  <2>1. PICK v \in Seen : v = [Nothing EXCEPT !.pw = new]
    BY <2>v
  <2>2. Opening(r, u, "plain", v)
    BY <1>9, <2>1 DEF ChangePassword, Opening
  <2> QED BY <2>2
<1>10. ASSUME NEW u \in Users, NEW p \in Providers, OAuth(r, u, p)
       PROVE  Goal(u)
  <2>1. p = "google" \/ p = "facebook"
    BY <1>10 DEF OAuth
  <2> DEFINE Way == IF p = "google" THEN Google(r, u) ELSE Facebook(r, u)
  <2>2. Way[2] \in Tokens
    <3>1. accounts[<<u, p>>] \in Account \cup {None}
      BY DEF TInv, TypeOK
    <3>2. CASE p = "google"
      BY <3>2 DEF Google, Tokens, Way
    <3>3. CASE p = "facebook"
      BY <3>1, <3>3 DEF Facebook, Account, Tokens, Way
    <3> QED BY <2>1, <3>2, <3>3
  <2> HIDE DEF Way
  <2>0. PICK way : way = Way /\ way[2] \in Tokens
    BY <2>2
  <2>v. [Nothing EXCEPT !.op = "oauth", !.by = p, !.key = way[2]] \in Seen
    BY <2>0 DEF Seen, Operations
  <2>3. PICK v \in Seen : v = [Nothing EXCEPT !.op = "oauth", !.by = p, !.key = way[2]]
    BY <2>v
  <2>4. way[1] \in {"user", "reuse", "token"} /\ (way[1] = "reuse" => p = "google" /\ Has(u, "google"))
        /\ (way[1] = "token" => p = "facebook" /\ Has(u, "facebook")
                             /\ way[2] = accounts[<<u, "facebook">>].refresh)
    BY <1>10, <2>0 DEF Way, Google, Facebook, OAuth
  <2>5. way[1] # "user" => stored[u] # None
    BY <2>4 DEF TInv, AccountsStay
  <2>6. (way[1] = "token" => Own(u, way[2])) /\ (way[1] # "token" => way[2] = r)
    BY <1>10, <2>0, <2>4 DEF TInv, TokensAreOwn, Way, Google, Facebook
  <2>7. v.op = "oauth" /\ v.by = p /\ v.key = way[2] /\ v.acc = None /\ v.id = None
        /\ p # "email"
    BY <1>10, <2>3 DEF OAuth
  <2>8. FitsAt(way[1], v)
    BY <2>4, <2>7
  <2>9. Begin(r, u, way[1], v) /\ fresh' = fresh \ {u}
        /\ UNCHANGED <<rows, browser, mail, orphans, cut, crossed, bare, opened, spent>>
    BY <1>10, <2>0, <2>3 DEF Way, OAuth
  <2>10. Opening(r, u, way[1], v)
    BY <2>4, <2>5, <2>6, <2>7, <2>8, <2>9 DEF Opening
  <2> QED BY <2>4, <2>10
<1> HIDE DEF Goal
<1>11. \E u \in Users : Goal(u)
  BY <1>1, <1>2, <1>3, <1>30, <1>4, <1>5, <1>7, <1>8, <1>9, <1>10 DEF Starts
<1> QED BY <1>11 DEF Goal

\* The operations a request in progress goes on with.
Continues(r) ==
  \/ CreateUser(r) \/ LoginAccount(r) \/ FindToken(r) \/ AccessToken(r)
  \/ CreateCode(r) \/ OtpMailed(r) \/ DropLate(r) \/ UseCode(r)
  \/ ResetPassword(r) \/ StorePlain(r) \/ RefreshCookie(r)
  \/ OAuthUser(r) \/ OAuthAccount(r) \/ Redirect(r)
  \/ MakeWaba(r) \/ MakeIntegration(r) \/ MakeContents(r) \/ Fails(r)

\* What they have in common: it remembers what it has read until it is over.
LaterSteps == {"account", "token", "access", "row", "cookie", "reset", "redirect",
               "over"} \cup Parts
Moving(r, to, seen) ==
  /\ at[r] \notin {"new", "over"}
  /\ GoesWith(r, at[r], to, seen) /\ UNCHANGED <<of, orphans, serial, crossed>>
  /\ FitsAt(to, seen)
  /\ to = "over" => seen = Nothing
  /\ to # "over" =>
       /\ seen.acc = saw[r].acc /\ seen.key = saw[r].key /\ seen.code = saw[r].code
       /\ seen.op = saw[r].op \/ (at[r] = "account" /\ seen.op = "joined")
  /\ to = "access" => Has(of[r], seen.by)
  /\ to \notin {"access", "over"} => seen.by = saw[r].by
  /\ to \in Parts => at[r] \in {"access"} \cup Parts
  /\ to \in {"account", "token"} => at[r] \in {"user", "account", "reuse"}
  /\ to = "cookie" => at[r] = "access"
  /\ to = "redirect" => at[r] = "access" \/ (at[r] = "contents" /\ Joined(r))
  /\ at[r] = "row" => to = "over"

\* Makes the goal of a step that goes on without reading anything.
LEMMA MovesOn ==
  ASSUME TInv, NEW r \in Requests, NEW to \in LaterSteps, NEW from \in Steps \ {"new", "over"},
         Goes(r, from, to), UNCHANGED <<of, orphans, serial, crossed>>, to # "over",
         FitsAt(to, saw[r]), to \in {"account", "token"} => at[r] \in {"user", "account", "reuse"},
         to = "cookie" => at[r] = "access", to # "access", from # "row",
         to \in Parts => at[r] \in {"access"} \cup Parts,
         to = "redirect" => at[r] = "access" \/ (at[r] = "contents" /\ Joined(r))
  PROVE  Moving(r, to, saw[r]) /\ saw[r] \in Seen
<1>1. at[r] = from /\ GoesWith(r, at[r], to, saw[r])
  BY DEF Goes, GoesWith
<1>2. saw[r] \in Seen
  BY DEF TInv, TypeOK
<1> QED BY <1>1, <1>2 DEF Moving
\* Makes the goal of a step that ends.
LEMMA MovesToEnd ==
  ASSUME TInv, NEW r \in Requests, NEW from \in Steps \ {"new", "over"},
         Ends(r, from), UNCHANGED <<of, orphans, serial, crossed>>
  PROVE  Moving(r, "over", Nothing)
<1>1. FitsAt("over", Nothing)
  BY DEF FitsAt, Parts, Nothing
<1> QED BY <1>1 DEF Moving, Ends, GoesWith, Parts

\* Each of the eighteen is such a step.
LEMMA Movings ==
  ASSUME TInv, NEW r \in Requests, Continues(r)
  PROVE  \E to \in LaterSteps, seen \in Seen : Moving(r, to, seen)
<1> DEFINE Goal == \E to \in LaterSteps, seen \in Seen : Moving(r, to, seen)
<1>0. /\ "over" \in LaterSteps /\ Nothing \in Seen /\ Parts \subseteq LaterSteps
      /\ \A s \in LaterSteps : s \in Steps \ {"new"}
  BY NothingSeen DEF LaterSteps, Steps, Parts
<1>a. FitsAt(at[r], saw[r])
  BY DEF TInv, StepsFit
<1>1. ASSUME NEW from \in Steps \ {"new", "over"}, Ends(r, from), UNCHANGED <<of, orphans, serial, crossed>>
      PROVE  Goal
  BY <1>0, <1>1, MovesToEnd
<1>2. CASE \/ CreateUser(r) \/ CreateCode(r) \/ DropLate(r) \/ ResetPassword(r) \/ StorePlain(r)
           \/ RefreshCookie(r) \/ Redirect(r)
  BY <1>1, <1>2 DEF CreateUser, CreateCode, DropLate, ResetPassword, StorePlain, WritePassword,
     RefreshCookie, Redirect, Steps, observers
<1>3. CASE Fails(r)
  <2>1. at[r] \in Steps \ {"new", "over"}
    BY <1>3 DEF Fails, InProgress, TInv, TypeOK
  <2> QED BY <1>1, <1>3, <2>1 DEF Fails
<1>4. CASE LoginAccount(r)
  <2>1. Ends(r, "account") \/ Goes(r, "account", "token")
    BY <1>4 DEF LoginAccount
  <2>2. FitsAt("token", saw[r]) /\ at[r] = "account"
    BY <1>a, <1>4 DEF LoginAccount, FitsAt, Parts
  <2> QED BY <1>1, <1>4, <2>1, <2>2, MovesOn DEF LoginAccount, observers, Steps, LaterSteps, Parts
<1>5. CASE FindToken(r)
  <2>1. CASE Ends(r, "token")
    BY <1>1, <1>5, <2>1 DEF FindToken, observers, Steps
  <2>2. CASE ~Ends(r, "token")
    <3>0. PICK k \in HolderOf("refresh", saw[r].key) :
            GoesWith(r, "token", "access", [saw[r] EXCEPT !.by = k[2]])
      BY <1>5, <2>2 DEF FindToken
    <3>1. k \in Users \X Providers /\ GoesWith(r, "token", "access", [saw[r] EXCEPT !.by = k[2]])
      BY <3>0 DEF HolderOf
    <3>2. k[2] \in Providers /\ saw[r] \in Seen
      BY <3>1 DEF TInv, TypeOK
    <3>3. PICK v \in Seen : v = [saw[r] EXCEPT !.by = k[2]]
      BY <3>2 DEF Seen
    <3>4. v.acc = saw[r].acc /\ v.key = saw[r].key /\ v.code = saw[r].code /\ v.op = saw[r].op
          /\ v.id = saw[r].id
      BY <3>2, <3>3 DEF Seen
    <3>5. FitsAt("access", v)
      BY <1>a, <3>1, <3>4 DEF FitsAt, GoesWith, Parts
    <3>6. /\ at[r] = "token" /\ GoesWith(r, at[r], "access", v)
          /\ UNCHANGED <<of, orphans, serial, crossed>>
      BY <1>5, <3>1, <3>3 DEF GoesWith, FindToken, observers
    <3>7. Has(of[r], v.by)
      <4>1. v.by = k[2]
        BY <3>2, <3>3 DEF Seen
      <4>2. PICK u \in Users, p \in Providers : /\ k = <<u, p>> /\ Has(u, p)
                                            /\ accounts[k].refresh = saw[r].key
        <5>1. k \in HolderOf("refresh", saw[r].key)
          BY <3>0
        <5> QED BY <5>1 DEF HolderOf, Has
      <4>3. Own(u, saw[r].key) /\ Own(of[r], saw[r].key)
        BY <3>6, <4>2 DEF TInv, TokensAreOwn
      <4> QED BY <4>1, <4>2, <4>3 DEF Own
    <3>8. Moving(r, "access", v)
      BY <3>4, <3>5, <3>6, <3>7 DEF Moving, Parts
    <3> QED BY <3>8 DEF LaterSteps
  <2> QED BY <2>1, <2>2
<1>6. CASE AccessToken(r)
  <2>1. PICK to \in {"row", "cookie", "waba", "redirect"} :
          /\ Goes(r, "access", to) /\ (to = "row" <=> saw[r].op = "login")
          /\ (to = "cookie" <=> saw[r].op = "refresh") /\ (to = "waba" <=> saw[r].op = "joined")
    BY <1>6 DEF AccessToken
  <2>2. at[r] = "access" /\ FitsAt(to, saw[r])
    BY <1>a, <2>1 DEF FitsAt, Goes, GoesWith, Parts
  <2> QED BY <1>6, <2>1, <2>2, MovesOn DEF AccessToken, observers, Steps, LaterSteps, Parts
<1>7. CASE OtpMailed(r)
  <2>1. CASE Ends(r, "letter")
    BY <1>1, <1>7, <2>1 DEF OtpMailed, observers, Steps
  <2>2. CASE Goes(r, "mail", "row")
    <3>1. at[r] = "mail" /\ FitsAt("row", saw[r])
      BY <1>a, <2>2 DEF FitsAt, Goes, GoesWith, Parts
    <3> QED BY <1>7, <2>2, <3>1, MovesOn DEF OtpMailed, observers, Steps, LaterSteps, Parts
  <2> QED BY <1>7, <2>1, <2>2 DEF OtpMailed
<1>8. CASE UseCode(r)
  <2>1. CASE Ends(r, "use")
    BY <1>1, <1>8, <2>1 DEF UseCode, Steps
  <2>2. CASE Goes(r, "use", "reset") /\ saw[r].op = "forgot"
    <3>1. FitsAt("reset", saw[r])
      BY <1>a, <2>2 DEF FitsAt, Goes, GoesWith, Parts
    <3> QED BY <1>8, <2>2, <3>1, MovesOn DEF UseCode, Steps, LaterSteps, Parts
  <2> QED BY <1>8, <2>1, <2>2 DEF UseCode
<1>9. CASE OAuthUser(r)
  <2>1. at[r] = "user" /\ (Ends(r, "user") \/ Goes(r, "user", "account"))
    BY <1>9 DEF OAuthUser
  <2>2. FitsAt("account", saw[r])
    BY <1>a, <2>1 DEF FitsAt, Parts
  <2> QED BY <1>1, <1>9, <2>1, <2>2, MovesOn DEF OAuthUser, observers, Steps, LaterSteps, Parts
<1>10. CASE OAuthAccount(r)
  <2>1. at[r] \in {"account", "reuse"} /\ saw[r].op = "oauth" /\ saw[r] \in Seen
    BY <1>10 DEF OAuthAccount, TInv, TypeOK
  <2>2. CASE Ends(r, "account")
    BY <1>1, <1>10, <2>2 DEF OAuthAccount, observers, Steps
  <2>3. CASE Goes(r, at[r], "token")
    <3>1. FitsAt("token", saw[r])
      BY <1>a, <2>1 DEF FitsAt, Parts
    <3> QED BY <1>10, <2>1, <2>3, <3>1, MovesOn DEF OAuthAccount, observers, Steps, LaterSteps, Parts
  <2>4. CASE at[r] = "account" /\ GoesWith(r, at[r], "token", [saw[r] EXCEPT !.op = "joined"])
    <3>1. PICK v \in Seen : v = [saw[r] EXCEPT !.op = "joined"]
      BY <2>1 DEF Seen, Operations
    <3>2. /\ v.acc = saw[r].acc /\ v.key = saw[r].key /\ v.code = saw[r].code /\ v.op = "joined"
          /\ v.by = saw[r].by /\ v.id = saw[r].id
      BY <2>1, <3>1 DEF Seen
    <3>3. FitsAt("token", v)
      BY <1>a, <2>1, <3>2 DEF FitsAt, Parts
    <3>4. Moving(r, "token", v)
      BY <1>10, <2>1, <2>4, <3>1, <3>2, <3>3 DEF OAuthAccount, observers, Moving, GoesWith, Parts
    <3> QED BY <3>4 DEF LaterSteps
  <2> QED BY <1>10, <2>1, <2>2, <2>3, <2>4 DEF OAuthAccount, Goes
<1>11. CASE MakeWaba(r) \/ MakeIntegration(r)
  <2>1. at[r] \in Parts /\ FitsAt("integration", saw[r]) /\ FitsAt("contents", saw[r])
    BY <1>a, <1>11 DEF MakeWaba, MakeIntegration, Parts, FitsAt
  <2>2. \/ Ends(r, at[r]) \/ Goes(r, at[r], "integration") \/ Goes(r, at[r], "contents")
    BY <1>11 DEF MakeWaba, MakeIntegration
  <2>3. UNCHANGED <<of, orphans, serial, crossed>>
    BY <1>11 DEF MakeWaba, MakeIntegration, observers
  <2> QED BY <1>1, <2>1, <2>2, <2>3, MovesOn DEF Steps, LaterSteps, Parts
<1>12. CASE MakeContents(r)
  <2>1. at[r] = "contents" /\ (Ends(r, at[r]) \/ (saw[r].op = "joined" /\ Goes(r, at[r], "redirect")))
    BY <1>12 DEF MakeContents, Goes, Ends, GoesWith
  <2>2. saw[r].op = "joined" => FitsAt("redirect", saw[r])
    BY <1>a DEF FitsAt, Parts
  <2> QED BY <1>1, <1>12, <2>1, <2>2, MovesOn DEF MakeContents, observers, Steps, Parts, LaterSteps, Joined
<1> QED BY <1>2, <1>3, <1>4, <1>5, <1>6, <1>7, <1>8, <1>9, <1>10, <1>11, <1>12 DEF Continues

-----------------------------------------------------------------------------
(* Types                                                                   *)

\* A list without its row at i.
LEMMA Removed ==
  ASSUME NEW S, NEW s \in Seq(S), NEW i \in DOMAIN s
  PROVE  /\ RemoveAt(s, i) \in Seq(S)
         /\ DOMAIN RemoveAt(s, i) = 1..(Len(s) - 1) /\ DOMAIN s = 1..Len(s)
         /\ \A j \in DOMAIN RemoveAt(s, i) :
              RemoveAt(s, i)[j] = s[IF j < i THEN j ELSE j + 1]
<1>1. Len(s) \in Nat /\ i \in 1..Len(s) /\ DOMAIN s = 1..Len(s) /\ \A j \in 1..Len(s) : s[j] \in S
  BY LenProperties, ElementOfSeq
<1>2. /\ SubSeq(s, 1, i - 1) \in Seq(S) /\ Len(SubSeq(s, 1, i - 1)) = i - 1
      /\ \A j \in 1..(i - 1) : SubSeq(s, 1, i - 1)[j] = s[j]
  BY <1>1, SubSeqProperties, Z3
<1>3. /\ SubSeq(s, i + 1, Len(s)) \in Seq(S) /\ Len(SubSeq(s, i + 1, Len(s))) = Len(s) - i
      /\ \A j \in 1..(Len(s) - i) : SubSeq(s, i + 1, Len(s))[j] = s[j + i]
  BY <1>1, SubSeqProperties, Z3
<1>4. PICK a \in Seq(S), b \in Seq(S) : a = SubSeq(s, 1, i - 1) /\ b = SubSeq(s, i + 1, Len(s))
  BY <1>2, <1>3
<1>5. /\ a \o b \in Seq(S) /\ Len(a \o b) = Len(a) + Len(b)
      /\ \A j \in 1..(Len(a) + Len(b)) : (a \o b)[j] = IF j <= Len(a) THEN a[j] ELSE b[j - Len(a)]
  BY ConcatProperties
<1>6. /\ Len(a \o b) = Len(s) - 1
      /\ \A j \in 1..(Len(s) - 1) : (a \o b)[j] = s[IF j < i THEN j ELSE j + 1]
  <2>1. Len(a) = i - 1 /\ Len(b) = Len(s) - i /\ Len(a) + Len(b) = Len(s) - 1
    <3>1. Len(a) = i - 1
      BY <1>2, <1>4
    <3>2. Len(b) = Len(s) - i
      BY <1>3, <1>4
    <3> QED BY <1>1, <3>1, <3>2
  <2>2. ASSUME NEW j \in 1..(Len(s) - 1)
        PROVE  (a \o b)[j] = s[IF j < i THEN j ELSE j + 1]
    <3>1. CASE j < i
      <4>1. j <= Len(a) /\ j \in 1..(i - 1)
        BY <1>1, <2>1, <3>1
      <4>2. a[j] = s[j]
        BY <1>2, <1>4, <4>1
      <4> QED BY <1>5, <2>1, <3>1, <4>1, <4>2
    <3>2. CASE ~(j < i)
      <4>1. ~(j <= Len(a)) /\ j - Len(a) \in 1..(Len(s) - i) /\ j - Len(a) + i = j + 1
        BY <1>1, <2>1, <3>2
      <4>2. b[j - Len(a)] = s[j - Len(a) + i]
        BY <1>3, <1>4, <4>1
      <4> QED BY <1>5, <2>1, <3>2, <4>1, <4>2
    <3> QED BY <3>1, <3>2
  <2> QED BY <1>5, <2>1, <2>2
<1>7. RemoveAt(s, i) = a \o b
  BY <1>4 DEF RemoveAt
<1>8. DOMAIN (a \o b) = 1..(Len(s) - 1)
  BY <1>5, <1>6, LenProperties
<1> QED BY <1>1, <1>5, <1>6, <1>7, <1>8

\* A list with one row more.
LEMMA Appended ==
  ASSUME NEW S, NEW s \in Seq(S), NEW e \in S
  PROVE  /\ Append(s, e) \in Seq(S)
         /\ DOMAIN s = 1..Len(s) /\ Len(s) \in Nat
         /\ DOMAIN Append(s, e) = 1..(Len(s) + 1)
         /\ \A j \in DOMAIN s : Append(s, e)[j] = s[j]
         /\ Append(s, e)[Len(s) + 1] = e
<1>1. Append(s, e) \in Seq(S) /\ Len(Append(s, e)) = Len(s) + 1
  BY AppendProperties
<1>2. DOMAIN s = 1..Len(s) /\ Len(s) \in Nat /\ DOMAIN Append(s, e) = 1..(Len(s) + 1)
  BY <1>1, LenProperties
<1> QED BY <1>1, <1>2, AppendProperties

\* A list whose rows are replaced in place.
LEMMA Replaced ==
  ASSUME NEW S, NEW s \in Seq(S), NEW f \in [DOMAIN s -> S]
  PROVE  f \in Seq(S) /\ DOMAIN f = DOMAIN s
<1>1. DOMAIN s = 1..Len(s) /\ Len(s) \in Nat
  BY LenProperties
<1> QED BY <1>1, IsASeq

\* The lists of codes hold codes, and a code once.
Once(s) == \A i, j \in DOMAIN s : s[i].code = s[j].code => i = j

\* Three operations change the codes.
LEMMA CodesChange ==
  ASSUME NEW r \in Requests, Continues(r), codes' # codes
  PROVE  CreateCode(r) \/ DropLate(r) \/ UseCode(r)
BY DEF Continues, CreateUser, LoginAccount, FindToken, AccessToken, OtpMailed,
   ResetPassword, StorePlain, WritePassword, RefreshCookie, OAuthUser, OAuthAccount, Redirect,
   MakeWaba, MakeIntegration, MakeContents, Fails, rows

\* A step of a request keeps the lists so.
LEMMA CodesType ==
  ASSUME TInv, NEW r \in Requests, Continues(r)
  PROVE  codes' \in [Users -> Seq(Code)] /\ \A u \in Users : Once(codes'[u])
<1>1. codes \in [Users -> Seq(Code)] /\ \A u \in Users : Once(codes[u])
  BY DEF TInv, TypeOK, Once
<1>2. PICK w \in Users : w = of[r]
  BY Movings, GoesStep DEF TInv, TypeOK, Moving
<1>3. codes[w] \in Seq(Code) /\ Once(codes[w])
  BY <1>1
<1>4. ASSUME NEW s \in Seq(Code), Once(s), codes' = [codes EXCEPT ![w] = s]
      PROVE  codes' \in [Users -> Seq(Code)] /\ \A u \in Users : Once(codes'[u])
  BY <1>1, <1>4
<1>5. CASE CreateCode(r)
  <2>1. PICK e \in Code : e = [code |-> r, used |-> FALSE, late |-> FALSE]
    <3>1. [code |-> r, used |-> FALSE, late |-> FALSE] \in Code
      BY Zenon DEF Code
    <3> QED BY <3>1
  <2>2. at[r] = "row" /\ codes' \in {codes, [codes EXCEPT ![w] = Append(@, e)]}
    BY <1>2, <1>5, <2>1 DEF CreateCode, Ends, GoesWith
  <2>3. PICK s \in Seq(Code) : s = Append(codes[w], e)
    BY <1>3, Appended
  <2>4. \A i \in DOMAIN codes[w] : codes[w][i].code # r
    BY <2>2 DEF TInv, CodesAreOwn
  <2>5. e.code = r
    BY <2>1
  <2>6. Once(s)
    BY <1>3, <2>3, <2>4, <2>5, Appended DEF Once
  <2> QED BY <1>1, <1>4, <2>2, <2>3, <2>6
<1>6. CASE DropLate(r)
  <2>1. \/ codes' = codes
        \/ \E i \in DOMAIN codes[w] : codes' = [codes EXCEPT ![w] = RemoveAt(codes[w], i)]
    BY <1>2, <1>6 DEF DropLate, RowsOf
  <2>2. ASSUME NEW i \in DOMAIN codes[w]
        PROVE  RemoveAt(codes[w], i) \in Seq(Code) /\ Once(RemoveAt(codes[w], i))
    <3>1. PICK s : s = RemoveAt(codes[w], i)
      OBVIOUS
    <3>2. /\ s \in Seq(Code) /\ DOMAIN s = 1..(Len(codes[w]) - 1)
          /\ DOMAIN codes[w] = 1..Len(codes[w]) /\ Len(codes[w]) \in Nat
          /\ \A j \in DOMAIN s : s[j] = codes[w][IF j < i THEN j ELSE j + 1]
      BY <1>3, <3>1, Removed, LenProperties
    <3>3. ASSUME NEW j \in DOMAIN s, NEW k \in DOMAIN s, s[j].code = s[k].code
          PROVE  j = k
      <4>1. PICK x \in DOMAIN codes[w], y \in DOMAIN codes[w] :
              /\ x = (IF j < i THEN j ELSE j + 1) /\ y = (IF k < i THEN k ELSE k + 1)
              /\ s[j] = codes[w][x] /\ s[k] = codes[w][y]
        BY <3>2
      <4>2. x = y
        BY <1>3, <3>3, <4>1 DEF Once
      <4> QED BY <3>2, <4>1, <4>2
    <3>4. Once(s)
      BY <3>3 DEF Once
    <3> QED BY <3>1, <3>2, <3>4
  <2> QED BY <1>1, <1>4, <2>1, <2>2
<1>7. CASE UseCode(r)
  <2>1. codes' = [codes EXCEPT ![w] = MarkUsed(codes[w], saw[r].code)]
    BY <1>2, <1>7 DEF UseCode
  <2>2. PICK s : s = MarkUsed(codes[w], saw[r].code)
    OBVIOUS
  <2>3. \A i \in DOMAIN codes[w] : codes[w][i] \in Code
    BY <1>3, LenProperties, ElementOfSeq
  <2>4. s \in [DOMAIN codes[w] -> Code] /\ \A i \in DOMAIN codes[w] : s[i].code = codes[w][i].code
    <3>1. \A i \in DOMAIN codes[w] : s[i] = [codes[w][i] EXCEPT !.used = @ \/ codes[w][i].code = saw[r].code]
      BY <2>2 DEF MarkUsed
    <3>2. ASSUME NEW i \in DOMAIN codes[w]
          PROVE  s[i] \in Code /\ s[i].code = codes[w][i].code
      <4>1. PICK c \in Code : c = codes[w][i]
        BY <2>3
      <4>2. PICK b \in BOOLEAN : s[i] = [c EXCEPT !.used = b]
        <5>1. (c.used \/ c.code = saw[r].code) \in BOOLEAN
          OBVIOUS
        <5>2. s[i] = [c EXCEPT !.used = (c.used \/ c.code = saw[r].code)]
          BY <3>1, <4>1
        <5> QED BY <5>1, <5>2
      <4>3. [c EXCEPT !.used = b] \in Code /\ [c EXCEPT !.used = b].code = c.code
        BY <4>1, <4>2, Zenon DEF Code
      <4> QED BY <4>1, <4>2, <4>3
    <3>3. s = [i \in DOMAIN codes[w] |-> s[i]]
      BY <2>2 DEF MarkUsed
    <3> QED BY <3>2, <3>3
  <2>5. s \in Seq(Code) /\ DOMAIN s = DOMAIN codes[w]
    BY <1>3, <2>4, Replaced
  <2>6. Once(s)
    BY <1>3, <2>4, <2>5 DEF Once
  <2> QED BY <1>4, <2>1, <2>2, <2>5, <2>6
<1>8. CASE ~(CreateCode(r) \/ DropLate(r) \/ UseCode(r))
  BY <1>1, <1>8, CodesChange
<1> QED BY <1>5, <1>6, <1>7, <1>8

\* A row is made or replaced.
LEMMA StoredChange ==
  ASSUME TInv, NEW r \in Requests, Continues(r)
  PROVE  \/ stored' = stored
         \/ \E u \in Users, e \in Stored :
              /\ stored' = [stored EXCEPT ![u] = e]
              /\ u = of[r] \/ (at[r] = "reset" /\ stored[u] # None /\ e.pw # None)
<1>1. stored \in [Users -> Stored \cup {None}] /\ saw[r].pw \in Passwords \cup {None}
  BY DEF TInv, TypeOK, Seen
<1>2. ASSUME NEW p \in Passwords \cup {None}, NEW h \in BOOLEAN
      PROVE  [pw |-> p, hashed |-> h] \in Stored
  BY Zenon DEF Stored
<1>3. PICK x \in Stored, y \in Stored, z \in Stored :
        /\ x = Hashed(saw[r].pw) /\ y = [pw |-> saw[r].pw, hashed |-> FALSE]
        /\ z = [pw |-> None, hashed |-> FALSE]
  BY <1>1, <1>2 DEF Hashed
<1>a. of[r] \in Users
  BY Movings, GoesStep DEF TInv, TypeOK, Moving
<1>4. CASE CreateUser(r)
  BY <1>a, <1>3, <1>4 DEF CreateUser
<1>5. CASE ResetPassword(r)
  <2>1. at[r] = "reset" /\ saw[r].pw # None /\ x.pw = saw[r].pw
    BY <1>3, <1>5, SignInAssumption DEF ResetPassword, WritePassword, Ends, GoesWith, Hashed,
       TInv, StepsFit, FitsAt
  <2>2. stored' = stored \/ (/\ saw[r].id # None /\ stored[saw[r].id] # None
                            /\ stored' = [stored EXCEPT ![saw[r].id] = x])
    BY <1>3, <1>5 DEF ResetPassword, WritePassword
  <2>3. saw[r].id \in Users \cup {None}
    BY DEF TInv, TypeOK, Seen
  <2> QED BY <2>1, <2>2, <2>3
<1>8. CASE StorePlain(r)
  BY <1>a, <1>3, <1>8 DEF StorePlain, WritePassword
<1>6. CASE OAuthUser(r)
  BY <1>a, <1>3, <1>6 DEF OAuthUser
<1>7. CASE ~(CreateUser(r) \/ ResetPassword(r) \/ StorePlain(r) \/ OAuthUser(r))
  BY <1>7 DEF Continues, LoginAccount, FindToken, AccessToken, CreateCode, OtpMailed, DropLate,
     UseCode, RefreshCookie, OAuthAccount, Redirect, MakeWaba, MakeIntegration, MakeContents,
     Fails, rows
<1> QED BY <1>4, <1>5, <1>6, <1>7, <1>8

\* An account is a pair of tokens, each of which can be replaced.
LEMMA AccountsAre ==
  /\ \A a, b \in Tokens : /\ [refresh |-> a, access |-> b] \in Account
                         /\ [refresh |-> a, access |-> b].refresh = a
                         /\ [refresh |-> a, access |-> b].access = b
  /\ \A e \in Account, a \in Tokens :
       /\ [e EXCEPT !.refresh = a] \in Account /\ [e EXCEPT !.refresh = a].refresh = a
       /\ [e EXCEPT !.refresh = a].access = e.access
       /\ [e EXCEPT !.access = a] \in Account /\ [e EXCEPT !.access = a].access = a
       /\ [e EXCEPT !.access = a].refresh = e.refresh
  /\ \A e \in Account : e.refresh \in Tokens /\ e.access \in Tokens
  BY DEF Account

\* An account is made, or one of its tokens replaced.
LEMMA AccountsChange ==
  ASSUME TInv, NEW r \in Requests, Continues(r)
  PROVE  /\ of[r] \in Users
         /\ \/ accounts' = accounts
            \/ \E p \in Providers, e \in Account :
                 /\ accounts' = [accounts EXCEPT ![<<of[r], p>>] = e]
                 /\ e.refresh \in {r, accounts[<<of[r], p>>].refresh}
                 /\ e.refresh # r => Has(of[r], p)
                 /\ Has(of[r], p) \/ HasRow(r)
<1>1. of[r] \in Users /\ saw[r] \in Seen /\ r \in Tokens /\ None \in Tokens
  BY Movings, GoesStep DEF TInv, TypeOK, Moving, Tokens
<1>2. \A p \in Providers : accounts[<<of[r], p>>] \in Account \cup {None}
  BY <1>1 DEF TInv, TypeOK
<1>3. CASE LoginAccount(r)
  <2>1. CASE accounts' = accounts
    BY <1>1, <2>1
  <2>2. CASE /\ saw[r].acc # None
             /\ accounts' = [accounts EXCEPT ![<<of[r], "email">>] = [@ EXCEPT !.refresh = r]]
    <3>1. Has(of[r], "email")
      BY <2>2 DEF TInv, AccountsStay
    <3>2. PICK e \in Account : e = [accounts[<<of[r], "email">>] EXCEPT !.refresh = r]
      BY <1>1, <1>2, <3>1, SignInAssumption DEF Has, Account
    <3>3. accounts' = [accounts EXCEPT ![<<of[r], "email">>] = e] /\ e.refresh = r
      BY <1>1, <1>2, <2>2, <3>1, <3>2, SignInAssumption DEF Has, Account
    <3> QED BY <1>1, <3>1, <3>3, SignInAssumption
  <2>3. CASE /\ HasRow(r)
             /\ accounts' = [accounts EXCEPT ![<<of[r], "email">>] = [refresh |-> r, access |-> None]]
    <3>1. PICK e \in Account : e = [refresh |-> r, access |-> None] /\ e.refresh = r
      BY <1>1, AccountsAre
    <3> QED BY <1>1, <2>3, <3>1, SignInAssumption
  <2> QED BY <1>3, <2>1, <2>2, <2>3 DEF LoginAccount
<1>4. CASE AccessToken(r)
  <2>1. Has(of[r], saw[r].by) /\ saw[r].by \in Providers
    BY <1>1, <1>4 DEF AccessToken, Goes, GoesWith, TInv, AccountsStay, Seen
  <2>2. PICK e \in Account : e = [accounts[<<of[r], saw[r].by>>] EXCEPT !.access = r]
    BY <1>1, <1>2, <2>1 DEF Has, Account
  <2>3. e.refresh = accounts[<<of[r], saw[r].by>>].refresh
    BY <1>2, <2>1, <2>2 DEF Has, Account
  <2>4. accounts' = [accounts EXCEPT ![<<of[r], saw[r].by>>] = e]
    BY <1>4, <2>2 DEF AccessToken, StoreToken
  <2> QED BY <1>1, <2>1, <2>3, <2>4
<1>5. CASE OAuthAccount(r)
  <2>1. saw[r].by \in Providers /\ (at[r] = "reuse" => Has(of[r], saw[r].by))
    BY <1>1 DEF TInv, AccountsStay, StepsFit, FitsAt, Seen
  <2>2. CASE accounts' = accounts
    BY <1>1, <2>2
  <2>3. CASE accounts' # accounts
    <3>1. PICK a \in Account \cup {None} : a = accounts[<<of[r], saw[r].by>>]
      BY <1>2, <2>1
    <3>2. PICK e \in Account : e = [refresh |-> r, access |-> IF a = None THEN None ELSE a.access]
                            /\ e.refresh = r
      <4>1. (IF a = None THEN None ELSE a.access) \in Tokens
        BY <1>1, <3>1, AccountsAre
      <4> QED BY <1>1, <4>1, AccountsAre
    <3>3. accounts' = [accounts EXCEPT ![<<of[r], saw[r].by>>] = e]
      BY <1>5, <2>3, <3>1, <3>2 DEF OAuthAccount, AccountKey
    <3>4. HasRow(r) \/ at[r] = "reuse"
      BY <1>5, <2>3 DEF OAuthAccount
    <3> QED BY <1>1, <2>1, <3>2, <3>3, <3>4
  <2> QED BY <2>2, <2>3
<1>6. CASE ~(LoginAccount(r) \/ AccessToken(r) \/ OAuthAccount(r))
  BY <1>1, <1>6 DEF Continues, CreateUser, FindToken, CreateCode, OtpMailed, DropLate,
     UseCode, ResetPassword, StorePlain, WritePassword, RefreshCookie, OAuthUser, Redirect,
     MakeWaba, MakeIntegration, MakeContents, Fails, rows
<1> QED BY <1>3, <1>4, <1>5, <1>6

\* A user's browser gets the tokens of an account, or a new access token.
LEMMA JarChange ==
  ASSUME TInv, NEW r \in Requests, Continues(r)
  PROVE  \/ jar' = jar
         \/ \E c \in Account :
              /\ jar' = [jar EXCEPT ![of[r]] = c]
              /\ c.refresh = jar[of[r]].refresh \/ Own(of[r], c.refresh)
              /\ c.refresh = jar[of[r]].refresh \/ \E p \in Providers : Has(of[r], p)
<1>1. of[r] \in Users /\ saw[r] \in Seen /\ r \in Tokens
  BY Movings, GoesStep DEF TInv, TypeOK, Moving, Tokens
<1>2. jar[of[r]] \in Account
  BY <1>1 DEF TInv, TypeOK
<1>3. CASE UseCode(r)
  <2>1. CASE jar' = jar
    BY <2>1
  <2>2. CASE jar' = [jar EXCEPT ![of[r]] = saw[r].acc] /\ saw[r].op = "verify"
    <3>1. saw[r].acc # None
      BY <1>3, <2>2 DEF UseCode, Ends, GoesWith, TInv, StepsFit, FitsAt
    <3>2. saw[r].acc \in Account /\ Own(of[r], saw[r].acc.refresh) /\ Has(of[r], "email")
      BY <1>1, <3>1, SignInAssumption DEF Seen, TInv, TokensAreOwn, AccountsStay
    <3> QED BY <2>2, <3>2, SignInAssumption
  <2> QED BY <1>3, <2>1, <2>2 DEF UseCode, HandOut
<1>4. CASE RefreshCookie(r)
  <2>1. PICK c \in Account : c = [jar[of[r]] EXCEPT !.access = r] /\ c.refresh = jar[of[r]].refresh
    BY <1>1, <1>2, AccountsAre
  <2> QED BY <1>1, <1>4, <2>1 DEF RefreshCookie
<1>5. CASE Redirect(r)
  <2>1. saw[r].by \in Providers /\ Has(of[r], saw[r].by)
    BY <1>1, <1>5 DEF Redirect, Ends, GoesWith, TInv, AccountsStay, Seen
  <2>2. PICK c \in Account : c = accounts[<<of[r], saw[r].by>>]
    BY <1>1, <2>1 DEF Has, TInv, TypeOK
  <2>3. Own(of[r], c.refresh)
    BY <1>1, <2>1, <2>2 DEF TInv, TokensAreOwn, Has
  <2> QED BY <1>5, <2>1, <2>2, <2>3 DEF Redirect
<1>6. CASE ~(UseCode(r) \/ RefreshCookie(r) \/ Redirect(r))
  BY <1>6 DEF Continues, CreateUser, LoginAccount, FindToken, AccessToken, CreateCode, OtpMailed,
     DropLate, ResetPassword, StorePlain, WritePassword, OAuthUser, OAuthAccount,
     MakeWaba, MakeIntegration, MakeContents, Fails, browser
<1> QED BY <1>3, <1>4, <1>5, <1>6

\* The other variables keep their types, ...
LEMMA OthersType ==
  ASSUME TInv, NEW r \in Requests, Continues(r)
  PROVE  /\ business' \in [Users -> SUBSET Parts]
         /\ newest' \in [Users -> Tokens] /\ received' \in [Users -> SUBSET Requests]
         /\ mail' \cup orphans' \cup spent' \subseteq Requests
         /\ serial' \cup cut' \cup crossed' \cup bare' \cup fresh' \subseteq Users
         /\ opened' \in [Requests -> Nat]
<1>1. of[r] \in Users /\ saw[r] \in Seen /\ r \in Tokens
  BY Movings, GoesStep DEF TInv, TypeOK, Moving, Tokens
<1>2. /\ business \in [Users -> SUBSET Parts]
      /\ newest \in [Users -> Tokens] /\ received \in [Users -> SUBSET Requests]
      /\ mail \cup orphans \cup spent \subseteq Requests
      /\ serial \cup cut \cup crossed \cup bare \cup fresh \subseteq Users
      /\ opened \in [Requests -> Nat]
  BY DEF TInv, TypeOK
<1>3. CASE MakeWaba(r) \/ MakeIntegration(r) \/ MakeContents(r)
  <2>1. at[r] \in Parts
    BY <1>3 DEF MakeWaba, MakeIntegration, MakeContents, Goes, Ends, GoesWith, Parts
  <2>2. business' \in {business, Made(r)} /\ bare' \in {bare, bare \cup {of[r]}}
    BY <1>3 DEF MakeWaba, MakeIntegration, MakeContents, NewContents, observers
  <2>3. business' \in [Users -> SUBSET Parts]
    BY <1>1, <1>2, <2>1, <2>2 DEF Made
  <2> QED BY <1>1, <1>2, <1>3, <2>2, <2>3 DEF MakeWaba, MakeIntegration, MakeContents, browser, observers
<1>4. CASE OtpMailed(r)
  <2>1. saw[r].to \in Users
    BY <1>4 DEF OtpMailed, Goes, Ends, GoesWith, TInv, StepsFit, FitsAt
  <2> QED BY <1>1, <1>2, <1>4, <2>1 DEF OtpMailed, Delivered, rows, observers
<1>5. CASE DropLate(r) \/ UseCode(r)
  <2>1. saw[r].code \in Requests
    <3>1. at[r] \in {"use", "drop"}
      BY <1>5 DEF DropLate, UseCode, Goes, Ends, GoesWith
    <3>2. saw[r].code # None
      BY <3>1 DEF TInv, StepsFit, FitsAt
    <3> QED BY <1>1, <3>2 DEF Seen, Tokens
  <2>2. fresh' \subseteq fresh \cup {of[r]}
    BY <1>5 DEF DropLate, UseCode, HandOut
  <2>3. spent' = spent \cup {saw[r].code} /\ UNCHANGED <<business, newest, received, mail, orphans,
                                                     serial, cut, crossed, bare>>
    BY <1>5 DEF DropLate, UseCode, browser
  <2>4. opened' = opened \/ opened' = [opened EXCEPT ![saw[r].code] = @ + 1]
    BY <1>5 DEF DropLate, UseCode
  <2>5. opened' \in [Requests -> Nat]
    BY <1>2, <2>4
  <2> QED BY <1>1, <1>2, <2>1, <2>2, <2>3, <2>5
<1>6. CASE RefreshCookie(r) \/ Redirect(r) \/ Fails(r)
  BY <1>1, <1>2, <1>6 DEF RefreshCookie, Redirect, Fails, rows, browser
<1>7. CASE \/ CreateUser(r) \/ LoginAccount(r) \/ FindToken(r) \/ AccessToken(r) \/ CreateCode(r)
           \/ ResetPassword(r) \/ StorePlain(r) \/ OAuthUser(r) \/ OAuthAccount(r)
  <2>1. mail' \in {mail, mail \cup {r}} /\ UNCHANGED <<business, newest, received, orphans, observers>>
    BY <1>7 DEF CreateUser, LoginAccount, FindToken, AccessToken, CreateCode, ResetPassword,
       StorePlain, WritePassword, OAuthUser, OAuthAccount, rows, browser
  <2> QED BY <1>2, <2>1 DEF observers
<1> QED BY <1>3, <1>4, <1>5, <1>6, <1>7 DEF Continues

\* ... and so they all do in a step of a request that goes on, ...
LEMMA ContinuesType ==
  ASSUME TInv, NEW r \in Requests, Continues(r)
  PROVE  TypeOK'
<1>1. PICK to \in LaterSteps, seen \in Seen : Moving(r, to, seen)
  BY Movings
<1>2. at[r] \in Steps \ {"new"} /\ to \in Steps \ {"new"}
  BY <1>1 DEF Moving, TInv, TypeOK, LaterSteps, Steps, Parts
<1>3. /\ at' \in [Requests -> Steps] /\ of' \in [Requests -> Users \cup {None}]
      /\ saw' \in [Requests -> Seen]
      /\ \A q \in Requests : at'[q] = "new" <=> of'[q] = None
  BY <1>1, <1>2, GoesStep DEF Moving, TInv
<1>4. accounts' \in [Users \X Providers -> Account \cup {None}]
  <2>1. accounts \in [Users \X Providers -> Account \cup {None}]
    BY DEF TInv, TypeOK
  <2>2. \/ accounts' = accounts
        \/ \E p \in Providers, e \in Account : accounts' = [accounts EXCEPT ![<<of[r], p>>] = e]
    BY AccountsChange
  <2> QED BY <2>1, <2>2
<1>5. jar' \in [Users -> Account]
  BY JarChange DEF TInv, TypeOK
<1>6. /\ codes' \in [Users -> Seq(Code)]
      /\ \A u \in Users : \A i, j \in DOMAIN codes'[u] :
           codes'[u][i].code = codes'[u][j].code => i = j
  BY CodesType DEF Once
<1>7. stored' \in [Users -> Stored \cup {None}]
  <2>1. stored \in [Users -> Stored \cup {None}]
    BY DEF TInv, TypeOK
  <2>2. stored' = stored \/ \E u \in Users, e \in Stored : stored' = [stored EXCEPT ![u] = e]
    BY StoredChange
  <2> QED BY <2>1, <2>2
<1> QED BY <1>3, <1>4, <1>5, <1>6, <1>7, OthersType DEF TypeOK

\* ... of one that starts ...
LEMMA StartsType ==
  ASSUME TInv, NEW r \in Requests, Starts(r)
  PROVE  TypeOK'
<1>1. PICK u \in Users, step \in FirstSteps, seen \in Seen : Opening(r, u, step, seen)
  BY Openings
<1>2. step \in Steps \ {"new"} /\ Begin(r, u, step, seen)
  BY <1>1 DEF Opening, FirstSteps, Steps, Parts
<1>3. /\ at' \in [Requests -> Steps] /\ of' \in [Requests -> Users \cup {None}]
      /\ saw' \in [Requests -> Seen] /\ serial' \subseteq serial
      /\ \A q \in Requests : at'[q] = "new" <=> of'[q] = None
  BY <1>2, BeginStep DEF TInv
<1>4. /\ UNCHANGED <<rows, browser, mail, orphans, cut, bare, opened, spent>>
      /\ fresh' \subseteq fresh /\ crossed' \subseteq Users
  BY <1>1 DEF Opening, TInv, TypeOK
<1> QED BY <1>3, <1>4 DEF TInv, TypeOK, rows, browser

\* Nobody's request is cut off by a mail that is rejected but those in progress.
LEMMA RejectsStep ==
  ASSUME TInv, NEW r \in Requests, MailRejects(r)
  PROVE  /\ \A q \in Requests : at'[q] = (IF InProgress(q) THEN "over" ELSE at[q]) /\ saw'[q] = Nothing
         /\ mail' = {} /\ UNCHANGED <<rows, browser, of, orphans, serial, crossed, bare,
                                     fresh, opened, spent>>
         /\ cut' \subseteq Users /\ cut \subseteq cut'
         /\ \A q \in Requests : Busies(q) => of[q] \in cut'
         /\ \A q \in Requests : ~Busies(q)'
<1>1. \A q \in Requests : Busies(q) => of[q] \in Users
  BY DEF Busies, InProgress, TInv, TypeOK, StepsFit
<1> QED BY <1>1 DEF MailRejects, Busies, InProgress, TInv, TypeOK

\* What a user changes by hand of what his business has.
Hands(u) ==
  /\ stored[u] # None /\ bare' = bare \cup {u}
  /\ \E parts \in SUBSET Parts : /\ business' = [business EXCEPT ![u] = parts]
                                 /\ "waba" \in parts <=> "waba" \in business[u]
  /\ orphans \subseteq orphans' /\ orphans' \subseteq Requests
  /\ \A r \in orphans' \ orphans : of[r] = u /\ at[r] = "contents"
  /\ serial' = IF Busy(u) THEN serial \ {u} ELSE serial
  /\ UNCHANGED <<stored, accounts, codes, browser, at, of, saw, mail, cut, crossed,
                 fresh, opened, spent>>

\* The integrations are changed by hand, and with them who makes contents.
Hand(u) == \/ AddIntegration(u) \/ AddContents(u)
           \/ DeleteContents(u) \/ DeleteIntegration(u)
LEMMA HandStep ==
  ASSUME TInv, NEW u \in Users, Hand(u)
  PROVE  Hands(u)
<1>1. business \in [Users -> SUBSET Parts] /\ orphans \subseteq Requests
  BY DEF TInv, TypeOK
<1>2. ASSUME NEW parts \in SUBSET Parts, NEW R \in SUBSET Requests, ByHand(u, parts, R),
             "waba" \in parts <=> "waba" \in business[u],
             \A r \in R : of[r] = u /\ at[r] = "contents"
      PROVE  Hands(u)
  BY <1>1, <1>2 DEF ByHand, Hands
<1>3. ASSUME NEW part \in {"integration", "contents"}, ByHand(u, business[u] \cup {part}, {})
      PROVE  Hands(u)
  <2>1. business[u] \cup {part} \in SUBSET Parts
        /\ ("waba" \in business[u] \cup {part} <=> "waba" \in business[u])
    BY <1>1 DEF Parts
  <2>2. {} \in SUBSET Requests /\ \A r \in {} : of[r] = u /\ at[r] = "contents"
    OBVIOUS
  <2> QED BY <1>2, <1>3, <2>1, <2>2
<1>4. CASE AddIntegration(u) \/ AddContents(u)
  BY <1>3, <1>4 DEF AddIntegration, AddContents
<1>5. CASE DeleteContents(u)
  <2>1. business[u] \ {"contents"} \in SUBSET Parts
        /\ ("waba" \in business[u] \ {"contents"} <=> "waba" \in business[u])
    BY <1>1
  <2>2. {} \in SUBSET Requests /\ \A r \in {} : of[r] = u /\ at[r] = "contents"
    OBVIOUS
  <2>3. ByHand(u, business[u] \ {"contents"}, {})
    BY <1>5 DEF DeleteContents
  <2> QED BY <1>2, <2>1, <2>2, <2>3
<1>6. CASE DeleteIntegration(u)
  <2>1. business[u] \ {"integration", "contents"} \in SUBSET Parts
        /\ ("waba" \in business[u] \ {"integration", "contents"} <=> "waba" \in business[u])
    BY <1>1
  <2>2. PICK R \in SUBSET Requests : R = {r \in Requests : of[r] = u /\ at[r] = "contents"}
    OBVIOUS
  <2>3. ByHand(u, business[u] \ {"integration", "contents"}, R)
    BY <1>6, <2>2 DEF DeleteIntegration
  <2> QED BY <1>2, <2>1, <2>2, <2>3
<1> QED BY <1>4, <1>5, <1>6 DEF Hand

\* ... and in every other.
LEMMA TypeNext == TInv /\ [Next]_vars => TypeOK'
<1> SUFFICES ASSUME TInv, [Next]_vars PROVE TypeOK'
  OBVIOUS
<1>1. CASE UNCHANGED vars
  BY <1>1 DEF TInv, TypeOK, vars, rows, browser, progress, observers
<1>2. ASSUME NEW r \in Requests, MailArrives(r)
      PROVE  TypeOK'
  <2>1. of[r] \in Users /\ r \in Tokens
    BY <1>2 DEF MailArrives, TInv, TypeOK, StepsFit, Tokens
  <2> QED BY <1>2, <2>1 DEF MailArrives, Delivered, TInv, TypeOK, rows, observers
<1>3. ASSUME NEW r \in Requests, MailRejects(r)
      PROVE  TypeOK'
  <2>1. at' \in [Requests -> Steps] /\ saw' \in [Requests -> Seen]
    BY <1>3, NothingSeen DEF MailRejects, TInv, TypeOK, Steps
  <2>2. \A q \in Requests : at'[q] = "new" <=> of'[q] = None
    BY <1>3 DEF MailRejects, TInv, TypeOK, InProgress
  <2> QED BY <1>3, <2>1, <2>2, RejectsStep DEF TInv, TypeOK, rows, browser
<1>4. ASSUME NEW u \in Users, Late(u)
      PROVE  TypeOK'
  <2>1. codes[u] \in Seq(Code) /\ codes \in [Users -> Seq(Code)]
    BY DEF TInv, TypeOK
  <2>2. \A i \in DOMAIN codes[u] : codes[u][i] \in Code
    BY <2>1, LenProperties, ElementOfSeq
  <2>3. PICK s : s = [i \in DOMAIN codes[u] |-> [codes[u][i] EXCEPT !.late = TRUE]]
    OBVIOUS
  <2>4. ASSUME NEW i \in DOMAIN codes[u]
        PROVE  s[i] \in Code /\ s[i].code = codes[u][i].code
    <3>1. PICK c \in Code : c = codes[u][i]
      BY <2>2
    <3>2. [c EXCEPT !.late = TRUE] \in Code /\ [c EXCEPT !.late = TRUE].code = c.code
      BY <3>1, Zenon DEF Code
    <3> QED BY <2>3, <3>1, <3>2
  <2>5. s \in [DOMAIN codes[u] -> Code]
    BY <2>3, <2>4
  <2>6. s \in Seq(Code) /\ DOMAIN s = DOMAIN codes[u]
    BY <2>1, <2>5, Replaced
  <2>7. codes' = [codes EXCEPT ![u] = s]
    BY <1>4, <2>3 DEF Late
  <2>8. codes' \in [Users -> Seq(Code)]
    BY <2>1, <2>6, <2>7
  <2>9. ASSUME NEW w \in Users, NEW i \in DOMAIN codes'[w], NEW j \in DOMAIN codes'[w],
               codes'[w][i].code = codes'[w][j].code
        PROVE  i = j
    <3>1. CASE w = u
      BY <2>1, <2>4, <2>6, <2>7, <2>9, <3>1 DEF TInv, TypeOK
    <3>2. CASE w # u
      BY <2>1, <2>7, <2>9, <3>2 DEF TInv, TypeOK
    <3> QED BY <3>1, <3>2
  <2>10. UNCHANGED <<stored, accounts, business, browser, progress, observers>>
    BY <1>4 DEF Late
  <2> QED BY <2>8, <2>9, <2>10 DEF TInv, TypeOK, browser, progress, observers
<1>5. ASSUME NEW u \in Users, DeleteUser(u)
      PROVE  TypeOK'
  <2>1. stored' = [stored EXCEPT ![u] = None] /\ orphans' \subseteq Requests \cup orphans
        /\ serial' \subseteq serial
        /\ UNCHANGED <<accounts, codes, business, browser, at, of, saw, mail, cut, crossed, bare,
                       fresh, opened, spent>>
    BY <1>5 DEF DeleteUser
  <2> QED BY <2>1 DEF TInv, TypeOK, browser
<1>6. ASSUME NEW u \in Users, Logout(u)
      PROVE  TypeOK'
  <2>1. None \in Tokens /\ jar[u] \in Account
    BY DEF TInv, TypeOK, Tokens
  <2>2. [jar[u] EXCEPT !.access = None] \in Account
    BY <2>1, AccountsAre
  <2>3. jar' \in [Users -> Account] /\ UNCHANGED <<rows, newest, received, progress, observers>>
    BY <1>6, <2>2 DEF Logout, TInv, TypeOK
  <2> QED BY <2>3 DEF TInv, TypeOK, rows, progress, observers
<1>7. ASSUME NEW r \in Requests, NextOf(r)
      PROVE  TypeOK'
  <2>1. Starts(r) \/ Continues(r) \/ MailArrives(r) \/ MailRejects(r)
    BY <1>7 DEF NextOf, Starts, Continues
  <2> QED BY <1>2, <1>3, <2>1, StartsType, ContinuesType
<1>8. ASSUME NEW u \in Users, Hand(u)
      PROVE  TypeOK'
  <2>1. /\ business \in [Users -> SUBSET Parts]
        /\ \E parts \in SUBSET Parts : business' = [business EXCEPT ![u] = parts]
    BY <1>8, HandStep DEF Hands, TInv, TypeOK
  <2>2. business' \in [Users -> SUBSET Parts]
    BY <2>1
  <2>3. bare' = bare \cup {u} /\ orphans' \subseteq Requests /\ serial' \subseteq serial
    BY <1>8, HandStep DEF Hands
  <2>4. UNCHANGED <<stored, accounts, codes, browser, at, of, saw, mail, cut, crossed,
                    fresh, opened, spent>>
    BY <1>8, HandStep DEF Hands
  <2> QED BY <2>2, <2>3, <2>4 DEF TInv, TypeOK, browser
<1> QED BY <1>1, <1>4, <1>5, <1>6, <1>7, <1>8 DEF Next, Hand

-----------------------------------------------------------------------------
(* What requests have read, tokens, accounts, rows and codes               *)

\* The kinds of steps there are.
LEMMA KindsOfSteps ==
  ASSUME [Next]_vars
  PROVE  \/ \E r \in Requests : Starts(r) \/ Continues(r) \/ MailArrives(r) \/ MailRejects(r)
         \/ \E u \in Users : Late(u) \/ DeleteUser(u) \/ Logout(u) \/ Hand(u)
         \/ UNCHANGED vars
<1>1. ASSUME NEW r \in Requests, NextOf(r)
      PROVE  Starts(r) \/ Continues(r) \/ MailArrives(r) \/ MailRejects(r)
  BY <1>1 DEF NextOf, Starts, Continues
<1> QED BY <1>1 DEF Next, Hand

\* Steps that are no request's own leave the requests and their users alone,
LEMMA OwnersSteps ==
  ASSUME NEW u \in Users, Late(u) \/ DeleteUser(u) \/ Logout(u) \/ Hand(u)
  PROVE  /\ UNCHANGED <<accounts, at, of, saw, mail, newest, received, cut, crossed, fresh, opened, spent>>
         /\ Hand(u) \/ UNCHANGED <<business, bare>>
  BY DEF Late, DeleteUser, Logout, Hand, AddIntegration, AddContents, DeleteContents,
     DeleteIntegration, ByHand, rows, browser, progress, observers

\* as does the arrival of a mail.
LEMMA ArrivesStep ==
  ASSUME TInv, NEW r \in Requests, MailArrives(r)
  PROVE  /\ UNCHANGED <<rows, jar, at, of, saw, orphans, serial, cut, crossed, bare,
                        fresh, opened, spent>>
         /\ r \in mail /\ mail' = mail \ {r} /\ of[r] \in Users
         /\ newest' = [newest EXCEPT ![of[r]] = r]
  BY DEF MailArrives, Delivered, observers, TInv, TypeOK, StepsFit

\* A request that continues is one in progress.
LEMMA ContinuesStep ==
  ASSUME TInv, NEW r \in Requests, Continues(r)
  PROVE  \E to \in LaterSteps, seen \in Seen :
           /\ Moving(r, to, seen) /\ of[r] \in Users /\ InProgress(r) /\ at[r] \in Steps
           /\ at'[r] = to /\ saw'[r] = seen
           /\ \A q \in Requests \ {r} : at'[q] = at[q] /\ saw'[q] = saw[q]
           /\ UNCHANGED <<of, orphans, serial, crossed>>
<1>1. PICK to \in LaterSteps, seen \in Seen : Moving(r, to, seen)
  BY Movings
<1>2. at[r] \in Steps \ {"new"} /\ to \in Steps \ {"new"}
  BY <1>1 DEF Moving, TInv, TypeOK, LaterSteps, Steps, Parts
<1>3. GoesWith(r, at[r], to, seen) /\ UNCHANGED <<of, orphans, serial, crossed>> /\ InProgress(r)
  BY <1>1 DEF Moving, InProgress
<1>4. TypeOK
  BY DEF TInv
<1> QED BY <1>1, <1>2, <1>3, <1>4, GoesStep

\* One that starts was not there before.
LEMMA StartsStep ==
  ASSUME TInv, NEW r \in Requests, Starts(r)
  PROVE  \E u \in Users, step \in FirstSteps, seen \in Seen :
           /\ Opening(r, u, step, seen)
           /\ at[r] = "new" /\ of[r] = None /\ r \notin mail /\ r \notin orphans
           /\ at'[r] = step /\ of'[r] = u /\ saw'[r] = seen
           /\ \A q \in Requests \ {r} : at'[q] = at[q] /\ of'[q] = of[q] /\ saw'[q] = saw[q]
           /\ serial' \subseteq serial /\ (\A w \in Users \ {u} : w \in serial' <=> w \in serial)
           /\ u \in serial' => ~Busy(u)
           /\ UNCHANGED <<rows, browser, mail, orphans, cut, bare, opened, spent>>
<1>1. PICK u \in Users, step \in FirstSteps, seen \in Seen : Opening(r, u, step, seen)
  BY Openings
<1>2. step \in Steps \ {"new"} /\ Begin(r, u, step, seen) /\ TypeOK
  BY <1>1 DEF Opening, FirstSteps, Steps, Parts, TInv
<1>3. UNCHANGED <<rows, browser, mail, orphans, cut, bare, opened, spent>>
  BY <1>1 DEF Opening
<1>4. at[r] = "new" => r \notin mail /\ r \notin orphans
  BY DEF TInv, StepsFit, RowsStay, Makers
<1> QED BY <1>1, <1>2, <1>3, <1>4, BeginStep

\* A mail is on its way while its row is made, and afterwards.
LEMMA MailChange ==
  ASSUME TInv, NEW r \in Requests, Continues(r)
  PROVE  /\ mail' \in {mail, mail \cup {r}}
         /\ r \in mail' => at'[r] \in {"row", "over"}
<1>1. PICK to \in LaterSteps, seen \in Seen : Moving(r, to, seen) /\ at'[r] = to
  BY ContinuesStep
<1>2. CASE AccessToken(r)
  <2>1. saw[r].op = "login" => at'[r] = "row"
    BY <1>2 DEF AccessToken, Goes, GoesWith, TInv, TypeOK
  <2>2. r \notin mail
    BY <1>2 DEF AccessToken, Goes, GoesWith, TInv, StepsFit
  <2> QED BY <1>2, <2>1, <2>2 DEF AccessToken
<1>3. CASE ~AccessToken(r)
  <2>1. mail' = mail
    BY <1>3 DEF Continues, CreateUser, LoginAccount, FindToken, CreateCode, OtpMailed, DropLate,
       UseCode, ResetPassword, StorePlain, WritePassword, RefreshCookie, OAuthUser, OAuthAccount,
       Redirect, MakeWaba, MakeIntegration, MakeContents, Fails
  <2>2. r \in mail => at[r] = "row"
    BY <1>1 DEF Moving, TInv, StepsFit
  <2> QED BY <1>1, <2>1, <2>2 DEF Moving
<1> QED BY <1>2, <1>3

\* What a request has read still fits when it comes to its next step.
LEMMA FitsNext == TInv /\ [Next]_vars => StepsFit'
<1> SUFFICES ASSUME TInv, [Next]_vars PROVE StepsFit'
  OBVIOUS
<1>1. StepsFit
  BY DEF TInv
<1>2. CASE UNCHANGED <<at, saw, mail>>
  BY <1>1, <1>2 DEF StepsFit
<1>3. ASSUME NEW r \in Requests, Starts(r) PROVE StepsFit'
  <2>1. PICK u \in Users, step \in FirstSteps, seen \in Seen :
          /\ Opening(r, u, step, seen) /\ at'[r] = step /\ saw'[r] = seen /\ r \notin mail
          /\ \A q \in Requests \ {r} : at'[q] = at[q] /\ saw'[q] = saw[q]
          /\ mail' = mail
    BY <1>3, StartsStep
  <2>2. FitsAt(step, seen)
    BY <2>1 DEF Opening
  <2> QED BY <1>1, <2>1, <2>2 DEF StepsFit
<1>4. ASSUME NEW r \in Requests, Continues(r) PROVE StepsFit'
  <2>1. PICK to \in LaterSteps, seen \in Seen :
          /\ Moving(r, to, seen) /\ at'[r] = to /\ saw'[r] = seen
          /\ \A q \in Requests \ {r} : at'[q] = at[q] /\ saw'[q] = saw[q]
    BY <1>4, ContinuesStep
  <2>2. FitsAt(to, seen)
    BY <2>1 DEF Moving
  <2> QED BY <1>1, <1>4, <2>1, <2>2, MailChange DEF StepsFit
<1>5. ASSUME NEW r \in Requests, MailArrives(r) PROVE StepsFit'
  BY <1>1, <1>5, ArrivesStep DEF StepsFit
<1>6. ASSUME NEW r \in Requests, MailRejects(r) PROVE StepsFit'
  <2>1. ASSUME NEW q \in Requests
        PROVE  at'[q] \in {"new", "over"} /\ saw'[q] = Nothing
    BY <1>6, RejectsStep DEF InProgress
  <2>2. FitsAt("new", Nothing) /\ FitsAt("over", Nothing)
    BY DEF FitsAt, Parts, Nothing
  <2> QED BY <1>6, <2>1, <2>2, RejectsStep DEF StepsFit
<1> QED BY <1>2, <1>3, <1>4, <1>5, <1>6, KindsOfSteps, OwnersSteps DEF vars, progress

\* A request keeps its user, and one that is over stays so.
LEMMA UsersStay ==
  ASSUME TInv, [Next]_vars
  PROVE  /\ \A q \in Requests : of'[q] = of[q] \/ (at[q] = "new" /\ of[q] = None)
         /\ \A q \in Requests : at[q] = "over" => at'[q] = "over"
         /\ \A u \in Users, t \in Tokens : Own(u, t) => Own(u, t)'
<1>1. /\ \A q \in Requests : of'[q] = of[q] \/ (at[q] = "new" /\ of[q] = None)
      /\ \A q \in Requests : at[q] = "over" => at'[q] = "over"
  <2>1. CASE \E r \in Requests : Starts(r)
    BY <2>1, StartsStep
  <2>2. CASE \E r \in Requests : Continues(r)
    BY <2>2, ContinuesStep DEF InProgress
  <2>3. CASE \E r \in Requests : MailArrives(r)
    BY <2>3, ArrivesStep
  <2>4. CASE \E r \in Requests : MailRejects(r)
    BY <2>4, RejectsStep DEF InProgress
  <2> QED BY <2>1, <2>2, <2>3, <2>4, KindsOfSteps, OwnersSteps DEF vars, progress
<1>2. ASSUME NEW u \in Users, NEW t \in Tokens, Own(u, t)
      PROVE  Own(u, t)'
  BY <1>1, <1>2, SignInAssumption DEF Own, Tokens
<1> QED BY <1>1, <1>2

\* No account is given up, and its token stays or is one of the request.
LEMMA AccountsNext ==
  ASSUME TInv, [Next]_vars, NEW u \in Users, NEW p \in Providers
  PROVE  /\ Has(u, p) => Has(u, p)'
         /\ Has(u, p)' => \/ Has(u, p) /\ accounts'[<<u, p>>].refresh = accounts[<<u, p>>].refresh
                          \/ \E r \in Requests : /\ Continues(r) /\ of[r] = u
                                                 /\ accounts'[<<u, p>>].refresh = r
                                                 /\ Has(u, p) \/ HasRow(r)
<1>1. CASE \E r \in Requests : Continues(r)
  <2>1. PICK r \in Requests : Continues(r)
    BY <1>1
  <2>2. CASE accounts' = accounts
    BY <2>2 DEF Has
  <2>3. CASE accounts' # accounts
    <3>1. PICK o \in Providers, e \in Account :
            /\ of[r] \in Users
            /\ accounts' = [accounts EXCEPT ![<<of[r], o>>] = e]
            /\ e.refresh \in {r, accounts[<<of[r], o>>].refresh}
            /\ e.refresh # r => Has(of[r], o)
            /\ Has(of[r], o) \/ HasRow(r)
      BY <2>1, <2>3, AccountsChange
    <3>2. e # None
      BY NoneAssumption
    <3>3. accounts \in [Users \X Providers -> Account \cup {None}]
      BY DEF TInv, TypeOK
    <3>4. CASE of[r] = u /\ o = p
      <4>1. accounts'[<<u, p>>] = e
        BY <3>1, <3>3, <3>4
      <4> QED BY <2>1, <3>1, <3>2, <3>4, <4>1 DEF Has
    <3>5. CASE ~(of[r] = u /\ o = p)
      <4>1. accounts'[<<u, p>>] = accounts[<<u, p>>]
        BY <3>1, <3>3, <3>5
      <4> QED BY <4>1 DEF Has
    <3> QED BY <3>4, <3>5
  <2> QED BY <2>2, <2>3
<1>2. CASE ~\E r \in Requests : Continues(r)
  <2>1. accounts' = accounts
    BY <1>2, KindsOfSteps, StartsStep, ArrivesStep, RejectsStep, OwnersSteps DEF rows, vars
  <2> QED BY <2>1 DEF Has
<1> QED BY <1>1, <1>2

\* A cookie is that of an account of the user, or stays.
LEMMA JarNext ==
  ASSUME TInv, [Next]_vars, NEW u \in Users
  PROVE  \/ jar'[u].refresh = jar[u].refresh
         \/ Own(u, jar'[u].refresh) /\ \E p \in Providers : Has(u, p)
<1>1. CASE \E r \in Requests : Continues(r)
  <2>1. PICK r \in Requests : Continues(r)
    BY <1>1
  <2>2. CASE jar' = jar
    BY <2>2
  <2>3. CASE jar' # jar
    <3>1. PICK c \in Account :
              /\ jar' = [jar EXCEPT ![of[r]] = c]
              /\ c.refresh = jar[of[r]].refresh \/ Own(of[r], c.refresh)
              /\ c.refresh = jar[of[r]].refresh \/ \E p \in Providers : Has(of[r], p)
      BY <2>1, <2>3, JarChange
    <3>2. jar'[u] = (IF u = of[r] THEN c ELSE jar[u])
      BY <3>1 DEF TInv, TypeOK
    <3> QED BY <3>1, <3>2
  <2> QED BY <2>2, <2>3
<1>2. ASSUME NEW w \in Users, Logout(w)
      PROVE  jar'[u].refresh = jar[u].refresh
  BY <1>2 DEF Logout, TInv, TypeOK, Account
<1>3. CASE jar' = jar
  BY <1>3
<1>4. CASE \E w \in Users : Late(w) \/ DeleteUser(w) \/ Hand(w)
  BY <1>3, <1>4, HandStep DEF Hands, Late, DeleteUser, browser
<1> QED BY <1>1, <1>2, <1>3, <1>4, KindsOfSteps, StartsStep, ArrivesStep, RejectsStep
        DEF browser, vars

\* What a request has read of its account it reads once, and drops at the end.
LEMMA SeenNext ==
  ASSUME TInv, [Next]_vars, NEW q \in Requests
  PROVE  \/ saw'[q] = saw[q] /\ at'[q] = at[q] /\ of'[q] = of[q]
         \/ saw'[q] = Nothing
         \/ \E to \in LaterSteps, seen \in Seen :
              /\ Moving(q, to, seen) /\ Continues(q) /\ at'[q] = to /\ saw'[q] = seen
              /\ of'[q] = of[q] /\ of[q] \in Users /\ to # "over"
         \/ \E u \in Users, step \in FirstSteps, seen \in Seen :
              /\ Opening(q, u, step, seen) /\ at'[q] = step /\ saw'[q] = seen /\ of'[q] = u
<1>1. CASE \E r \in Requests : Starts(r)
  BY <1>1, StartsStep
<1>2. CASE \E r \in Requests : Continues(r)
  <2>1. PICK r \in Requests : Continues(r)
    BY <1>2
  <2>2. PICK to \in LaterSteps, seen \in Seen :
           /\ Moving(r, to, seen) /\ of[r] \in Users
           /\ at'[r] = to /\ saw'[r] = seen
           /\ \A x \in Requests \ {r} : at'[x] = at[x] /\ saw'[x] = saw[x]
           /\ UNCHANGED <<of, orphans, serial, crossed>>
    BY <2>1, ContinuesStep
  <2>3. to = "over" => seen = Nothing
    BY <2>2 DEF Moving
  <2> QED BY <2>1, <2>2, <2>3
<1>3. CASE \E r \in Requests : MailArrives(r)
  BY <1>3, ArrivesStep
<1>4. CASE \E r \in Requests : MailRejects(r)
  BY <1>4, RejectsStep
<1> QED BY <1>1, <1>2, <1>3, <1>4, KindsOfSteps, OwnersSteps DEF vars, progress

\* Then the steps that are not over have read what they rely on.
LEMMA OverHasNothing ==
  ASSUME StepsFit', NEW q \in Requests, saw'[q] # Nothing
  PROVE  at'[q] \notin {"new", "over"}
  BY DEF StepsFit, FitsAt

\* A token goes to an account, a browser or a request of the user of the
\* request that made it.
LEMMA TokensNext == TInv /\ TypeOK' /\ StepsFit' /\ [Next]_vars => TokensAreOwn'
<1> SUFFICES ASSUME TInv, TypeOK', StepsFit', [Next]_vars PROVE TokensAreOwn'
  OBVIOUS
<1>0. \A u \in Users, t \in Tokens : Own(u, t) => Own(u, t)'
  BY UsersStay
<1>1. ASSUME NEW u \in Users, NEW p \in Providers, Has(u, p)'
      PROVE  Own(u, accounts[<<u, p>>].refresh)'
  <2>1. CASE Has(u, p) /\ accounts'[<<u, p>>].refresh = accounts[<<u, p>>].refresh
    <3>1. accounts[<<u, p>>].refresh \in Tokens
      BY <2>1, AccountsAre DEF TInv, TypeOK, Has
    <3>2. Own(u, accounts[<<u, p>>].refresh)
      BY <2>1 DEF TInv, TokensAreOwn
    <3> QED BY <1>0, <2>1, <3>1, <3>2 DEF Own
  <2>2. CASE \E r \in Requests : Continues(r) /\ of[r] = u /\ accounts'[<<u, p>>].refresh = r
    BY <2>2, ContinuesStep, SignInAssumption DEF Own
  <2> QED BY <1>1, <2>1, <2>2, AccountsNext
<1>2. ASSUME NEW u \in Users, jar'[u].refresh # None
      PROVE  Own(u, jar[u].refresh)'
  <2>1. jar'[u].refresh \in Tokens /\ (jar[u].refresh # None => Own(u, jar[u].refresh))
    BY AccountsAre DEF TInv, TypeOK, TokensAreOwn
  <2>2. Own(u, jar'[u].refresh)
    BY <1>2, <2>1, JarNext
  <2> QED BY <1>0, <2>1, <2>2 DEF Own
<1>3. ASSUME NEW q \in Requests
      PROVE  /\ saw'[q].acc # None => Own(of[q], saw[q].acc.refresh)'
             /\ at'[q] \in {"user", "account", "reuse"} => saw'[q].key = q
             /\ at'[q] = "token" => Own(of[q], saw[q].key)'
  <2>1. CASE saw'[q] = saw[q] /\ at'[q] = at[q] /\ of'[q] = of[q]
    <3>1. /\ saw[q].acc # None => Own(of[q], saw[q].acc.refresh) /\ saw[q].acc.refresh \in Tokens
          /\ at[q] \in {"user", "account", "reuse"} => saw[q].key = q
          /\ at[q] = "token" => Own(of[q], saw[q].key)
          /\ saw[q].key \in Tokens
      BY AccountsAre DEF TInv, TokensAreOwn, TypeOK, Seen
    <3>2. saw[q].acc # None \/ at[q] = "token" => of[q] \in Users
      BY DEF TInv, TypeOK, StepsFit, FitsAt, Nothing
    <3> QED BY <1>0, <2>1, <3>1, <3>2 DEF Own
  <2>2. CASE saw'[q] = Nothing
    <3>1. at'[q] \notin {"user", "account", "reuse", "token"}
      BY <2>2 DEF StepsFit, FitsAt, Nothing
    <3> QED BY <2>2, <3>1 DEF Nothing
  <2>3. CASE \E to \in LaterSteps, seen \in Seen :
               /\ Moving(q, to, seen) /\ Continues(q) /\ at'[q] = to /\ saw'[q] = seen
               /\ of'[q] = of[q] /\ of[q] \in Users /\ to # "over"
    <3>1. PICK to \in LaterSteps, seen \in Seen :
               /\ Moving(q, to, seen) /\ at'[q] = to /\ saw'[q] = seen
               /\ of'[q] = of[q] /\ of[q] \in Users /\ to # "over"
      BY <2>3
    <3>2. seen.acc = saw[q].acc /\ seen.key = saw[q].key
          /\ (to \in {"account", "token"} => at[q] \in {"user", "account", "reuse"})
          /\ to \notin {"user", "reuse"}
      BY <3>1 DEF Moving, LaterSteps, Parts
    <3>3. /\ saw[q].acc # None => Own(of[q], saw[q].acc.refresh) /\ saw[q].acc.refresh \in Tokens
          /\ at[q] \in {"user", "account", "reuse"} => saw[q].key = q
      BY AccountsAre DEF TInv, TokensAreOwn, TypeOK, Seen
    <3> QED BY <1>0, <3>1, <3>2, <3>3, SignInAssumption DEF Own
  <2>4. CASE \E u \in Users, step \in FirstSteps, seen \in Seen :
               /\ Opening(q, u, step, seen) /\ at'[q] = step /\ saw'[q] = seen /\ of'[q] = u
    <3>1. PICK u \in Users, step \in FirstSteps, seen \in Seen :
               /\ Opening(q, u, step, seen) /\ at'[q] = step /\ saw'[q] = seen /\ of'[q] = u
      BY <2>4
    <3>2. /\ seen.acc # None => Has(u, "email") /\ seen.acc = accounts[<<u, "email">>]
          /\ step = "token" => Own(u, seen.key)
          /\ step \in {"user", "account", "reuse"} => seen.key = q
      BY <3>1 DEF Opening
    <3>3. Has(u, "email") => Own(u, accounts[<<u, "email">>].refresh)
      BY SignInAssumption DEF TInv, TokensAreOwn
    <3>4. (seen.acc # None => seen.acc.refresh \in Tokens) /\ seen.key \in Tokens
      BY AccountsAre DEF Seen
    <3> QED BY <1>0, <3>1, <3>2, <3>3, <3>4 DEF Own
  <2> QED BY <2>1, <2>2, <2>3, <2>4, SeenNext
<1> QED BY <1>1, <1>2, <1>3 DEF TokensAreOwn

\* A row is given up by its deletion only.
LEMMA StoredNext ==
  ASSUME TInv, [Next]_vars, NEW u \in Users, stored[u] # None
  PROVE  stored'[u] # None \/ DeleteUser(u)
<1>1. CASE \E r \in Requests : Continues(r)
  <2>1. PICK r \in Requests : Continues(r)
    BY <1>1
  <2>2. \/ stored' = stored
        \/ \E w \in Users, e \in Stored : stored' = [stored EXCEPT ![w] = e]
    BY <2>1, StoredChange
  <2> QED BY <2>2, NoneAssumption DEF TInv, TypeOK
<1>2. ASSUME NEW w \in Users, Late(w) \/ Logout(w) \/ Hand(w)
      PROVE  stored' = stored
  BY <1>2, HandStep DEF Hands, Late, Logout, rows
<1>3. ASSUME NEW w \in Users, DeleteUser(w), w # u
      PROVE  stored'[u] # None
  BY <1>3 DEF DeleteUser, TInv, TypeOK
<1> QED BY <1>1, <1>2, <1>3, KindsOfSteps, StartsStep, ArrivesStep, RejectsStep DEF rows, vars

\* An account that was read stays, so whoever relies on it still can.
LEMMA AccountsStayNext == TInv /\ TypeOK' /\ StepsFit' /\ [Next]_vars => AccountsStay'
<1> SUFFICES ASSUME TInv, TypeOK', StepsFit', [Next]_vars PROVE AccountsStay'
  OBVIOUS
<1>0. \A u \in Users, p \in Providers : Has(u, p) => Has(u, p)'
  BY AccountsNext
<1>1. ASSUME NEW u \in Users, NEW p \in Providers, Has(u, p)'
      PROVE  stored'[u] # None
  <2>1. CASE Has(u, p)
    <3>1. stored[u] # None
      BY <2>1 DEF TInv, AccountsStay
    <3>2. ~DeleteUser(u)
      BY <2>1 DEF DeleteUser, Has
    <3> QED BY <3>1, <3>2, StoredNext
  <2>2. CASE ~Has(u, p)
    <3>1. PICK r \in Requests : Continues(r) /\ of[r] = u /\ HasRow(r)
      BY <1>1, <2>2, AccountsNext
    <3>2. stored' = stored \/ \E w \in Users, e \in Stored : stored' = [stored EXCEPT ![w] = e]
      BY <3>1, StoredChange
    <3> QED BY <3>1, <3>2, NoneAssumption DEF HasRow, TInv, TypeOK
  <2> QED BY <2>1, <2>2
<1>2. ASSUME NEW u \in Users, jar'[u].refresh # None
      PROVE  \E p \in Providers : Has(u, p)'
  <2>1. \E p \in Providers : Has(u, p)
    BY <1>2, JarNext DEF TInv, AccountsStay
  <2> QED BY <1>0, <2>1
<1>3. ASSUME NEW u \in Users, codes'[u] # <<>>
      PROVE  stored'[u] # None
  <2>1. CASE codes[u] # <<>>
    <3>1. stored[u] # None /\ ~DeleteUser(u)
      BY <2>1 DEF TInv, AccountsStay, DeleteUser
    <3> QED BY <3>1, StoredNext
  <2>2. CASE codes[u] = <<>>
    <3>1. CASE \E r \in Requests : Continues(r) /\ codes' # codes
      <4>1. PICK r \in Requests : Continues(r) /\ codes' # codes
        BY <3>1
      <4>2. DOMAIN codes[u] = {}
        BY <2>2
      <4>3. CASE CreateCode(r)
        <5>1. of[r] = u /\ HasRow(r) /\ UNCHANGED stored
          BY <1>3, <2>2, <4>1, <4>3 DEF CreateCode, TInv, TypeOK
        <5> QED BY <5>1 DEF HasRow
      <4>4. CASE DropLate(r) \/ UseCode(r)
        <5>1. codes'[u] = codes[u] \/ (of[r] = u /\ RowsOf(u, saw[r].code) # {})
          BY <4>4 DEF DropLate, UseCode, TInv, TypeOK
        <5> QED BY <1>3, <2>2, <4>2, <5>1 DEF RowsOf
      <4> QED BY <4>1, <4>3, <4>4, CodesChange
    <3>2. CASE \E w \in Users : Late(w)
      BY <1>3, <2>2, <3>2 DEF Late, TInv, TypeOK
    <3>3. CASE codes' = codes
      BY <1>3, <2>2, <3>3
    <3>4. CASE \E w \in Users : DeleteUser(w) \/ Logout(w) \/ Hand(w)
      BY <3>3, <3>4, HandStep DEF Hands, DeleteUser, Logout, rows
    <3> QED BY <3>1, <3>2, <3>3, <3>4, KindsOfSteps, StartsStep, ArrivesStep, RejectsStep
            DEF rows, vars
  <2> QED BY <2>1, <2>2
<1>4. ASSUME NEW q \in Requests
      PROVE  /\ saw'[q].acc # None => Has(of[q], "email")'
             /\ at'[q] \in {"access", "redirect"} \/ (at'[q] \in Parts /\ Joined(q)') =>
                   Has(of[q], saw[q].by)'
             /\ at'[q] = "reuse" => Has(of[q], "google")'
  <2>0. "email" \in Providers
    BY SignInAssumption
  <2>1. CASE saw'[q] = saw[q] /\ at'[q] = at[q] /\ of'[q] = of[q]
    <3>1. /\ saw[q].acc # None => Has(of[q], "email")
          /\ at[q] \in {"access", "redirect"} \/ (at[q] \in Parts /\ Joined(q)) => Has(of[q], saw[q].by)
          /\ at[q] = "reuse" => Has(of[q], "google")
          /\ saw[q].by \in Providers
      BY DEF TInv, AccountsStay, TypeOK, Seen
    <3>2. /\ at[q] # "new" => of[q] \in Users
          /\ saw[q].acc # None => of[q] \in Users
      BY DEF TInv, TypeOK, StepsFit, FitsAt, Nothing
    <3>3. at[q] = "reuse" => "google" \in Providers
      BY <3>1 DEF TInv, StepsFit, FitsAt
    <3>4. Joined(q)' <=> Joined(q)
      BY <2>1 DEF Joined
    <3>5. saw[q].acc # None => Has(of[q], "email")'
      BY <1>0, <2>0, <2>1, <3>1, <3>2 DEF Has
    <3>6. ASSUME at[q] \in {"access", "redirect"} \/ (at[q] \in Parts /\ Joined(q))
          PROVE  Has(of[q], saw[q].by)'
      <4>1. at[q] # "new"
        BY <3>6 DEF Parts
      <4>2. PICK u \in Users, p \in Providers : u = of[q] /\ p = saw[q].by /\ u = of'[q] /\ p = saw'[q].by
        BY <2>1, <3>1, <3>2, <4>1
      <4> QED BY <1>0, <3>1, <3>6, <4>2 DEF Has
    <3>7. at[q] = "reuse" => Has(of[q], "google")'
      BY <1>0, <2>1, <3>1, <3>2, <3>3 DEF Has
    <3> QED BY <2>1, <3>4, <3>5, <3>6, <3>7
  <2>2. CASE saw'[q] = Nothing
    <3>1. at'[q] \notin {"reuse", "access", "redirect"} /\ ~Joined(q)'
      BY <2>2 DEF StepsFit, FitsAt, Nothing, Joined
    <3> QED BY <2>2, <3>1 DEF Nothing
  <2>3. CASE \E to \in LaterSteps, seen \in Seen :
               /\ Moving(q, to, seen) /\ Continues(q) /\ at'[q] = to /\ saw'[q] = seen
               /\ of'[q] = of[q] /\ of[q] \in Users /\ to # "over"
    <3>1. PICK to \in LaterSteps, seen \in Seen :
               /\ Moving(q, to, seen) /\ at'[q] = to /\ saw'[q] = seen
               /\ of'[q] = of[q] /\ of[q] \in Users /\ to # "over"
      BY <2>3
    <3>2. seen.acc # None => Has(of[q], "email")
      BY <3>1 DEF Moving, TInv, AccountsStay
    <3>3. ASSUME to \in {"access", "redirect"} \/ (to \in Parts /\ seen.op = "joined")
          PROVE  Has(of[q], seen.by)
      <4>1. CASE to = "access"
        BY <3>1, <4>1 DEF Moving
      <4>2. CASE to # "access"
        <5>1. seen.by = saw[q].by /\ at[q] \in {"access"} \cup Parts
              /\ (at[q] # "access" => Joined(q))
          BY <3>1, <3>3, <4>2 DEF Moving, Parts, Joined
        <5> QED BY <5>1 DEF TInv, AccountsStay
      <4> QED BY <4>1, <4>2
    <3>4. to # "reuse" /\ seen.by \in Providers
      BY <3>1 DEF LaterSteps, Parts, Seen
    <3>5. seen.acc # None => Has(of[q], "email")'
      BY <1>0, <2>0, <3>1, <3>2 DEF Has
    <3>6. Has(of[q], seen.by) => Has(of[q], saw[q].by)'
      <4>1. PICK u \in Users, p \in Providers : u = of[q] /\ p = seen.by /\ u = of'[q] /\ p = saw'[q].by
        BY <3>1, <3>4
      <4> QED BY <1>0, <4>1 DEF Has
    <3> QED BY <3>1, <3>3, <3>4, <3>5, <3>6 DEF Joined
  <2>4. CASE \E u \in Users, step \in FirstSteps, seen \in Seen :
               /\ Opening(q, u, step, seen) /\ at'[q] = step /\ saw'[q] = seen /\ of'[q] = u
    <3>1. PICK u \in Users, step \in FirstSteps, seen \in Seen :
               /\ Opening(q, u, step, seen) /\ at'[q] = step /\ saw'[q] = seen /\ of'[q] = u
      BY <2>4
    <3>2. /\ seen.acc # None => Has(u, "email") /\ seen.op # "joined"
          /\ step = "reuse" => Has(u, "google") /\ seen.by = "google"
          /\ step \notin {"access", "redirect"} /\ seen.by \in Providers
      BY <3>1 DEF Opening, FitsAt, FirstSteps, Seen
    <3>3. seen.acc # None => Has(of[q], "email")'
      BY <1>0, <2>0, <3>1, <3>2 DEF Has
    <3>4. step = "reuse" => Has(of[q], "google")'
      BY <1>0, <3>1, <3>2 DEF Has
    <3>5. ~Joined(q)'
      BY <3>1 DEF Joined, Opening
    <3> QED BY <3>1, <3>2, <3>3, <3>4, <3>5
  <2> QED BY <2>1, <2>2, <2>3, <2>4, SeenNext
<1> QED BY <1>1, <1>2, <1>3, <1>4 DEF AccountsStay

\* A row goes with deleteUser only, which makes its requests orphans.
LEMMA RowsStayNext == TInv /\ [Next]_vars => RowsStay'
<1> SUFFICES ASSUME TInv, [Next]_vars PROVE RowsStay'
  OBVIOUS
<1>1. ASSUME NEW r \in Requests, Starts(r)
      PROVE  RowsStay'
  <2>1. PICK u \in Users, step \in FirstSteps, seen \in Seen :
           /\ Opening(r, u, step, seen) /\ r \notin orphans
           /\ at'[r] = step /\ of'[r] = u
           /\ \A q \in Requests \ {r} : at'[q] = at[q] /\ of'[q] = of[q]
           /\ serial' \subseteq serial /\ UNCHANGED <<stored, orphans>>
    BY <1>1, StartsStep DEF rows
  <2>2. step \notin Makers => stored[u] # None
    BY <2>1 DEF Opening
  <2> QED BY <2>1, <2>2 DEF TInv, RowsStay, InProgress
<1>2. ASSUME NEW r \in Requests, Continues(r)
      PROVE  RowsStay'
  <2>1. PICK to \in LaterSteps, seen \in Seen :
           /\ Moving(r, to, seen) /\ of[r] \in Users /\ InProgress(r) /\ at'[r] = to
           /\ \A q \in Requests \ {r} : at'[q] = at[q]
           /\ UNCHANGED <<of, orphans, serial, crossed>>
    BY <1>2, ContinuesStep
  <2>2. to \notin Makers
    BY <2>1 DEF LaterSteps, Makers, Parts
  <2>3. \A u \in Users : stored[u] # None => stored'[u] # None
    <3>1. stored' = stored \/ \E w \in Users, e \in Stored : stored' = [stored EXCEPT ![w] = e]
      BY <1>2, StoredChange
    <3> QED BY <3>1, NoneAssumption DEF TInv, TypeOK
  <2>4. at[r] \in Makers => to = "over" \/ stored'[of[r]] # None
    <3>1. CASE at[r] = "hash"
      <4>1. CreateUser(r) \/ Fails(r)
        BY <1>2, <3>1 DEF Continues, LoginAccount, FindToken, AccessToken, CreateCode, OtpMailed,
           DropLate, UseCode, ResetPassword, StorePlain, WritePassword, RefreshCookie, OAuthUser,
           OAuthAccount, Redirect, MakeWaba, MakeIntegration, MakeContents, Goes, Ends, GoesWith
      <4>2. at'[r] = "over"
        BY <4>1 DEF CreateUser, Fails, Ends, GoesWith, TInv, TypeOK
      <4> QED BY <2>1, <4>2
    <3>2. CASE at[r] = "user"
      <4>1. OAuthUser(r) \/ Fails(r)
        BY <1>2, <3>2 DEF Continues, CreateUser, LoginAccount, FindToken, AccessToken, CreateCode,
           OtpMailed, DropLate, UseCode, ResetPassword, StorePlain, WritePassword, RefreshCookie,
           OAuthAccount, Redirect, MakeWaba, MakeIntegration, MakeContents, Goes, Ends, GoesWith
      <4>2. at'[r] = "over" \/ stored' = [stored EXCEPT ![of[r]] = [pw |-> None, hashed |-> FALSE]]
        BY <4>1 DEF OAuthUser, Fails, Ends, GoesWith, TInv, TypeOK
      <4>3. [pw |-> None, hashed |-> FALSE] \in Stored
        BY Zenon DEF Stored
      <4> QED BY <2>1, <4>2, <4>3, NoneAssumption DEF TInv, TypeOK
    <3>3. CASE at[r] = "letter"
      <4>1. OtpMailed(r) \/ Fails(r)
        BY <1>2, <3>3 DEF Continues, CreateUser, LoginAccount, FindToken, AccessToken, CreateCode,
           DropLate, UseCode, ResetPassword, StorePlain, WritePassword, RefreshCookie, OAuthUser,
           OAuthAccount, Redirect, MakeWaba, MakeIntegration, MakeContents, Goes, Ends, GoesWith, Parts
      <4>2. at'[r] = "over"
        BY <3>3, <4>1 DEF OtpMailed, Fails, Goes, Ends, GoesWith, TInv, TypeOK
      <4> QED BY <2>1, <4>2
    <3> QED BY <2>1, <3>1, <3>2, <3>3 DEF Makers, InProgress
  <2>5. ASSUME NEW q \in Requests, q \in orphans
        PROVE  of[q] \notin serial /\ at'[q] \notin Makers
    BY <2>1, <2>2, <2>5 DEF TInv, RowsStay
  <2>6. ASSUME NEW q \in Requests, InProgress(q)', at'[q] \notin Makers, q \notin orphans
        PROVE  stored'[of[q]] # None
    <3>1. CASE q = r
      BY <2>1, <2>3, <2>4, <2>6, <3>1 DEF TInv, RowsStay, InProgress
    <3>2. CASE q # r
      <4>1. InProgress(q) /\ at[q] \notin Makers
        BY <2>1, <2>6, <3>2 DEF InProgress
      <4>2. stored[of[q]] # None /\ of[q] \in Users
        BY <2>6, <4>1 DEF TInv, RowsStay, TypeOK, InProgress
      <4> QED BY <2>3, <4>2
    <3> QED BY <3>1, <3>2
  <2> QED BY <2>1, <2>5, <2>6 DEF RowsStay
<1>3. ASSUME NEW r \in Requests, MailArrives(r)
      PROVE  RowsStay'
  BY <1>3, ArrivesStep DEF TInv, RowsStay, InProgress, rows
<1>4. ASSUME NEW r \in Requests, MailRejects(r)
      PROVE  RowsStay'
  BY <1>4, RejectsStep DEF TInv, RowsStay, InProgress, rows, Makers
<1>5. ASSUME NEW u \in Users, DeleteUser(u)
      PROVE  RowsStay'
  <2>1. /\ stored' = [stored EXCEPT ![u] = None] /\ UNCHANGED <<at, of>>
        /\ \A r \in Requests : of[r] = u /\ InProgress(r) /\ at[r] \notin Makers => r \in orphans'
        /\ \A r \in orphans' : r \in orphans \/ (of[r] \notin serial' /\ at[r] \notin Makers)
        /\ serial' \subseteq serial /\ orphans \subseteq orphans'
    BY <1>5 DEF DeleteUser, Makers, InProgress
  <2>2. ASSUME NEW q \in Requests, q \in orphans'
        PROVE  of[q] \notin serial' /\ at[q] \notin Makers
    BY <2>1, <2>2 DEF TInv, RowsStay
  <2>3. ASSUME NEW q \in Requests, InProgress(q), at[q] \notin Makers, q \notin orphans'
        PROVE  stored'[of[q]] # None
    <3>1. q \notin orphans /\ of[q] # u
      BY <2>1, <2>3 DEF Makers
    <3>2. of[q] \in Users /\ stored[of[q]] # None
      BY <2>3, <3>1 DEF TInv, RowsStay, TypeOK, InProgress
    <3> QED BY <2>1, <3>1, <3>2 DEF TInv, TypeOK
  <2> QED BY <2>1, <2>2, <2>3 DEF RowsStay, InProgress
<1>6. CASE UNCHANGED <<stored, at, of, orphans, serial>>
  BY <1>6 DEF TInv, RowsStay, InProgress
<1>7. ASSUME NEW u \in Users, Late(u) \/ Logout(u)
      PROVE  RowsStay'
  BY <1>6, <1>7 DEF Late, Logout, rows, progress, observers
<1>8. ASSUME NEW u \in Users, Hand(u)
      PROVE  RowsStay'
  <2>1. /\ UNCHANGED <<stored, at, of>> /\ serial' \subseteq serial /\ orphans \subseteq orphans'
        /\ \A r \in orphans' \ orphans : at[r] = "contents" /\ of[r] = u
        /\ Busy(u) => u \notin serial'
    BY <1>8, HandStep DEF Hands
  <2>2. \A r \in Requests : at[r] = "contents" /\ of[r] = u => Busy(u) /\ at[r] \notin Makers
    BY DEF Busy, InProgress, Makers
  <2>3. orphans' \subseteq Requests
    BY <1>8, HandStep DEF Hands
  <2> QED BY <2>1, <2>2, <2>3 DEF TInv, RowsStay, InProgress
<1> QED BY <1>1, <1>2, <1>3, <1>4, <1>5, <1>6, <1>7, <1>8, KindsOfSteps
        DEF vars, rows, progress, observers

Comes(c, d) == c.code = d.code /\ (d.used => c.used)
\* Rows come from CreateCode only, and one that is used stays used.
LEMMA CodesFrom ==
  ASSUME TInv, [Next]_vars, NEW u \in Users, NEW i \in DOMAIN codes'[u]
  PROVE  \/ \E j \in DOMAIN codes[u] : Comes(codes'[u][i], codes[u][j])
         \/ \E r \in Requests : /\ CreateCode(r) /\ of[r] = u /\ at'[r] = "over"
                                /\ codes'[u][i].code = r
<1>1. codes \in [Users -> Seq(Code)] /\ codes[u] \in Seq(Code) /\ at \in [Requests -> Steps]
  BY DEF TInv, TypeOK
<1>2. ASSUME NEW j \in DOMAIN codes[u], codes'[u][i] = codes[u][j]
      PROVE  Comes(codes'[u][i], codes[u][j])
  BY <1>2 DEF Comes
<1>3. ASSUME NEW w \in Users, Late(w) PROVE \E j \in DOMAIN codes[u] : Comes(codes'[u][i], codes[u][j])
  <2>1. CASE w = u
    <3>1. codes'[u] = [j \in DOMAIN codes[u] |-> [codes[u][j] EXCEPT !.late = TRUE]]
      BY <1>1, <1>3, <2>1 DEF Late
    <3>2. i \in DOMAIN codes[u] /\ codes'[u][i] = [codes[u][i] EXCEPT !.late = TRUE]
      BY <3>1
    <3>3. codes[u][i] \in Code
      BY <1>1, <3>2, LenProperties, ElementOfSeq
    <3>4. Comes(codes'[u][i], codes[u][i])
      BY <3>2, <3>3 DEF Code, Comes
    <3> QED BY <3>2, <3>4
  <2>2. CASE w # u
    <3>1. codes'[u] = codes[u]
      BY <1>1, <1>3, <2>2 DEF Late
    <3> QED BY <1>2, <3>1
  <2> QED BY <2>1, <2>2
<1>4. ASSUME NEW r \in Requests, Continues(r), codes'[u] # codes[u]
      PROVE  \/ \E j \in DOMAIN codes[u] : Comes(codes'[u][i], codes[u][j])
             \/ CreateCode(r) /\ of[r] = u /\ at'[r] = "over" /\ codes'[u][i].code = r
  <2>1. CASE CreateCode(r)
    <3>1. PICK e \in Code : e = [code |-> r, used |-> FALSE, late |-> FALSE]
      <4>1. [code |-> r, used |-> FALSE, late |-> FALSE] \in Code
        BY Zenon DEF Code
      <4> QED BY <4>1
    <3>2. of[r] = u /\ codes'[u] = Append(codes[u], e) /\ at'[r] = "over"
      BY <1>1, <1>4, <2>1, <3>1 DEF CreateCode, Ends, GoesWith
    <3>3. (i \in DOMAIN codes[u] /\ codes'[u][i] = codes[u][i]) \/ codes'[u][i] = e
      BY <1>1, <3>2, Appended
    <3>4. e.code = r
      BY <3>1
    <3> QED BY <1>2, <2>1, <3>2, <3>3, <3>4
  <2>2. CASE DropLate(r)
    <3>1. PICK k \in DOMAIN codes[u] : codes'[u] = RemoveAt(codes[u], k)
      BY <1>1, <1>4, <2>2 DEF DropLate, RowsOf
    <3>2. PICK s : s = RemoveAt(codes[u], k)
      OBVIOUS
    <3>3. /\ DOMAIN s = 1..(Len(codes[u]) - 1) /\ DOMAIN codes[u] = 1..Len(codes[u])
          /\ Len(codes[u]) \in Nat
          /\ s[i] = codes[u][IF i < k THEN i ELSE i + 1]
      BY <1>1, <3>1, <3>2, Removed, LenProperties
    <3>4. (IF i < k THEN i ELSE i + 1) \in DOMAIN codes[u]
      BY <3>1, <3>2, <3>3
    <3> QED BY <1>2, <3>1, <3>2, <3>3, <3>4
  <2>3. CASE UseCode(r)
    <3>1. codes'[u] = MarkUsed(codes[u], saw[r].code)
      BY <1>1, <1>4, <2>3 DEF UseCode
    <3>2. i \in DOMAIN codes[u] /\ codes'[u][i] = [codes[u][i] EXCEPT !.used = @ \/ codes[u][i].code = saw[r].code]
      BY <3>1 DEF MarkUsed
    <3>3. codes[u][i] \in Code
      BY <1>1, <3>2, LenProperties, ElementOfSeq
    <3>4. codes'[u][i].code = codes[u][i].code
      BY <3>2, <3>3 DEF Code
    <3>5. codes[u][i].used => codes'[u][i].used
      BY <3>2, <3>3, Zenon DEF Code
    <3> QED BY <3>2, <3>4, <3>5 DEF Comes
  <2> QED BY <1>4, <2>1, <2>2, <2>3, CodesChange
<1>5. CASE codes'[u] = codes[u]
  BY <1>2, <1>5
<1>6. CASE \E w \in Users : DeleteUser(w) \/ Logout(w) \/ Hand(w)
  BY <1>5, <1>6, HandStep DEF Hands, DeleteUser, Logout, rows
<1> QED BY <1>3, <1>4, <1>5, <1>6, KindsOfSteps, StartsStep, ArrivesStep, RejectsStep DEF rows, vars

\* A code in a list is that of a request that is over.
LEMMA CodesNext == TInv /\ [Next]_vars => CodesAreOwn'
<1> SUFFICES ASSUME TInv, [Next]_vars, NEW u \in Users, NEW i \in DOMAIN codes'[u]
             PROVE  /\ of'[codes'[u][i].code] = u /\ at'[codes'[u][i].code] = "over"
  BY DEF CodesAreOwn
<1>1. CASE \E j \in DOMAIN codes[u] : Comes(codes'[u][i], codes[u][j])
  <2>1. PICK j \in DOMAIN codes[u] : codes'[u][i].code = codes[u][j].code
    BY <1>1 DEF Comes
  <2>2. codes[u] \in Seq(Code)
    BY DEF TInv, TypeOK
  <2>3. codes[u][j].code \in Requests
    <3>1. codes[u][j] \in Code
      BY <2>1, <2>2, LenProperties, ElementOfSeq
    <3> QED BY <3>1 DEF Code
  <2>4. of[codes[u][j].code] = u /\ at[codes[u][j].code] = "over"
    BY DEF TInv, CodesAreOwn
  <2> QED BY <2>1, <2>3, <2>4, UsersStay, SignInAssumption
<1>2. CASE \E r \in Requests : /\ CreateCode(r) /\ of[r] = u /\ at'[r] = "over"
                               /\ codes'[u][i].code = r
  BY <1>2, UsersStay, SignInAssumption
<1> QED BY <1>1, <1>2, CodesFrom

\* The part of the invariant that is shared holds at first ...
LEMMA InitTInv == Init => TInv
<1> SUFFICES ASSUME Init PROVE TInv
  OBVIOUS
<1>1. TypeOK
  <2>1. \A p \in Passwords : Hashed(p) \in Stored
    <3>1. ASSUME NEW p \in Passwords PROVE [pw |-> p, hashed |-> TRUE] \in Stored
      BY Zenon DEF Stored
    <3> QED BY <3>1 DEF Hashed
  <2>2. stored \in [Users -> Stored \cup {None}]
    BY <2>1 DEF Init
  <2>3. codes \in [Users -> Seq(Code)] /\ \A u \in Users : DOMAIN codes[u] = {}
    BY EmptySeq DEF Init
  <2>4. jar \in [Users -> Account]
    <3>1. None \in Tokens
      BY DEF Tokens
    <3>2. [refresh |-> None, access |-> None] \in Account
      BY <3>1, AccountsAre
    <3> QED BY <3>2 DEF Init
  <2>5. at \in [Requests -> Steps] /\ saw \in [Requests -> Seen]
    BY NothingSeen DEF Init, Steps
  <2>6. \A u \in Users : \A i, j \in DOMAIN codes[u] : codes[u][i].code = codes[u][j].code => i = j
    BY <2>3
  <2> QED BY <2>2, <2>3, <2>4, <2>5, <2>6 DEF Init, TypeOK, Tokens
<1>2. StepsFit
  <2>1. FitsAt("new", Nothing)
    BY DEF FitsAt, Parts, Nothing
  <2> QED BY <2>1 DEF Init, StepsFit
<1>3. TokensAreOwn /\ AccountsStay
  BY DEF Init, TokensAreOwn, AccountsStay, Has, Nothing, Parts
<1>4. RowsStay /\ CodesAreOwn
  BY DEF Init, RowsStay, CodesAreOwn, Makers, InProgress
<1> QED BY <1>1, <1>2, <1>3, <1>4 DEF TInv

\* ... and in every step.
LEMMA NextTInv == TInv /\ [Next]_vars => TInv'
BY TypeNext, FitsNext, TokensNext, AccountsStayNext, RowsStayNext, CodesNext DEF TInv

\* Every variable holds a value of its kind, a code has one row, and only
\* requests that have begun have a user, whatever requests, mails, failures and
\* the deletion of users do to each other.
THEOREM TypeCorrect == Spec => []TypeOK
<1>1. TInv => TypeOK
  BY DEF TInv
<1> QED BY <1>1, InitTInv, NextTInv, PTL DEF Spec

-----------------------------------------------------------------------------
(* A code opens once                                                       *)

\* Only a request that starts becomes busy, and nobody becomes serial.
LEMMA BusyNext ==
  ASSUME TInv, [Next]_vars, NEW q \in Requests, Busies(q)'
  PROVE  \/ Busies(q) /\ of'[q] = of[q]
         \/ Starts(q) /\ of'[q] \in Users /\ (of'[q] \in serial' => ~Busy(of'[q]))
<1>1. ASSUME NEW r \in Requests, Starts(r)
      PROVE  \/ Busies(q) /\ of'[q] = of[q]
             \/ q = r /\ of'[q] \in Users /\ (of'[q] \in serial' => ~Busy(of'[q]))
  <2>1. PICK u \in Users :
           /\ of'[r] = u
           /\ \A x \in Requests \ {r} : at'[x] = at[x] /\ of'[x] = of[x]
           /\ u \in serial' => ~Busy(u)
           /\ UNCHANGED mail
    BY <1>1, StartsStep
  <2> QED BY <2>1 DEF Busies, InProgress
<1>2. ASSUME NEW r \in Requests, Continues(r)
      PROVE  Busies(q) /\ of'[q] = of[q]
  <2>1. /\ InProgress(r) /\ UNCHANGED of
        /\ \A x \in Requests \ {r} : at'[x] = at[x]
    BY <1>2, ContinuesStep
  <2>2. mail' \in {mail, mail \cup {r}}
    BY <1>2, MailChange
  <2> QED BY <2>1, <2>2 DEF Busies, InProgress
<1>3. ASSUME NEW r \in Requests, MailArrives(r)
      PROVE  Busies(q) /\ of'[q] = of[q]
  BY <1>3, ArrivesStep DEF Busies, InProgress
<1>4. CASE \E r \in Requests : MailRejects(r)
  BY <1>4, RejectsStep
<1>5. CASE UNCHANGED <<at, of, mail>>
  BY <1>5 DEF Busies, InProgress
<1> QED BY <1>1, <1>2, <1>3, <1>4, <1>5, KindsOfSteps, OwnersSteps DEF vars, progress

\* Nobody becomes serial.
LEMMA SerialNext == ASSUME TInv, [Next]_vars PROVE serial' \subseteq serial
<1>1. ASSUME NEW u \in Users, Late(u) \/ DeleteUser(u) \/ Logout(u) \/ Hand(u)
      PROVE  serial' \subseteq serial
  BY <1>1, HandStep DEF Hands, Late, DeleteUser, Logout, observers
<1> QED BY <1>1, KindsOfSteps, StartsStep, ContinuesStep, ArrivesStep, RejectsStep DEF vars, observers

\* A request of a serial user starts when no other is busy.
LEMMA OneNext == TInv /\ OneAtATime /\ [Next]_vars => OneAtATime'
<1> SUFFICES ASSUME TInv, OneAtATime, [Next]_vars, NEW r \in Requests, NEW q \in Requests,
                    Busies(r)', Busies(q)', of'[r] = of'[q], of'[r] \in serial'
             PROVE  r = q
  BY DEF OneAtATime
<1>1. of'[r] \in serial
  BY SerialNext
<1>2. CASE Busies(r) /\ of'[r] = of[r] /\ Busies(q) /\ of'[q] = of[q]
  BY <1>1, <1>2 DEF OneAtATime
<1>3. CASE Starts(r) /\ Starts(q)
  <2>1. at[q] = "new" /\ at'[q] \in FirstSteps
    BY <1>3, StartsStep
  <2>2. q # r => at'[q] = at[q]
    BY <1>3, StartsStep
  <2> QED BY <2>1, <2>2 DEF FirstSteps
<1>4. CASE Starts(r) /\ ~Busy(of'[r]) /\ Busies(q) /\ of'[q] = of[q]
  BY <1>4 DEF Busy, Busies
<1>5. CASE Starts(q) /\ ~Busy(of'[q]) /\ Busies(r) /\ of'[r] = of[r]
  BY <1>5 DEF Busy, Busies
<1> QED BY <1>2, <1>3, <1>4, <1>5, BusyNext

\* Whom a request started for and with what, a late user's rows apart.
LEMMA OpenedNext ==
  ASSUME TInv, [Next]_vars
  PROVE  \/ opened' = opened
         \/ \E r \in Requests : UseCode(r) /\ opened' = [opened EXCEPT ![saw[r].code] = @ + 1]
<1>1. ASSUME NEW r \in Requests, Continues(r), ~UseCode(r)
      PROVE  opened' = opened
  BY <1>1 DEF Continues, CreateUser, LoginAccount, FindToken, AccessToken, CreateCode, OtpMailed,
     DropLate, ResetPassword, StorePlain, WritePassword, RefreshCookie, OAuthUser, OAuthAccount,
     Redirect, MakeWaba, MakeIntegration, MakeContents, Fails, observers
<1>2. ASSUME NEW r \in Requests, UseCode(r)
      PROVE  opened' = [opened EXCEPT ![saw[r].code] = @ + 1]
  BY <1>2 DEF UseCode
<1> QED BY <1>1, <1>2, KindsOfSteps, StartsStep, ArrivesStep, RejectsStep, OwnersSteps
        DEF vars, observers

\* A code is marked before it lets a second request through.
LEMMA OpensNext == TInv /\ TInv' /\ OneAtATime /\ Opens /\ [Next]_vars => Opens'
<1> SUFFICES ASSUME TInv, TInv', OneAtATime, Opens, [Next]_vars PROVE Opens'
  OBVIOUS
<1>0. opened \in [Requests -> Nat] /\ serial' \subseteq serial /\ serial \subseteq Users
  BY SerialNext DEF TInv, TypeOK
\* Of the code that a request uses.
<1>1. ASSUME NEW r \in Requests, UseCode(r)
      PROVE  /\ saw[r].code \in Requests /\ of[saw[r].code] = of[r] /\ of[r] \in Users
             /\ at[saw[r].code] = "over" /\ at[r] = "use" /\ at'[r] \in {"reset", "over"}
             /\ codes' = [codes EXCEPT ![of[r]] = MarkUsed(codes[of[r]], saw[r].code)]
             /\ \A q \in Requests \ {r} : at'[q] = at[q] /\ saw'[q] = saw[q]
             /\ UNCHANGED <<of, serial>>
  <2>1. at[r] = "use" /\ UNCHANGED <<of, serial>> /\ of[r] \in Users /\ saw[r].code \in Tokens
    BY <1>1 DEF UseCode, Goes, Ends, GoesWith, TInv, TypeOK, Seen
  <2>2. saw[r].code # None
    BY <2>1 DEF TInv, StepsFit, FitsAt
  <2>3. PICK i \in DOMAIN codes[of[r]] : codes[of[r]][i].code = saw[r].code
    BY <1>1 DEF UseCode, RowsOf
  <2>4. of[saw[r].code] = of[r] /\ at[saw[r].code] = "over"
    BY <2>1, <2>3 DEF TInv, CodesAreOwn
  <2>5. at'[r] \in {"reset", "over"} /\ \A q \in Requests \ {r} : at'[q] = at[q] /\ saw'[q] = saw[q]
    BY <1>1 DEF UseCode, Goes, Ends, GoesWith, TInv, TypeOK
  <2>6. codes' = [codes EXCEPT ![of[r]] = MarkUsed(codes[of[r]], saw[r].code)]
    BY <1>1 DEF UseCode
  <2> QED BY <2>1, <2>2, <2>4, <2>5, <2>6 DEF Tokens
<1>2. ASSUME NEW c \in Requests, opened'[c] # 0
      PROVE  at'[c] = "over"
  <2>1. at[c] = "over"
    <3>1. CASE opened[c] # 0
      BY <3>1 DEF Opens
    <3>2. CASE opened[c] = 0
      BY <1>0, <1>1, <1>2, <3>2, OpenedNext
    <3> QED BY <3>1, <3>2
  <2> QED BY <2>1, UsersStay
<1>3. ASSUME NEW c \in Requests, of'[c] \in serial', opened'[c] # 0
      PROVE  opened'[c] = 1 /\ \A i \in DOMAIN codes'[of'[c]] :
                                   codes'[of'[c]][i].code = c => codes'[of'[c]][i].used
  <2>1. PICK u \in Users : u = of'[c] /\ u \in serial
    BY <1>0, <1>3
  <2>2. CASE opened[c] # 0
    <3>1. at[c] = "over"
      BY <2>2 DEF Opens
    <3>2. of[c] = u
      BY <2>1, <3>1, UsersStay
    <3>3. opened[c] = 1 /\ \A i \in DOMAIN codes[u] : codes[u][i].code = c => codes[u][i].used
      BY <2>1, <2>2, <3>2 DEF Opens, RowsOf
    <3>4. opened'[c] = opened[c]
      <4>1. ASSUME NEW r \in Requests, UseCode(r) PROVE saw[r].code # c
        BY <1>1, <2>1, <2>2, <3>2, <4>1 DEF Opens
      <4> QED BY <1>0, <4>1, OpenedNext
    <3>5. ASSUME NEW i \in DOMAIN codes'[u], codes'[u][i].code = c
          PROVE  codes'[u][i].used
      <4>1. ~\E r \in Requests : CreateCode(r) /\ codes'[u][i].code = r
        BY <3>1, <3>5 DEF CreateCode, Ends, GoesWith
      <4>2. PICK j \in DOMAIN codes[u] : Comes(codes'[u][i], codes[u][j])
        BY <4>1, CodesFrom
      <4> QED BY <3>3, <3>5, <4>2, Zenon DEF Comes
    <3> QED BY <2>1, <3>3, <3>4, <3>5
  <2>3. CASE opened[c] = 0
    <3>1. PICK r \in Requests : UseCode(r) /\ opened' = [opened EXCEPT ![saw[r].code] = @ + 1]
      BY <1>3, <2>3, OpenedNext
    <3>2. saw[r].code = c /\ opened'[c] = 1
      BY <1>0, <1>1, <1>3, <2>3, <3>1
    <3>3. of[r] = u /\ codes'[u] = MarkUsed(codes[u], c)
      BY <1>1, <2>1, <3>1, <3>2 DEF TInv, TypeOK
    <3>4. ASSUME NEW i \in DOMAIN codes'[u], codes'[u][i].code = c
          PROVE  codes'[u][i].used
      <4>1. i \in DOMAIN codes[u] /\ codes'[u][i] = [codes[u][i] EXCEPT !.used = @ \/ codes[u][i].code = c]
        BY <3>3 DEF MarkUsed
      <4>2. codes[u] \in Seq(Code)
        BY DEF TInv, TypeOK
      <4>3. codes[u][i] \in Code
        BY <4>1, <4>2, LenProperties, ElementOfSeq
      <4>4. codes[u][i].code = c
        BY <3>4, <4>1, <4>3 DEF Code
      <4> QED BY <4>1, <4>3, <4>4, Zenon DEF Code
    <3> QED BY <2>1, <3>2, <3>4
  <2> QED BY <2>2, <2>3
<1>4. ASSUME NEW q \in Requests, at'[q] = "use"
      PROVE  /\ of'[saw'[q].code] = of'[q]
             /\ of'[q] \in serial' => opened'[saw'[q].code] = 0
  <2>0. saw'[q].code \in Requests
    <3>1. saw'[q].code # None /\ saw'[q].code \in Tokens
      BY <1>4 DEF TInv, TypeOK, StepsFit, FitsAt, Seen
    <3> QED BY <3>1 DEF Tokens
  <2>1. CASE saw'[q] = saw[q] /\ at'[q] = at[q] /\ of'[q] = of[q]
    <3>1. of[saw[q].code] = of[q] /\ of[q] \in Users
      BY <1>4, <2>1 DEF Opens, TInv, TypeOK
    <3>2. of'[saw[q].code] = of[q]
      BY <2>0, <2>1, <3>1, UsersStay, SignInAssumption
    <3>3. ASSUME of[q] \in serial'
          PROVE  opened'[saw[q].code] = 0
      <4>1. opened[saw[q].code] = 0
        BY <1>0, <1>4, <2>1, <3>3 DEF Opens
      <4>2. ASSUME NEW r \in Requests, UseCode(r) PROVE saw[r].code # saw[q].code
        <5>1. r # q
          BY <1>1, <1>4, <4>2
        <5>2. Busies(r) /\ Busies(q)
          BY <1>1, <1>4, <2>1, <4>2 DEF Busies, InProgress
        <5>3. of[r] # of[q]
          BY <1>0, <3>3, <5>1, <5>2 DEF OneAtATime
        <5> QED BY <1>1, <3>1, <4>2, <5>3
      <4> QED BY <1>0, <2>0, <2>1, <4>1, <4>2, OpenedNext
    <3> QED BY <2>1, <3>2, <3>3
  <2>2. CASE \E u \in Users, step \in FirstSteps, seen \in Seen :
               /\ Opening(q, u, step, seen) /\ at'[q] = step /\ saw'[q] = seen /\ of'[q] = u
    <3>1. PICK u \in Users, step \in FirstSteps, seen \in Seen :
               /\ Opening(q, u, step, seen) /\ at'[q] = step /\ saw'[q] = seen /\ of'[q] = u
      BY <2>2
    <3>2. PICK i \in LatestUnused(u) : codes[u][i].code = seen.code
      BY <1>4, <3>1 DEF Opening
    <3>3. i \in DOMAIN codes[u] /\ ~codes[u][i].used
      BY <3>2 DEF LatestUnused, Unused
    <3>4. of[seen.code] = u
      BY <3>2, <3>3 DEF TInv, CodesAreOwn
    <3>5. of'[seen.code] = u
      BY <2>0, <3>1, <3>4, UsersStay, SignInAssumption
    <3>6. u \in serial => opened[seen.code] = 0
      BY <2>0, <3>1, <3>2, <3>3, <3>4 DEF Opens, RowsOf
    <3>7. opened' = opened
      BY <3>1 DEF Opening
    <3> QED BY <1>0, <3>1, <3>5, <3>6, <3>7
  <2>3. saw'[q] # Nothing
    BY <1>4 DEF TInv, StepsFit, FitsAt, Nothing
  <2>4. at'[q] \notin LaterSteps
    BY <1>4 DEF LaterSteps, Parts
  <2> QED BY <2>1, <2>2, <2>3, <2>4, SeenNext
<1> QED BY <1>2, <1>3, <1>4 DEF Opens, RowsOf

\* If requests come one at a time a code lets one through, to sign in or for a
\* password: it is used when it lets the first one through, and a request that
\* comes later does not find it.
THEOREM CodeOpensOnce == Spec => []SerialCodeOpensOnce
<1>1. Init => OneAtATime /\ Opens
  BY DEF Init, OneAtATime, Opens, Busies, InProgress
<1>2. Opens /\ TInv => SerialCodeOpensOnce
  <2> SUFFICES ASSUME Opens, TInv, NEW c \in Requests, of[c] \in serial
               PROVE  opened[c] <= 1
    BY DEF SerialCodeOpensOnce
  <2>1. opened[c] = 0 \/ opened[c] = 1
    BY DEF Opens
  <2> QED BY <2>1
<1> QED BY <1>1, <1>2, InitTInv, NextTInv, OneNext, OpensNext, PTL DEF Spec

-----------------------------------------------------------------------------
(* The newest code counts                                                  *)

\* One code counts at most.
LEMMA OneCounts ==
  ASSUME TInv, NEW u \in Users, NEW c, NEW d, Counts(u, c), Counts(u, d)
  PROVE  c = d
<1>1. codes[u] \in Seq(Code)
  BY DEF TInv, TypeOK
<1>2. DOMAIN codes[u] = 1..Len(codes[u]) /\ Len(codes[u]) \in Nat
  BY <1>1, LenProperties
<1>3. PICK i \in LatestUnused(u) : codes[u][i].code = c
  BY DEF Counts
<1>4. PICK j \in LatestUnused(u) : codes[u][j].code = d
  BY DEF Counts
<1>5. i \in DOMAIN codes[u] /\ j \in DOMAIN codes[u] /\ i <= j /\ j <= i
  BY DEF LatestUnused, Unused
<1>6. i = j
  BY <1>2, <1>5
<1> QED BY <1>3, <1>4, <1>6

\* The five minutes over, the same code counts.
LEMMA LateCounts ==
  ASSUME TInv, NEW w \in Users, Late(w), NEW u \in Users, NEW c, Counts(u, c)
  PROVE  Counts(u, c)'
<1>1. codes[u] \in Seq(Code) /\ codes \in [Users -> Seq(Code)]
  BY DEF TInv, TypeOK
<1>2. \A i \in DOMAIN codes[u] : codes[u][i] \in Code
  BY <1>1, LenProperties, ElementOfSeq
<1>3. CASE w # u
  BY <1>1, <1>3 DEF Late, Counts, LatestUnused, Unused
<1>4. CASE w = u
  <2>1. codes'[u] = [i \in DOMAIN codes[u] |-> [codes[u][i] EXCEPT !.late = TRUE]]
    BY <1>1, <1>4 DEF Late
  <2>2. DOMAIN codes'[u] = DOMAIN codes[u]
    BY <2>1
  <2>3. ASSUME NEW i \in DOMAIN codes[u]
        PROVE  /\ codes'[u][i].code = codes[u][i].code
               /\ codes'[u][i].used = codes[u][i].used
    <3>1. PICK e \in Code : e = codes[u][i]
      BY <1>2
    <3>2. codes'[u][i] = [e EXCEPT !.late = TRUE]
      BY <2>1, <3>1
    <3>3. [e EXCEPT !.late = TRUE].code = e.code /\ [e EXCEPT !.late = TRUE].used = e.used
      BY Zenon DEF Code
    <3> QED BY <3>1, <3>2, <3>3
  <2>4. PICK i \in LatestUnused(u) : codes[u][i].code = c
    BY DEF Counts
  <2>5. /\ i \in DOMAIN codes[u] /\ ~codes[u][i].used
        /\ \A j \in DOMAIN codes[u] : ~codes[u][j].used => j <= i
    BY <2>4 DEF LatestUnused, Unused
  <2>6. /\ i \in DOMAIN codes'[u] /\ ~codes'[u][i].used
        /\ \A j \in DOMAIN codes'[u] : ~codes'[u][j].used => j <= i
    BY <2>2, <2>3, <2>5
  <2>7. codes'[u][i].code = c
    BY <2>3, <2>4, <2>5
  <2> QED BY <2>6, <2>7 DEF Counts, LatestUnused, Unused
<1> QED BY <1>3, <1>4

\* A code counts as soon as it is made.
LEMMA MadeCounts ==
  ASSUME TInv, NEW r \in Requests, CreateCode(r), HasRow(r), of[r] \in Users
  PROVE  Counts(of[r], r)'
<1>1. PICK u \in Users : u = of[r] /\ u = of'[r]
  BY DEF CreateCode
<1>2. codes[u] \in Seq(Code) /\ codes \in [Users -> Seq(Code)]
  BY DEF TInv, TypeOK
<1>3. PICK e \in Code : e = [code |-> r, used |-> FALSE, late |-> FALSE]
  <2>1. [code |-> r, used |-> FALSE, late |-> FALSE] \in Code
    BY Zenon DEF Code
  <2> QED BY <2>1
<1>4. codes'[u] = Append(codes[u], e)
  BY <1>1, <1>2, <1>3 DEF CreateCode
<1>5. PICK n \in Nat : /\ n = Len(codes[u]) + 1 /\ DOMAIN codes'[u] = 1..n
                       /\ codes'[u][n] = e
  BY <1>2, <1>4, Appended
<1>6. e.code = r /\ ~e.used
  BY <1>3
<1>7. n \in DOMAIN codes'[u] /\ \A j \in DOMAIN codes'[u] : j <= n
  <2>1. Len(codes[u]) \in Nat
    BY <1>2, LenProperties
  <2> QED BY <1>5, <2>1
<1>8. n \in {i \in DOMAIN codes'[u] : ~codes'[u][i].used}
  BY <1>5, <1>6, <1>7
<1>9. \E i \in DOMAIN codes'[u] :
        /\ ~codes'[u][i].used /\ codes'[u][i].code = r
        /\ \A j \in DOMAIN codes'[u] : ~codes'[u][j].used => j <= i
  BY <1>5, <1>6, <1>7
<1> QED BY <1>1, <1>9 DEF Counts, LatestUnused, Unused

\* What there is to show of a user's newest code after a step.
LEMMA NewestIs ==
  ASSUME NEW u \in Users, NEW n, n = newest'[u],
         \A q \in Requests : of'[q] = u =>
           /\ Mailed(q)' => n = q
           /\ Unmailed(q)' => Counts(u, q)'
           /\ at'[q] \in {"use", "drop"} => n \in spent' \cup {None, saw'[q].code},
         (\A q \in Requests : of'[q] = u => ~Mailed(q)' /\ ~Unmailed(q)') =>
           n \in spent' \cup {None} \/ Counts(u, n)'
  PROVE  Newest(u)'
BY DEF Newest, Counts

\* A step that is none of a user leaves his newest code as it is.
LEMMA KeepsNewest ==
  ASSUME TInv, NEW u \in Users, Newest(u), newest'[u] = newest[u], spent \subseteq spent',
         \A c \in Requests : Counts(u, c) => Counts(u, c)',
         \A q \in Requests : of[q] = u \/ of'[q] = u =>
           /\ of'[q] = u /\ of[q] = u /\ at'[q] = at[q] /\ saw'[q] = saw[q]
           /\ q \in mail' <=> q \in mail
  PROVE  Newest(u)'
<1>1. PICK n \in Requests \cup {None} : n = newest[u] /\ n = newest'[u]
  BY DEF TInv, TypeOK, Tokens
<1>2. \A q \in Requests : of'[q] = u => /\ of[q] = u /\ Mailed(q)' = Mailed(q)
                                       /\ Unmailed(q)' = Unmailed(q)
  BY DEF Mailed, Unmailed
<1>3. ASSUME NEW q \in Requests, of'[q] = u
      PROVE  /\ Mailed(q)' => newest'[u] = q
             /\ Unmailed(q)' => Counts(u, q)'
             /\ at'[q] \in {"use", "drop"} => newest'[u] \in spent' \cup {None, saw'[q].code}
  BY <1>2, <1>3 DEF Newest
<1>4. ASSUME \A q \in Requests : of'[q] = u => ~Mailed(q)' /\ ~Unmailed(q)'
      PROVE  n \in spent' \cup {None} \/ Counts(u, n)'
  <2>1. \A q \in Requests : of[q] = u => ~Mailed(q) /\ ~Unmailed(q)
    BY <1>2, <1>4
  <2>2. n \in spent \cup {None} \/ Counts(u, n)
    BY <1>1, <2>1 DEF Newest
  <2> QED BY <1>1, <2>2
<1> QED BY <1>1, <1>3, <1>4, NewestIs

\* Only a login mails a code that it does not wait for.
LEMMA MailOnly ==
  ASSUME NEW r \in Requests, Continues(r), ~AccessToken(r)
  PROVE  mail' = mail
BY DEF Continues, CreateUser, LoginAccount, FindToken, CreateCode, OtpMailed, DropLate,
   UseCode, ResetPassword, StorePlain, WritePassword, RefreshCookie, OAuthUser, OAuthAccount,
   Redirect, MakeWaba, MakeIntegration, MakeContents, Fails

\* The steps that make a row, or come to the step that does.
LEMMA RowSteps ==
  ASSUME TInv, NEW r \in Requests, Continues(r)
  PROVE  /\ at[r] = "row" => CreateCode(r) \/ Fails(r)
         /\ at'[r] = "row" => OtpMailed(r) \/ AccessToken(r)
         /\ at'[r] \notin {"use", "drop"}
         /\ Fails(r) => of[r] \in cut'
         /\ cut \subseteq cut' /\ spent \subseteq spent'
         /\ ~OtpMailed(r) => newest' = newest
         /\ \A u \in Users : u # saw[r].to => newest'[u] = newest[u]
         /\ \A u \in Users : u # of[r] => codes'[u] = codes[u]
<1>0. at \in [Requests -> Steps] /\ of[r] \in Users /\ codes \in [Users -> Seq(Code)]
      /\ newest \in [Users -> Tokens]
  BY ContinuesStep DEF TInv, TypeOK
<1>1. at[r] = "row" => CreateCode(r) \/ Fails(r)
  BY DEF Continues, CreateUser, LoginAccount, FindToken, AccessToken, OtpMailed, DropLate, UseCode,
     ResetPassword, StorePlain, WritePassword, RefreshCookie, OAuthUser, OAuthAccount, Redirect,
     MakeWaba, MakeIntegration, MakeContents, Goes, Ends, GoesWith
<1>2. at'[r] = "row" => OtpMailed(r) \/ AccessToken(r)
  BY <1>0 DEF Continues, CreateUser, LoginAccount, FindToken, CreateCode, DropLate, UseCode,
     ResetPassword, StorePlain, WritePassword, RefreshCookie, OAuthUser, OAuthAccount, Redirect,
     MakeWaba, MakeIntegration, MakeContents, Fails, Goes, Ends, GoesWith
<1>3. at'[r] \in LaterSteps
  BY ContinuesStep
<1>4. ~OtpMailed(r) => newest' = newest
  BY DEF Continues, CreateUser, LoginAccount, FindToken, AccessToken, CreateCode, DropLate,
     UseCode, ResetPassword, StorePlain, WritePassword, RefreshCookie, OAuthUser, OAuthAccount,
     Redirect, MakeWaba, MakeIntegration, MakeContents, Fails, browser
<1>5. \A u \in Users : u # saw[r].to => newest'[u] = newest[u]
  BY <1>0, <1>4 DEF OtpMailed, Delivered
<1>6. \A u \in Users : u # of[r] => codes'[u] = codes[u]
  <2>1. CASE codes' = codes
    BY <2>1
  <2>2. CASE codes' # codes
    <3>1. CreateCode(r) \/ DropLate(r) \/ UseCode(r)
      BY <2>2, CodesChange
    <3> QED BY <1>0, <3>1 DEF CreateCode, DropLate, UseCode
  <2> QED BY <2>1, <2>2
<1>7. CASE Fails(r)
  <2>1. of[r] \in cut' /\ cut \subseteq cut' /\ spent \subseteq spent'
    BY <1>7 DEF Fails
  <2> QED BY <1>1, <1>2, <1>3, <1>4, <1>5, <1>6, <2>1 DEF LaterSteps, Parts
<1>8. CASE ~Fails(r)
  <2>1. cut' = cut /\ spent \subseteq spent'
    BY <1>8 DEF Continues, CreateUser, LoginAccount, FindToken, AccessToken, CreateCode, OtpMailed,
       DropLate, UseCode, ResetPassword, StorePlain, WritePassword, RefreshCookie, OAuthUser,
       OAuthAccount, Redirect, MakeWaba, MakeIntegration, MakeContents, observers
  <2> QED BY <1>1, <1>2, <1>3, <1>4, <1>5, <1>6, <1>8, <2>1 DEF LaterSteps, Parts
<1> QED BY <1>7, <1>8

\* What is cut off stays so.
LEMMA CutNext == ASSUME TInv, [Next]_vars PROVE cut \subseteq cut'
<1>1. ASSUME NEW u \in Users, Late(u) \/ DeleteUser(u) \/ Logout(u) \/ Hand(u)
      PROVE  cut \subseteq cut'
  BY <1>1, OwnersSteps
<1> QED BY <1>1, KindsOfSteps, StartsStep, RowSteps, ArrivesStep, RejectsStep DEF vars, observers

\* So does who is crossed, and nobody else's mail goes to one who is not.
LEMMA CrossedNext == ASSUME TInv, [Next]_vars PROVE crossed \subseteq crossed'
<1>1. ASSUME NEW r \in Requests, Starts(r)
      PROVE  crossed \subseteq crossed'
  <2>1. PICK u \in Users, step \in FirstSteps, seen \in Seen : Opening(r, u, step, seen)
    BY <1>1, Openings
  <2> QED BY <2>1 DEF Opening
<1> QED BY <1>1, KindsOfSteps, ContinuesStep, ArrivesStep, RejectsStep, OwnersSteps DEF vars, observers

LEMMA MailsNext == TInv /\ MailsMeet /\ [Next]_vars => MailsMeet'
<1> SUFFICES ASSUME TInv, MailsMeet, [Next]_vars, NEW q \in Requests
             PROVE  /\ at'[q] = "mail" =>
                         saw'[q].to = of'[q] \/ (saw'[q].to \in crossed' /\ of'[q] \in crossed')
                    /\ at'[q] = "letter" => saw'[q].to \in crossed'
  BY DEF MailsMeet
<1>1. crossed \subseteq crossed'
  BY CrossedNext
<1>2. CASE saw'[q] = saw[q] /\ at'[q] = at[q] /\ of'[q] = of[q]
  BY <1>1, <1>2 DEF MailsMeet
<1>3. ASSUME NEW u \in Users, NEW step \in FirstSteps, NEW seen \in Seen,
             Opening(q, u, step, seen), at'[q] = step, saw'[q] = seen, of'[q] = u
      PROVE  /\ at'[q] = "mail" =>
                  saw'[q].to = of'[q] \/ (saw'[q].to \in crossed' /\ of'[q] \in crossed')
             /\ at'[q] = "letter" => saw'[q].to \in crossed'
  BY <1>3 DEF Opening
<1>4. CASE saw'[q] = Nothing
  <2>1. at'[q] \notin {"mail", "letter"}
    BY <1>4, FitsNext, SignInAssumption DEF StepsFit, FitsAt, Nothing
  <2> QED BY <2>1
<1>5. CASE at'[q] \in LaterSteps
  BY <1>5 DEF LaterSteps, Parts
<1> QED BY <1>2, <1>3, <1>4, <1>5, SeenNext

\* The mail and the row of a request of a serial user come before the next
\* request begins, in either order.
LEMMA NewestNext ==
  TInv /\ TInv' /\ OneAtATime /\ MailsMeet /\ NewestCounts /\ [Next]_vars => NewestCounts'
<1> SUFFICES ASSUME TInv, TInv', OneAtATime, MailsMeet, NewestCounts, [Next]_vars,
                    NEW u \in serial', u \notin cut' \cup crossed'
             PROVE  Newest(u)'
  BY DEF NewestCounts
<1>0. u \in Users /\ u \in serial /\ Newest(u) /\ u # None /\ u \notin crossed
  BY SerialNext, CutNext, CrossedNext, SignInAssumption DEF TInv, TypeOK, NewestCounts
\* Only a request of his has a mail to him.
<1>m. ASSUME NEW r \in Requests, OtpMailed(r)
      PROVE  at[r] = "letter" \/ of[r] # u => saw[r].to # u
  BY <1>0, <1>m DEF OtpMailed, Goes, Ends, GoesWith, MailsMeet
<1>n. PICK n \in Requests \cup {None} : n = newest[u]
  BY <1>0 DEF TInv, TypeOK, Tokens
\* A code that is settled while no request of the user is busy.
<1>q. ASSUME \A q \in Requests : of[q] = u => ~Mailed(q) /\ ~Unmailed(q)
      PROVE  n \in spent \cup {None} \/ Counts(u, n)
  BY <1>0, <1>n, <1>q DEF Newest
\* Of requests of one user only one is busy.
<1>o. ASSUME NEW r \in Requests, Busies(r), of[r] = u, NEW q \in Requests \ {r}, of[q] = u
      PROVE  /\ q \notin mail /\ at[q] \in {"new", "over"} /\ ~Mailed(q) /\ ~Unmailed(q)
  <2>1. ~Busies(q)
    BY <1>0, <1>o DEF OneAtATime
  <2> QED BY <2>1 DEF Busies, InProgress, Mailed, Unmailed
<1>1. ASSUME NEW r \in Requests, Starts(r)
      PROVE  Newest(u)'
  <2>1. PICK w \in Users, step \in FirstSteps, seen \in Seen :
           /\ Opening(r, w, step, seen)
           /\ at[r] = "new" /\ of[r] = None /\ r \notin mail
           /\ at'[r] = step /\ of'[r] = w /\ saw'[r] = seen
           /\ \A q \in Requests \ {r} : at'[q] = at[q] /\ of'[q] = of[q] /\ saw'[q] = saw[q]
           /\ w \in serial' => ~Busy(w)
           /\ UNCHANGED <<rows, browser, mail, spent>>
    BY <1>1, StartsStep
  <2>2. UNCHANGED <<codes, newest, mail, spent>>
    BY <2>1 DEF rows, browser
  <2>3. CASE w # u
    <3>1. \A c \in Requests : Counts(u, c) => Counts(u, c)'
      BY <2>2 DEF Counts, LatestUnused, Unused
    <3> QED BY <1>0, <2>1, <2>2, <2>3, <3>1, KeepsNewest
  <2>4. CASE w = u
    <3>1. \A q \in Requests : of[q] = u => ~Busies(q)
      BY <2>1, <2>4 DEF Busy, Busies
    <3>2. \A q \in Requests : of[q] = u => ~Mailed(q) /\ ~Unmailed(q)
      BY <3>1 DEF Busies, InProgress, Mailed, Unmailed
    <3>3. n \in spent \cup {None} \/ Counts(u, n)
      BY <1>q, <3>2
    <3>4. n \in spent' \cup {None} \/ Counts(u, n)'
      BY <2>2, <3>3 DEF Counts, LatestUnused, Unused
    <3>5. ASSUME NEW q \in Requests, of'[q] = u
          PROVE  /\ ~Mailed(q)' /\ ~Unmailed(q)'
                 /\ at'[q] \in {"use", "drop"} => n \in spent' \cup {None, saw'[q].code}
      <4>1. CASE q = r
        <5>1. ~Mailed(q)' /\ ~Unmailed(q)'
          BY <2>1, <2>2, <4>1 DEF Mailed, Unmailed, FirstSteps
        <5>2. ASSUME step \in {"use", "drop"}
              PROVE  n \in spent \cup {None, seen.code}
          <6>1. Counts(u, seen.code)
            BY <2>1, <2>4, <5>2 DEF Opening, Counts
          <6> QED BY <1>0, <3>3, <6>1, OneCounts
        <5> QED BY <2>1, <2>2, <4>1, <5>1, <5>2
      <4>2. CASE q # r
        <5>1. of[q] = u /\ at'[q] = at[q] /\ mail' = mail
          BY <2>1, <3>5, <4>2
        <5>2. at[q] \in {"new", "over"} /\ q \notin mail
          BY <3>1, <5>1 DEF Busies, InProgress
        <5> QED BY <5>1, <5>2 DEF Mailed, Unmailed
      <4> QED BY <4>1, <4>2
    <3> QED BY <1>0, <1>n, <2>2, <3>4, <3>5, NewestIs
  <2> QED BY <2>3, <2>4
<1>2. ASSUME NEW r \in Requests, Continues(r)
      PROVE  Newest(u)'
  <2>1. PICK to \in LaterSteps, seen \in Seen :
           /\ Moving(r, to, seen) /\ of[r] \in Users /\ InProgress(r) /\ at[r] \in Steps
           /\ at'[r] = to /\ saw'[r] = seen
           /\ \A q \in Requests \ {r} : at'[q] = at[q] /\ saw'[q] = saw[q]
           /\ UNCHANGED <<of, orphans, serial, crossed>>
    BY <1>2, ContinuesStep
  <2>2. mail' \in {mail, mail \cup {r}} /\ (r \in mail' => at'[r] \in {"row", "over"})
    BY <1>2, MailChange
  <2>3. CASE of[r] # u
    <3>1. codes'[u] = codes[u] /\ newest'[u] = newest[u] /\ spent \subseteq spent'
      BY <1>0, <1>2, <1>m, <2>3, RowSteps
    <3>2. \A c \in Requests : Counts(u, c) => Counts(u, c)'
      BY <3>1 DEF Counts, LatestUnused, Unused
    <3>3. \A q \in Requests : of[q] = u \/ of'[q] = u =>
            /\ of'[q] = u /\ of[q] = u /\ at'[q] = at[q] /\ saw'[q] = saw[q]
            /\ q \in mail' <=> q \in mail
      BY <2>1, <2>2, <2>3
    <3> QED BY <1>0, <3>1, <3>2, <3>3, KeepsNewest
  <2>4. CASE of[r] = u
    <3>1. ASSUME NEW q \in Requests \ {r}, of[q] = u
          PROVE  /\ at'[q] \in {"new", "over"} /\ ~Mailed(q)' /\ ~Unmailed(q)'
                 /\ ~Mailed(q) /\ ~Unmailed(q)
      <4>1. q \notin mail /\ at[q] \in {"new", "over"} /\ ~Mailed(q) /\ ~Unmailed(q)
        BY <1>o, <2>1, <2>4, <3>1 DEF Busies
      <4>2. q \notin mail' /\ at'[q] = at[q]
        BY <2>1, <2>2, <4>1
      <4> QED BY <4>1, <4>2 DEF Mailed, Unmailed
    <3>2. ~Fails(r)
      BY <1>2, <2>4, RowSteps
    \* It is enough to look at r.
    <3>3. ASSUME NEW m \in Requests \cup {None}, m = newest'[u],
                 Mailed(r)' => m = r, Unmailed(r)' => Counts(u, r)',
                 ~Mailed(r)' /\ ~Unmailed(r)' => m \in spent' \cup {None} \/ Counts(u, m)'
          PROVE  Newest(u)'
      <4>1. at'[r] \notin {"use", "drop"}
        BY <1>2, RowSteps
      <4>2. \A q \in Requests : of'[q] = u =>
              /\ Mailed(q)' => m = q
              /\ Unmailed(q)' => Counts(u, q)'
              /\ at'[q] \in {"use", "drop"} => m \in spent' \cup {None, saw'[q].code}
        BY <2>1, <3>1, <3>3, <4>1
      <4>3. (\A q \in Requests : of'[q] = u => ~Mailed(q)' /\ ~Unmailed(q)') =>
              m \in spent' \cup {None} \/ Counts(u, m)'
        BY <2>1, <2>4, <3>3
      <4> QED BY <1>0, <3>3, <4>2, <4>3, NewestIs
    <3>9. CASE OtpMailed(r) /\ at[r] = "letter"
      <4>1. at'[r] = "over" /\ newest'[u] = n /\ r \notin mail /\ spent \subseteq spent'
        <5>1. saw[r].to # u
          BY <1>m, <3>9
        <5>2. newest'[u] = newest[u] /\ spent \subseteq spent'
          BY <1>0, <1>2, <5>1, RowSteps
        <5> QED BY <1>n, <3>9, <5>2 DEF OtpMailed, Goes, Ends, GoesWith, TInv, TypeOK, StepsFit
      <4>2. codes' = codes /\ mail' = mail
        BY <3>9 DEF OtpMailed, rows
      <4>3. ~Mailed(r) /\ ~Unmailed(r)
        BY <3>9 DEF Mailed, Unmailed
      <4>4. n \in spent \cup {None} \/ Counts(u, n)
        BY <1>q, <3>1, <4>3
      <4>5. n \in spent' \cup {None} \/ Counts(u, n)'
        BY <4>1, <4>2, <4>4 DEF Counts, LatestUnused, Unused
      <4>6. ~Mailed(r)' /\ ~Unmailed(r)'
        BY <4>1, <4>2 DEF Mailed, Unmailed
      <4> QED BY <3>3, <4>1, <4>5, <4>6
    <3>4. CASE OtpMailed(r) /\ at[r] = "mail"
      <4>0. saw[r].to = u
        BY <1>0, <2>4, <3>4 DEF MailsMeet
      <4>1. newest'[u] = r /\ at'[r] = "row"
        BY <1>0, <4>0, <3>4 DEF OtpMailed, Delivered, Goes, Ends, GoesWith, TInv, TypeOK
      <4>2. r \notin mail'
        BY <1>2, <3>4, MailOnly DEF OtpMailed, Goes, GoesWith, TInv, StepsFit
      <4>3. Mailed(r)' /\ ~Unmailed(r)'
        BY <4>1, <4>2 DEF Mailed, Unmailed
      <4> QED BY <3>3, <4>1, <4>3
    <3>5. CASE CreateCode(r)
      <4>1. at[r] = "row" /\ at'[r] = "over" /\ newest' = newest /\ mail' = mail
        BY <3>5 DEF CreateCode, Ends, GoesWith, browser, TInv, TypeOK
      <4>2. HasRow(r)
        BY <1>0, <2>1, <2>4, <4>1 DEF TInv, RowsStay, Makers, HasRow
      <4>3. Counts(u, r)'
        BY <1>0, <2>1, <2>4, <3>5, <4>2, MadeCounts DEF Counts
      <4>4. r \notin mail => n = r
        BY <1>0, <1>n, <2>4, <4>1 DEF Newest, Mailed
      <4>5. n = newest'[u] /\ ~Mailed(r)' /\ (~Unmailed(r)' => n = r)
        BY <1>n, <4>1, <4>4 DEF Mailed, Unmailed
      <4> QED BY <3>3, <4>3, <4>5
    <3>6. CASE DropLate(r) \/ UseCode(r)
      <4>1. at[r] \in {"use", "drop"} /\ at'[r] \in {"reset", "over"} /\ newest' = newest
            /\ mail' = mail /\ spent' = spent \cup {saw[r].code}
        BY <3>6 DEF DropLate, UseCode, Goes, Ends, GoesWith, browser, TInv, TypeOK
      <4>2. n \in spent \cup {None, saw[r].code}
        BY <1>0, <1>n, <2>4, <4>1 DEF Newest
      <4>3. r \notin mail
        BY <4>1 DEF TInv, StepsFit
      <4>4. n = newest'[u] /\ ~Mailed(r)' /\ ~Unmailed(r)'
        BY <1>n, <4>1, <4>3 DEF Mailed, Unmailed
      <4> QED BY <3>3, <4>1, <4>2, <4>4
    <3>7. CASE ~(OtpMailed(r) \/ CreateCode(r) \/ DropLate(r) \/ UseCode(r))
      <4>1. codes' = codes /\ newest' = newest /\ spent \subseteq spent'
        BY <1>2, <3>7, CodesChange, RowSteps
      <4>2. at[r] \notin {"row", "over"} /\ (at'[r] = "row" => AccessToken(r))
        BY <1>2, <2>1, <3>2, <3>7, RowSteps DEF InProgress
      <4>3. r \notin mail /\ ~Mailed(r) /\ ~Unmailed(r)
        BY <4>2 DEF TInv, StepsFit, Mailed, Unmailed
      <4>4. ~Mailed(r)' /\ ~Unmailed(r)'
        <5>1. CASE AccessToken(r)
          <6>1. at'[r] # "over" /\ (at'[r] = "row" => r \in mail')
            BY <5>1 DEF AccessToken, Goes, GoesWith, TInv, TypeOK
          <6> QED BY <6>1 DEF Mailed, Unmailed
        <5>2. CASE ~AccessToken(r)
          <6>1. mail' = mail
            BY <1>2, <5>2, MailOnly
          <6> QED BY <4>2, <4>3, <5>2, <6>1 DEF Mailed, Unmailed
        <5> QED BY <5>1, <5>2
      <4>5. n \in spent \cup {None} \/ Counts(u, n)
        BY <1>q, <3>1, <4>3
      <4>6. n \in spent' \cup {None} \/ Counts(u, n)'
        BY <4>1, <4>5 DEF Counts, LatestUnused, Unused
      <4>7. n = newest'[u]
        BY <1>n, <4>1
      <4> QED BY <3>3, <4>4, <4>6, <4>7
    <3>8. OtpMailed(r) => at[r] \in {"mail", "letter"}
      BY DEF OtpMailed, Goes, Ends, GoesWith
    <3> QED BY <3>4, <3>5, <3>6, <3>7, <3>8, <3>9
  <2> QED BY <2>3, <2>4
<1>3. ASSUME NEW r \in Requests, MailArrives(r)
      PROVE  Newest(u)'
  <2>1. /\ UNCHANGED <<codes, at, of, saw, spent>> /\ r \in mail /\ mail' = mail \ {r} /\ of[r] \in Users
        /\ newest' = [newest EXCEPT ![of[r]] = r]
    BY <1>3, ArrivesStep DEF rows
  <2>2. \A c \in Requests : Counts(u, c) => Counts(u, c)'
    BY <2>1 DEF Counts, LatestUnused, Unused
  <2>3. CASE of[r] # u
    <3>1. newest'[u] = newest[u] /\ spent \subseteq spent'
      BY <1>0, <2>1, <2>3 DEF TInv, TypeOK
    <3> QED BY <1>0, <2>1, <2>2, <2>3, <3>1, KeepsNewest
  <2>4. CASE of[r] = u
    <3>1. r = newest'[u] /\ r \notin mail' /\ at[r] \in {"row", "over"}
      BY <1>0, <2>1, <2>4 DEF TInv, TypeOK, StepsFit
    <3>2. ASSUME NEW q \in Requests \ {r}, of[q] = u
          PROVE  at'[q] \in {"new", "over"} /\ ~Mailed(q)' /\ ~Unmailed(q)'
      <4>1. q \notin mail /\ at[q] \in {"new", "over"}
        BY <1>o, <2>1, <2>4, <3>2 DEF Busies
      <4> QED BY <2>1, <4>1 DEF Mailed, Unmailed
    <3>3. at[r] = "over" => Counts(u, r)'
      BY <1>0, <2>1, <2>2, <2>4 DEF Newest, Unmailed
    <3>4. (~Mailed(r)' => Counts(u, r)') /\ ~Unmailed(r)'
      BY <2>1, <3>1, <3>3 DEF Mailed, Unmailed
    <3>5. \A q \in Requests : of'[q] = u =>
              /\ Mailed(q)' => r = q
              /\ Unmailed(q)' => Counts(u, q)'
              /\ at'[q] \in {"use", "drop"} => r \in spent' \cup {None, saw'[q].code}
      BY <2>1, <3>1, <3>2, <3>4
    <3>6. (\A q \in Requests : of'[q] = u => ~Mailed(q)' /\ ~Unmailed(q)') =>
              r \in spent' \cup {None} \/ Counts(u, r)'
      BY <2>1, <2>4, <3>4
    <3> QED BY <1>0, <3>1, <3>5, <3>6, NewestIs
  <2> QED BY <2>3, <2>4
<1>4. ASSUME NEW r \in Requests, MailRejects(r)
      PROVE  Newest(u)'
  <2>1. /\ \A q \in Requests : Busies(q) => of[q] \in cut'
        /\ \A q \in Requests : ~Busies(q)'
        /\ UNCHANGED <<codes, newest, of, spent>>
    BY <1>4, RejectsStep DEF rows, browser
  <2>2. \A q \in Requests : of[q] = u => ~Mailed(q) /\ ~Unmailed(q)
    BY <2>1 DEF Busies, InProgress, Mailed, Unmailed
  <2>3. n \in spent' \cup {None} \/ Counts(u, n)'
    BY <1>q, <2>1, <2>2 DEF Counts, LatestUnused, Unused
  <2>4. \A q \in Requests : ~Mailed(q)' /\ ~Unmailed(q)' /\ at'[q] \notin {"use", "drop"}
    BY <2>1 DEF Busies, InProgress, Mailed, Unmailed
  <2> QED BY <1>0, <1>n, <2>1, <2>3, <2>4, NewestIs
<1>5. ASSUME UNCHANGED <<at, of, saw, mail, newest, spent>>,
             \A c \in Requests : Counts(u, c) => Counts(u, c)'
      PROVE  Newest(u)'
  BY <1>0, <1>5, KeepsNewest
<1>6. ASSUME NEW w \in Users, Late(w)
      PROVE  Newest(u)'
  BY <1>0, <1>5, <1>6, OwnersSteps, LateCounts
<1>7. CASE UNCHANGED vars \/ \E w \in Users : DeleteUser(w) \/ Logout(w) \/ Hand(w)
  <2>1. UNCHANGED <<at, of, saw, mail, newest, spent, codes>>
    BY <1>7, HandStep DEF Hands, vars, rows, browser, progress, observers, DeleteUser, Logout
  <2> QED BY <1>5, <2>1 DEF Counts, LatestUnused, Unused
<1> QED BY <1>1, <1>2, <1>3, <1>4, <1>6, <1>7, KindsOfSteps

\* If requests come one at a time, none is cut off and none names one person for
\* the mail and another for the code, the code mailed last is the one that
\* counts until it is used or late: the mail and the row of a sign-in may come
\* in either order, but both come before the next one begins, and a mail comes
\* from elsewhere only to those who were crossed.
THEOREM NewestCodeCounts == Spec => []SerialNewestCodeCounts
<1>1. Init => OneAtATime /\ MailsMeet /\ NewestCounts
  <2> SUFFICES ASSUME Init PROVE OneAtATime /\ MailsMeet /\ NewestCounts
    OBVIOUS
  <2>1. OneAtATime
    BY DEF Init, OneAtATime, Busies, InProgress
  <2>2. \A r \in Requests : ~Mailed(r) /\ ~Unmailed(r) /\ at[r] = "new"
    BY DEF Init, Mailed, Unmailed
  <2>3. \A u \in serial : newest[u] = None
    BY DEF Init
  <2> QED BY <2>1, <2>2, <2>3 DEF NewestCounts, Newest, MailsMeet
<1>2. NewestCounts => SerialNewestCodeCounts
  <2> SUFFICES ASSUME NewestCounts, NEW u \in serial \ (cut \cup crossed), ~Busy(u),
                      newest[u] \notin spent \cup {None}
               PROVE  \E i \in LatestUnused(u) : codes[u][i].code = newest[u]
    BY DEF SerialNewestCodeCounts
  <2>1. \A r \in Requests : of[r] = u => ~Mailed(r) /\ ~Unmailed(r)
    BY DEF Busy, InProgress, Mailed, Unmailed
  <2> QED BY <2>1 DEF NewestCounts, Newest, Counts
<1> QED BY <1>1, <1>2, InitTInv, NextTInv, OneNext, MailsNext, NewestNext, PTL DEF Spec

-----------------------------------------------------------------------------
(* Cookies work                                                            *)

\* The operations that touch accounts, cookies and who has got them.
LEMMA CookiesChange ==
  ASSUME NEW r \in Requests, Continues(r)
  PROVE  /\ LoginAccount(r) \/ AccessToken(r) \/ OAuthAccount(r) \/ accounts' = accounts
         /\ UseCode(r) \/ RefreshCookie(r) \/ Redirect(r) \/ (jar' = jar /\ fresh' = fresh)
<1>1. CASE UseCode(r) \/ RefreshCookie(r) \/ Redirect(r)
  BY <1>1 DEF UseCode, RefreshCookie, Redirect, rows
<1>2. CASE LoginAccount(r) \/ AccessToken(r) \/ OAuthAccount(r)
  BY <1>2 DEF LoginAccount, AccessToken, OAuthAccount, browser, observers
<1>3. CASE ~(\/ UseCode(r) \/ RefreshCookie(r) \/ Redirect(r)
             \/ LoginAccount(r) \/ AccessToken(r) \/ OAuthAccount(r))
  BY <1>3 DEF Continues, CreateUser, FindToken, CreateCode, OtpMailed, DropLate, ResetPassword,
     StorePlain, WritePassword, OAuthUser, MakeWaba, MakeIntegration, MakeContents, Fails,
     rows, browser, observers
<1> QED BY <1>1, <1>2, <1>3

\* They touch those of the user of the request only.
LEMMA OthersCookies ==
  ASSUME TInv, NEW r \in Requests, Continues(r), NEW u \in Users, u # of[r]
  PROVE  /\ \A p \in Providers : accounts'[<<u, p>>] = accounts[<<u, p>>]
         /\ jar'[u] = jar[u] /\ (u \in fresh' <=> u \in fresh)
<1>1. of[r] \in Users /\ accounts \in [Users \X Providers -> Account \cup {None}]
      /\ jar \in [Users -> Account]
  BY AccountsChange DEF TInv, TypeOK
<1>2. \A p \in Providers : accounts'[<<u, p>>] = accounts[<<u, p>>]
  <2>1. CASE accounts' = accounts
    BY <2>1
  <2>2. CASE accounts' # accounts
    <3>1. PICK o \in Providers, e \in Account : accounts' = [accounts EXCEPT ![<<of[r], o>>] = e]
      BY <2>2, AccountsChange
    <3> QED BY <1>1, <3>1
  <2> QED BY <2>1, <2>2
<1>3. jar'[u] = jar[u]
  BY <1>1, JarChange
<1>4. u \in fresh' <=> u \in fresh
  BY <1>1, CookiesChange DEF UseCode, HandOut, RefreshCookie, Redirect
<1> QED BY <1>2, <1>3, <1>4

\* Cookies hold as long as nothing of the user changes but a cookie he drops,
LEMMA KeepsCookies ==
  ASSUME NEW u \in Users, CookiesHold(u),
         \A p \in Providers : accounts'[<<u, p>>] = accounts[<<u, p>>],
         jar'[u].refresh = jar[u].refresh, jar'[u].access \in {None, jar[u].access}
  PROVE  CookiesHold(u)'
<1>1. PICK p \in Providers : Has(u, p) /\ accounts[<<u, p>>].refresh = jar[u].refresh
  BY DEF CookiesHold
<1>2. Has(u, p)' /\ accounts'[<<u, p>>].refresh = jar'[u].refresh
  BY <1>1 DEF Has
<1>3. ASSUME jar'[u].access # None
      PROVE  \E o \in Providers : Has(u, o)' /\ accounts'[<<u, o>>].access = jar'[u].access
  <2>1. jar'[u].access = jar[u].access
    BY <1>3
  <2>2. PICK o \in Providers : Has(u, o) /\ accounts[<<u, o>>].access = jar[u].access
    BY <1>3, <2>1 DEF CookiesHold
  <2> QED BY <2>1, <2>2 DEF Has
<1> QED BY <1>2, <1>3 DEF CookiesHold

\* and as they are when they are those of an account.
LEMMA AccountCookies ==
  ASSUME NEW u \in Users, NEW p \in Providers, Has(u, p)',
         accounts'[<<u, p>>].refresh = jar'[u].refresh,
         accounts'[<<u, p>>].access = jar'[u].access
  PROVE  CookiesHold(u)'
BY DEF CookiesHold

\* A request that does nothing keeps what it relies on.
LEMMA KeepsRenewing ==
  ASSUME TInv, NEW q \in Requests, Renewing(q), of[q] \in Users,
         of'[q] = of[q], at'[q] = at[q], saw'[q] = saw[q],
         of[q] \in fresh' => of[q] \in fresh,
         \A p \in Providers : accounts'[<<of[q], p>>] = accounts[<<of[q], p>>],
         jar'[of[q]].refresh = jar[of[q]].refresh
  PROVE  Renewing(q)'
<1>1. saw[q].by \in Providers /\ "email" \in Providers
  BY SignInAssumption DEF TInv, TypeOK, Seen
<1>2. Taken(q)' = Taken(q)
  BY <1>1 DEF Taken
<1>3. InProgress(q)' = InProgress(q)
  BY DEF InProgress
<1>4. PICK u \in Users, p \in Providers :
        /\ u = of[q] /\ u = of'[q] /\ p = saw[q].by /\ p = saw'[q].by
        /\ accounts'[<<u, p>>] = accounts[<<u, p>>]
        /\ accounts'[<<u, "email">>] = accounts[<<u, "email">>]
        /\ jar'[u].refresh = jar[u].refresh /\ (u \in fresh' => u \in fresh)
  BY <1>1
<1>5. saw'[q] = saw[q] /\ at'[q] = at[q]
  OBVIOUS
<1> QED BY <1>2, <1>3, <1>4, <1>5 DEF Renewing, Has

\* One that is over relies on nothing.
LEMMA IdleRenewing ==
  ASSUME NEW q \in Requests, at'[q] \in {"new", "over"}
  PROVE  Renewing(q)'
BY DEF Renewing, InProgress

\* Which operations come to a token, and which make a sign-in of Facebook.
LEMMA TokenSteps ==
  ASSUME TInv, NEW r \in Requests, Continues(r)
  PROVE  /\ at'[r] = "access" => FindToken(r)
         /\ at'[r] = "cookie" => AccessToken(r)
         /\ at'[r] = "token" => LoginAccount(r) \/ OAuthAccount(r)
         /\ at'[r] # "use"
         /\ ~OAuthAccount(r) => at'[r] = "over" \/ saw'[r].op = saw[r].op
<1>0. at \in [Requests -> Steps] /\ saw \in [Requests -> Seen]
  BY DEF TInv, TypeOK
<1>1. ASSUME NEW p \in Providers
      PROVE  [saw[r] EXCEPT !.by = p].op = saw[r].op
  BY <1>0 DEF Seen
<1>2. CASE FindToken(r)
  <2>1. CASE Ends(r, "token")
    BY <1>0, <2>1 DEF Ends, GoesWith
  <2>2. CASE \E k \in HolderOf("refresh", saw[r].key) :
               GoesWith(r, "token", "access", [saw[r] EXCEPT !.by = k[2]])
    BY <1>0, <1>1, <1>2, <2>2 DEF GoesWith, HolderOf
  <2> QED BY <1>2, <2>1, <2>2 DEF FindToken
<1>3. CASE ~FindToken(r)
  BY <1>0, <1>3 DEF Continues, CreateUser, LoginAccount, AccessToken, CreateCode, OtpMailed,
     DropLate, UseCode, ResetPassword, StorePlain, WritePassword, RefreshCookie, OAuthUser,
     OAuthAccount, Redirect, MakeWaba, MakeIntegration, MakeContents, Fails, Goes, Ends, GoesWith
<1> QED BY <1>2, <1>3

\* A request of a serial user finds the account as it left it.
LEMMA CookiesNext ==
  TInv /\ TInv' /\ OneAtATime /\ CookiesRenewed /\ [Next]_vars => CookiesRenewed'
<1> SUFFICES ASSUME TInv, TInv', OneAtATime, CookiesRenewed, [Next]_vars, NEW u \in serial'
             PROVE  /\ u \in fresh' => CookiesHold(u)'
                    /\ \A q \in Requests : of'[q] = u => Renewing(q)'
  BY DEF CookiesRenewed
<1>0. u \in Users /\ u \in serial /\ u # None
  BY SerialNext, SignInAssumption DEF TInv, TypeOK
<1>a. /\ u \in fresh => CookiesHold(u)
      /\ \A q \in Requests : of[q] = u => Renewing(q)
  BY <1>0 DEF CookiesRenewed
<1>t. /\ accounts \in [Users \X Providers -> Account \cup {None}] /\ jar \in [Users -> Account]
      /\ fresh \subseteq Users /\ at' \in [Requests -> Steps]
  BY DEF TInv, TypeOK
\* A step that is none of the user.
<1>s. ASSUME \A p \in Providers : accounts'[<<u, p>>] = accounts[<<u, p>>],
             jar'[u].refresh = jar[u].refresh, jar'[u].access \in {None, jar[u].access},
             u \in fresh' => u \in fresh,
             \A q \in Requests : of'[q] = u =>
               at'[q] \in {"new", "over"} \/ (of[q] = u /\ at'[q] = at[q] /\ saw'[q] = saw[q])
      PROVE  /\ u \in fresh' => CookiesHold(u)'
             /\ \A q \in Requests : of'[q] = u => Renewing(q)'
  <2>1. u \in fresh' => CookiesHold(u)'
    BY <1>0, <1>a, <1>s, KeepsCookies
  <2>2. ASSUME NEW q \in Requests, of'[q] = u PROVE Renewing(q)'
    <3>1. CASE at'[q] \in {"new", "over"}
      BY <3>1, IdleRenewing
    <3>2. CASE of[q] = u /\ at'[q] = at[q] /\ saw'[q] = saw[q]
      BY <1>0, <1>a, <1>s, <2>2, <3>2, KeepsRenewing
    <3> QED BY <1>s, <2>2, <3>1, <3>2
  <2> QED BY <2>1, <2>2
<1>1. ASSUME NEW r \in Requests, Starts(r)
      PROVE  /\ u \in fresh' => CookiesHold(u)'
             /\ \A q \in Requests : of'[q] = u => Renewing(q)'
  <2>1. PICK w \in Users, step \in FirstSteps, seen \in Seen :
           /\ Opening(r, w, step, seen) /\ of[r] = None
           /\ at'[r] = step /\ of'[r] = w /\ saw'[r] = seen
           /\ \A q \in Requests \ {r} : at'[q] = at[q] /\ of'[q] = of[q] /\ saw'[q] = saw[q]
           /\ w \in serial' => ~Busy(w)
           /\ UNCHANGED <<rows, browser>>
    BY <1>1, StartsStep
  <2>2. UNCHANGED <<accounts, jar>>
    BY <2>1 DEF rows, browser
  <2>3. fresh' = IF seen.op \in Renews THEN fresh \ {w} ELSE fresh
    BY <2>1 DEF Opening
  <2>4. CASE w # u
    BY <1>s, <2>1, <2>2, <2>3, <2>4
  <2>5. CASE w = u
    <3>1. u \in fresh' => CookiesHold(u)'
      BY <1>0, <1>a, <2>2, <2>3, KeepsCookies
    <3>2. ASSUME NEW q \in Requests \ {r}, of'[q] = u
          PROVE  Renewing(q)'
      <4>1. at'[q] \in {"new", "over"}
        BY <2>1, <2>5, <3>2 DEF Busy, InProgress
      <4> QED BY <4>1, IdleRenewing
    <3>3. Renewing(r)'
      <4>1. FitsAt(step, seen) /\ (seen.acc # None => seen.acc = accounts[<<u, "email">>])
            /\ (seen.op = "refresh" => seen.key = jar[u].refresh)
        BY <2>1, <2>5 DEF Opening
      <4>2. /\ step = "use" /\ seen.op = "verify" => accounts'[<<u, "email">>] = seen.acc
            /\ step \notin {"access", "cookie"} /\ (seen.op \in Renews => u \notin fresh')
        BY <2>2, <2>3, <2>5, <4>1 DEF FitsAt, FirstSteps
      <4> QED BY <2>1, <2>2, <2>5, <4>1, <4>2 DEF Renewing
    <3> QED BY <3>1, <3>2, <3>3
  <2> QED BY <2>4, <2>5
<1>2. ASSUME NEW r \in Requests, Continues(r)
      PROVE  /\ u \in fresh' => CookiesHold(u)'
             /\ \A q \in Requests : of'[q] = u => Renewing(q)'
  <2>1. PICK to \in LaterSteps, seen \in Seen :
           /\ Moving(r, to, seen) /\ of[r] \in Users /\ InProgress(r)
           /\ at'[r] = to /\ saw'[r] = seen
           /\ \A q \in Requests \ {r} : at'[q] = at[q] /\ saw'[q] = saw[q]
           /\ UNCHANGED of
    BY <1>2, ContinuesStep
  <2>2. CASE of[r] # u
    BY <1>0, <1>2, <1>s, <2>1, <2>2, OthersCookies
  <2>3. CASE of[r] = u
    <3>1. Renewing(r) /\ saw[r] \in Seen /\ saw[r].by \in Providers
      BY <1>a, <2>3 DEF TInv, TypeOK, Seen
    <3>2. ASSUME NEW q \in Requests \ {r}, of'[q] = u
          PROVE  Renewing(q)'
      <4>1. at'[q] \in {"new", "over"}
        BY <1>0, <2>1, <2>3, <3>2 DEF OneAtATime, Busies, InProgress
      <4> QED BY <4>1, IdleRenewing
    \* A request that renews the tokens: the cookies are not fresh.
    <3>3. ASSUME saw[r].op \in Renews, fresh' = fresh, jar' = jar,
                 to \in {"access", "cookie"} /\ saw[r].op = "refresh" =>
                   /\ Has(u, seen.by)' /\ accounts'[<<u, seen.by>>].refresh = saw[r].key
                   /\ to = "cookie" => accounts'[<<u, seen.by>>].access = r,
                 to = "cookie" => saw[r].op = "refresh"
          PROVE  /\ u \in fresh' => CookiesHold(u)'
                 /\ Renewing(r)'
      <4>1. u \notin fresh'
        BY <2>1, <2>3, <3>1, <3>3 DEF Renewing
      <4>2. CASE to = "over"
        BY <2>1, <4>1, <4>2, IdleRenewing
      <4>3. CASE to # "over"
        <5>1. seen.key = saw[r].key /\ (seen.op = "refresh" <=> saw[r].op = "refresh")
              /\ to # "use"
          <6>1. at[r] = "account" => saw[r].op # "refresh"
            BY DEF TInv, StepsFit, FitsAt
          <6> QED BY <2>1, <4>3, <6>1 DEF Moving, LaterSteps, Parts
        <5>2. saw[r].op = "refresh" => saw[r].key = jar'[u].refresh
          BY <2>1, <2>3, <3>1, <3>3 DEF Renewing
        <5>3. of'[r] = u /\ at'[r] = to /\ saw'[r] = seen
          BY <2>1, <2>3
        <5> QED BY <3>3, <4>1, <5>1, <5>2, <5>3 DEF Renewing, Taken, Has
      <4> QED BY <4>2, <4>3
    <3>4. CASE LoginAccount(r)
      <4>1. saw[r].op = "login" /\ to \notin {"access", "cookie"} /\ fresh' = fresh /\ jar' = jar
        BY <2>1, <3>4 DEF LoginAccount, Goes, Ends, GoesWith, observers, browser, TInv, TypeOK
      <4> QED BY <2>1, <3>2, <3>3, <4>1 DEF Renews
    <3>5. CASE FindToken(r)
      <4>1. at[r] = "token" /\ fresh' = fresh /\ jar' = jar /\ accounts' = accounts
            /\ to \in {"access", "over"}
        BY <2>1, <3>5 DEF FindToken, Ends, GoesWith, observers, browser, rows, TInv, TypeOK
      <4>2. saw[r].op \in Renews
        BY <4>1 DEF TInv, StepsFit, FitsAt, Renews
      <4>3. ASSUME to = "access"
            PROVE  Has(u, seen.by) /\ accounts[<<u, seen.by>>].refresh = saw[r].key
        <5>1. PICK k \in HolderOf("refresh", saw[r].key) : saw'[r] = [saw[r] EXCEPT !.by = k[2]]
          BY <2>1, <3>5, <4>3 DEF FindToken, Ends, GoesWith, TInv, TypeOK
        <5>2. PICK x \in Users, p \in Providers : /\ k = <<x, p>> /\ Has(x, p)
                                              /\ accounts[<<x, p>>].refresh = saw[r].key
          BY <5>1 DEF HolderOf, Has
        <5>3. Own(x, saw[r].key) /\ Own(u, saw[r].key)
          BY <2>3, <4>1, <5>2 DEF TInv, TokensAreOwn
        <5>4. x = u /\ seen.by = p
          BY <2>1, <3>1, <5>1, <5>2, <5>3 DEF Own, Seen
        <5> QED BY <5>2, <5>4
      <4>4. to = "access" => Has(u, seen.by)' /\ accounts'[<<u, seen.by>>].refresh = saw[r].key
        BY <2>1, <4>1, <4>3 DEF Has
      <4> QED BY <3>2, <3>3, <4>1, <4>2, <4>4
    <3>6. CASE AccessToken(r)
      <4>1. at[r] = "access" /\ fresh' = fresh /\ jar' = jar /\ seen = saw[r]
            /\ (to \in {"access", "cookie"} => saw[r].op = "refresh")
        BY <2>1, <3>6 DEF AccessToken, Goes, GoesWith, observers, browser, TInv, TypeOK
      <4>2. saw[r].op \in Renews
        BY <4>1 DEF TInv, StepsFit, FitsAt, Renews
      <4>3. Has(u, seen.by) /\ (saw[r].op = "refresh" => accounts[<<u, seen.by>>].refresh = saw[r].key)
        BY <2>3, <3>1, <4>1 DEF Renewing, Taken, TInv, AccountsStay
      <4>4. PICK e \in Account : e = accounts[<<u, seen.by>>]
        BY <1>0, <1>t, <3>1, <4>1, <4>3 DEF Has
      <4>5. accounts'[<<u, seen.by>>] = [e EXCEPT !.access = r]
        BY <1>0, <1>t, <2>3, <3>1, <3>6, <4>1, <4>4 DEF AccessToken, StoreToken
      <4>6. r \in Tokens
        BY DEF Tokens
      <4>7. PICK f \in Account : /\ f = accounts'[<<u, seen.by>>]
                                /\ f.access = r /\ f.refresh = e.refresh
        <5>1. PICK f : f = [e EXCEPT !.access = r]
          OBVIOUS
        <5>2. f \in Account /\ f.access = r /\ f.refresh = e.refresh
          BY <4>6, <5>1, AccountsAre
        <5> QED BY <4>5, <5>1, <5>2
      <4>8. Has(u, seen.by)'
        BY <2>1, <4>7, NoneAssumption DEF Has
      <4> QED BY <3>2, <3>3, <4>1, <4>2, <4>3, <4>4, <4>7, <4>8
    <3>7. CASE OAuthAccount(r)
      <4>1. saw[r].op = "oauth" /\ to \notin {"access", "cookie"} /\ fresh' = fresh /\ jar' = jar
        BY <2>1, <3>7 DEF OAuthAccount, Ends, GoesWith, observers, browser, TInv, TypeOK
      <4> QED BY <2>1, <3>2, <3>3, <4>1 DEF Renews
    <3>8. CASE UseCode(r)
      <4>1. at[r] = "use" /\ accounts' = accounts /\ to \in {"reset", "over"}
            /\ (to = "reset" => saw[r].op = "forgot")
        BY <2>1, <3>8 DEF UseCode, Goes, Ends, GoesWith, TInv, TypeOK
      <4>2. Renewing(r)'
        <5>1. CASE to = "over"
          BY <2>1, <5>1, IdleRenewing
        <5>2. CASE to = "reset" /\ saw[r].op = "forgot"
          <6>1. seen.op = "forgot"
            BY <2>1, <4>1, <5>2 DEF Moving
          <6> QED BY <2>1, <5>2, <6>1 DEF Renewing, Renews
        <5> QED BY <4>1, <5>1, <5>2
      <4>3. ASSUME u \in fresh' PROVE CookiesHold(u)'
        <5>1. CASE jar' = jar /\ fresh' = fresh
          BY <1>0, <1>a, <4>1, <4>3, <5>1, KeepsCookies
        <5>2. CASE jar' = [jar EXCEPT ![u] = saw[r].acc] /\ saw[r].op = "verify"
          <6>1. saw[r].acc = accounts[<<u, "email">>] /\ saw[r].acc # None
            BY <2>3, <3>1, <4>1, <5>2 DEF Renewing, TInv, StepsFit, FitsAt
          <6>2. jar'[u] = accounts'[<<u, "email">>] /\ Has(u, "email")'
            BY <1>0, <1>t, <4>1, <5>2, <6>1 DEF Has
          <6> QED BY <1>0, <6>2, AccountCookies, SignInAssumption
        <5> QED BY <2>3, <3>8, <5>1, <5>2 DEF UseCode, HandOut
      <4> QED BY <3>2, <4>2, <4>3
    <3>9. CASE RefreshCookie(r)
      <4>1. at[r] = "cookie" /\ to = "over" /\ accounts' = accounts
            /\ jar' = [jar EXCEPT ![u].access = r]
        BY <2>1, <2>3, <3>9 DEF RefreshCookie, Ends, GoesWith, TInv, TypeOK, rows
      <4>2. saw[r].op = "refresh"
        BY <4>1 DEF TInv, StepsFit, FitsAt
      <4>3. /\ Has(u, saw[r].by) /\ accounts[<<u, saw[r].by>>].refresh = jar[u].refresh
            /\ accounts[<<u, saw[r].by>>].access = r
        BY <2>1, <2>3, <3>1, <4>1, <4>2 DEF Renewing, Taken
      <4>4. jar[u] \in Account /\ r \in Tokens
        BY <1>0, <1>t DEF Tokens
      <4>5. PICK c \in Account : c = jar'[u] /\ c.access = r /\ c.refresh = jar[u].refresh
        <5>1. PICK j \in Account : j = jar[u]
          BY <4>4
        <5>2. jar'[u] = [j EXCEPT !.access = r]
          BY <1>0, <1>t, <4>1, <5>1
        <5>3. PICK c : c = [j EXCEPT !.access = r]
          OBVIOUS
        <5>4. c \in Account /\ c.access = r /\ c.refresh = j.refresh
          BY <4>4, <5>3, AccountsAre
        <5> QED BY <5>1, <5>2, <5>3, <5>4
      <4>6. CookiesHold(u)'
        BY <1>0, <3>1, <4>1, <4>3, <4>5, AccountCookies DEF Has
      <4> QED BY <2>1, <3>2, <4>1, <4>6, IdleRenewing
    <3>10. CASE Redirect(r)
      <4>1. at[r] = "redirect" /\ to = "over" /\ accounts' = accounts
            /\ jar' = [jar EXCEPT ![u] = accounts[<<u, saw[r].by>>]]
        BY <2>1, <2>3, <3>10 DEF Redirect, Ends, GoesWith, TInv, TypeOK, rows
      <4>2. PICK p \in Providers : p = saw[r].by /\ Has(u, p)
        BY <2>3, <3>1, <4>1 DEF TInv, AccountsStay
      <4>3. jar'[u] = accounts'[<<u, p>>] /\ Has(u, p)'
        BY <1>0, <1>t, <4>1, <4>2 DEF Has
      <4>4. CookiesHold(u)'
        BY <1>0, <4>3, AccountCookies
      <4> QED BY <2>1, <3>2, <4>1, <4>4, IdleRenewing
    <3>11. CASE ~(\/ LoginAccount(r) \/ FindToken(r) \/ AccessToken(r) \/ OAuthAccount(r)
                  \/ UseCode(r) \/ RefreshCookie(r) \/ Redirect(r))
      <4>1. accounts' = accounts /\ jar' = jar /\ fresh' = fresh
        BY <1>2, <3>11, CookiesChange
      <4>2. u \in fresh' => CookiesHold(u)'
        BY <1>0, <1>a, <4>1, KeepsCookies
      <4>3. to \notin {"access", "cookie", "use"}
        BY <1>2, <2>1, <3>11, TokenSteps
      <4>4. Renewing(r)'
        <5>1. CASE to = "over"
          BY <2>1, <5>1, IdleRenewing
        <5>2. CASE to # "over"
          <6>1. seen.op = saw[r].op /\ seen.key = saw[r].key
            BY <1>2, <2>1, <3>11, <5>2, TokenSteps DEF Moving
          <6>2. /\ saw[r].op \in Renews => u \notin fresh'
                /\ saw[r].op = "refresh" => saw[r].key = jar'[u].refresh
            BY <2>1, <2>3, <3>1, <4>1 DEF Renewing
          <6>3. of'[r] = u
            BY <2>1, <2>3
          <6> QED BY <2>1, <4>3, <6>1, <6>2, <6>3 DEF Renewing
        <5> QED BY <5>1, <5>2
      <4> QED BY <3>2, <4>2, <4>4
    <3> QED BY <3>4, <3>5, <3>6, <3>7, <3>8, <3>9, <3>10, <3>11
  <2> QED BY <2>2, <2>3
<1>3. CASE \E r \in Requests : MailArrives(r)
  <2>1. UNCHANGED <<accounts, jar, fresh, at, of, saw>>
    BY <1>3, ArrivesStep DEF rows
  <2> QED BY <1>s, <2>1
<1>4. CASE \E r \in Requests : MailRejects(r)
  <2>1. UNCHANGED <<accounts, jar, fresh>> /\ \A q \in Requests : at'[q] \in {"new", "over"}
    BY <1>4, RejectsStep DEF rows, browser, InProgress
  <2> QED BY <1>s, <2>1
<1>5. ASSUME NEW w \in Users, Late(w) \/ DeleteUser(w) \/ Logout(w) \/ Hand(w)
      PROVE  /\ u \in fresh' => CookiesHold(u)'
             /\ \A q \in Requests : of'[q] = u => Renewing(q)'
  <2>1. UNCHANGED <<accounts, fresh, at, of, saw>>
    BY <1>5, OwnersSteps
  <2>2. jar'[u].refresh = jar[u].refresh /\ jar'[u].access \in {None, jar[u].access}
    <3>1. CASE jar' = jar
      BY <3>1
    <3>2. CASE jar' = [jar EXCEPT ![w].access = None]
      <4>1. jar[u] \in Account /\ None \in Tokens
        BY <1>0, <1>t DEF Tokens
      <4>2. PICK j \in Account : j = jar[u]
        BY <4>1
      <4>3. PICK c : c = [j EXCEPT !.access = None]
        OBVIOUS
      <4>4. c.access = None /\ c.refresh = j.refresh
        BY <4>1, <4>3, AccountsAre
      <4>5. jar'[u] \in {j, c}
        BY <1>0, <1>t, <3>2, <4>2, <4>3
      <4> QED BY <4>2, <4>4, <4>5
    <3> QED BY <1>5, <3>1, <3>2, HandStep DEF Hands, Late, DeleteUser, Logout, browser
  <2> QED BY <1>s, <2>1, <2>2
<1>6. CASE UNCHANGED vars
  BY <1>6, <1>s DEF vars, rows, browser, progress, observers
<1> QED BY <1>1, <1>2, <1>3, <1>4, <1>5, <1>6, KindsOfSteps

\* If requests come one at a time, cookies handed out are those of an account,
\* so that AuthMiddleware and refresh accept them, until another sign-in
\* begins or the user logs out.
THEOREM CookiesWork == Spec => []SerialCookiesWork
<1>1. Init => OneAtATime /\ CookiesRenewed
  BY DEF Init, OneAtATime, Busies, InProgress, CookiesRenewed, Renewing
<1>2. TInv /\ CookiesRenewed => SerialCookiesWork
  <2> SUFFICES ASSUME TInv, CookiesRenewed, NEW u \in fresh \cap serial, jar[u].access # None
               PROVE  Accepted(u) /\ HolderOf("refresh", jar[u].refresh) # {}
    BY DEF SerialCookiesWork
  <2>0. u \in Users /\ CookiesHold(u)
    BY DEF TInv, TypeOK, CookiesRenewed
  <2>1. PICK p \in Providers : Has(u, p) /\ accounts[<<u, p>>].refresh = jar[u].refresh
    BY <2>0 DEF CookiesHold
  <2>2. PICK o \in Providers : Has(u, o) /\ accounts[<<u, o>>].access = jar[u].access
    BY <2>0 DEF CookiesHold
  <2>3. <<u, p>> \in HolderOf("refresh", jar[u].refresh)
    BY <2>0, <2>1 DEF HolderOf, Has
  <2>4. <<u, o>> \in HolderOf("access", jar[u].access)
    BY <2>0, <2>2 DEF HolderOf, Has
  <2> QED BY <2>3, <2>4 DEF Accepted
<1> QED BY <1>1, <1>2, InitTInv, NextTInv, OneNext, CookiesNext, PTL DEF Spec

-----------------------------------------------------------------------------
(* Users of Google and Facebook are complete                               *)

\* What a request does at its steps.
LEMMA OAuthSteps ==
  ASSUME TInv, NEW r \in Requests, Continues(r)
  PROVE  /\ at'[r] = "account" => OAuthUser(r) /\ stored[of[r]] = None
         /\ at[r] = "account" /\ saw[r].op = "oauth" => OAuthAccount(r) \/ Fails(r)
         /\ at[r] = "token" => FindToken(r) \/ Fails(r)
         /\ at[r] = "access" => AccessToken(r) \/ Fails(r)
         /\ at[r] = "waba" => MakeWaba(r) \/ Fails(r)
         /\ at[r] = "integration" => MakeIntegration(r) \/ Fails(r)
         /\ at[r] = "contents" => MakeContents(r) \/ Fails(r)
         /\ at[r] = "redirect" => Redirect(r) \/ Fails(r)
         /\ Fails(r) => of[r] \in cut'
<1>0. at \in [Requests -> Steps] /\ saw \in [Requests -> Seen]
  BY DEF TInv, TypeOK
<1>1. at'[r] = "account" => OAuthUser(r) /\ stored[of[r]] = None
  BY <1>0 DEF Continues, CreateUser, LoginAccount, FindToken, AccessToken, CreateCode, OtpMailed,
     DropLate, UseCode, ResetPassword, StorePlain, WritePassword, RefreshCookie, OAuthUser,
     OAuthAccount, Redirect, MakeWaba, MakeIntegration, MakeContents, Fails, Goes, Ends, GoesWith
<1>2. /\ at[r] = "account" /\ saw[r].op = "oauth" => OAuthAccount(r) \/ Fails(r)
      /\ at[r] = "token" => FindToken(r) \/ Fails(r)
      /\ at[r] = "access" => AccessToken(r) \/ Fails(r)
      /\ at[r] = "waba" => MakeWaba(r) \/ Fails(r)
      /\ at[r] = "integration" => MakeIntegration(r) \/ Fails(r)
      /\ at[r] = "contents" => MakeContents(r) \/ Fails(r)
      /\ at[r] = "redirect" => Redirect(r) \/ Fails(r)
  BY DEF Continues, CreateUser, LoginAccount, FindToken, AccessToken, CreateCode, OtpMailed,
     DropLate, UseCode, ResetPassword, StorePlain, WritePassword, RefreshCookie, OAuthUser,
     OAuthAccount, Redirect, MakeWaba, MakeIntegration, MakeContents, Goes, Ends, GoesWith
<1>3. Fails(r) => of[r] \in cut'
  BY DEF Fails
<1> QED BY <1>1, <1>2, <1>3

\* A request is an orphan for good, ...
Orphaned(r) == \/ DeleteUser(of[r]) \/ saw[r].op = "forgot"
               \/ Hand(of[r]) /\ at[r] = "contents"
LEMMA OrphansNext ==
  ASSUME TInv, [Next]_vars
  PROVE  /\ orphans \subseteq orphans'
         /\ \A r \in Requests : r \in orphans' => r \in orphans \/ Orphaned(r)
<1>1. ASSUME NEW u \in Users, DeleteUser(u)
      PROVE  /\ orphans \subseteq orphans'
             /\ \A r \in Requests : r \in orphans' => r \in orphans \/ Orphaned(r)
  <2>1. /\ orphans \subseteq orphans'
        /\ \A r \in orphans' : r \in orphans \/ of[r] = u \/ saw[r].id = u
    BY <1>1 DEF DeleteUser
  <2>2. \A r \in Requests : saw[r].id = u => saw[r].op = "forgot"
    BY SignInAssumption DEF TInv, StepsFit, FitsAt
  <2>3. ASSUME NEW r \in Requests, r \in orphans', r \notin orphans, of[r] = u
        PROVE  DeleteUser(of[r])
    BY <1>1, <2>3
  <2> QED BY <2>1, <2>2, <2>3 DEF Orphaned
<1>2. ASSUME NEW u \in Users, Late(u) \/ Logout(u)
      PROVE  orphans' = orphans
  BY <1>2 DEF Late, Logout, progress
<1>3. ASSUME NEW u \in Users, Hand(u)
      PROVE  /\ orphans \subseteq orphans'
             /\ \A r \in Requests : r \in orphans' => r \in orphans \/ Orphaned(r)
  <2>1. /\ orphans \subseteq orphans'
        /\ \A r \in orphans' \ orphans : of[r] = u /\ at[r] = "contents"
    BY <1>3, HandStep DEF Hands
  <2>2. ASSUME NEW r \in Requests, r \in orphans', r \notin orphans
        PROVE  Hand(of[r]) /\ at[r] = "contents"
    BY <1>3, <2>1, <2>2
  <2> QED BY <2>1, <2>2 DEF Orphaned
<1> QED BY <1>1, <1>2, <1>3, KindsOfSteps, StartsStep, ContinuesStep, ArrivesStep, RejectsStep
        DEF vars, progress

\* ... and waits at its step until it goes on, or is cut off.
LEMMA StepNext ==
  ASSUME TInv, [Next]_vars, NEW r \in Requests, InProgress(r)
  PROVE  /\ of'[r] = of[r]
         /\ \/ at'[r] = at[r] /\ saw'[r] = saw[r]
            \/ Continues(r)
            \/ of[r] \in cut'
<1>0. at[r] # "new"
  BY DEF InProgress
<1>1. ASSUME NEW q \in Requests, Starts(q)
      PROVE  at'[r] = at[r] /\ saw'[r] = saw[r] /\ of'[r] = of[r]
  BY <1>0, <1>1, StartsStep
<1>2. ASSUME NEW q \in Requests, Continues(q)
      PROVE  of'[r] = of[r] /\ (Continues(r) \/ (at'[r] = at[r] /\ saw'[r] = saw[r]))
  <2>1. UNCHANGED of /\ \A x \in Requests \ {q} : at'[x] = at[x] /\ saw'[x] = saw[x]
    BY <1>2, ContinuesStep
  <2> QED BY <1>2, <2>1
<1>3. ASSUME NEW q \in Requests, MailRejects(q)
      PROVE  of'[r] = of[r] /\ of[r] \in cut'
  BY <1>3, RejectsStep DEF Busies
<1> QED BY <1>1, <1>2, <1>3, KindsOfSteps, OwnersSteps, ArrivesStep DEF vars, progress

\* An account with Google or Facebook is made by a sign-in that has made the
\* user, and so are the tokens of one with Facebook.
Makes(r, p) ==
  /\ OAuthAccount(r) /\ Making(r) /\ saw[r].by = p
  /\ at'[r] = "token" /\ of'[r] = of[r] /\ r \notin orphans'
  /\ accounts'[<<of[r], p>>].refresh = r /\ Has(of[r], p)'
  /\ p = "facebook" => saw'[r].op = "joined" /\ saw'[r].key = saw[r].key
\* That is so when the row is still there.
LEMMA AccountMade ==
  ASSUME TInv, NEW r \in Requests, OAuthAccount(r), at[r] = "account", at'[r] # "over"
  PROVE  Makes(r, saw[r].by)
<1>0. /\ accounts \in [Users \X Providers -> Account \cup {None}] /\ at \in [Requests -> Steps]
      /\ saw \in [Requests -> Seen] /\ r \in Tokens /\ None \in Tokens
  BY DEF TInv, TypeOK, Tokens
<1>1. of[r] \in Users /\ saw[r].by \in Providers /\ saw[r] \in Seen
  BY <1>0, GoesStep, Movings DEF Continues, Moving, TInv, TypeOK, Seen
<1>2. HasRow(r) /\ at'[r] = "token" /\ saw[r].op = "oauth" /\ UNCHANGED <<of, orphans>>
  BY <1>0 DEF OAuthAccount, Ends, GoesWith
<1>3. PICK k \in Users \X Providers : k = <<of[r], saw[r].by>>
  BY <1>1
<1>4. PICK x \in Tokens : x = IF accounts[k] = None THEN None ELSE accounts[k].access
  <2>1. PICK a \in Account \cup {None} : a = accounts[k]
    BY <1>0
  <2>2. (IF a = None THEN None ELSE a.access) \in Tokens
    BY <1>0, <2>1, AccountsAre
  <2> QED BY <2>1, <2>2
<1>5. PICK e \in Account : e = [refresh |-> r, access |-> x] /\ e.refresh = r
  <2>1. PICK e : e = [refresh |-> r, access |-> x]
    OBVIOUS
  <2>2. e \in Account /\ e.refresh = r
    BY <1>0, <2>1, AccountsAre
  <2> QED BY <2>1, <2>2
<1>8. accounts' = [accounts EXCEPT ![k] = e]
  BY <1>2, <1>3, <1>4, <1>5 DEF OAuthAccount, AccountKey
<1>6. accounts'[k] = e /\ e # None
  BY <1>0, <1>8, NoneAssumption
<1>7. ASSUME saw[r].by = "facebook"
      PROVE  saw'[r].op = "joined" /\ saw'[r].key = saw[r].key
  <2>1. saw'[r] = [saw[r] EXCEPT !.op = "joined"]
    BY <1>0, <1>2, <1>7 DEF OAuthAccount, GoesWith
  <2> QED BY <1>1, <2>1 DEF Seen
<1>9. PICK p \in Providers, u \in Users : /\ p = saw[r].by /\ u = of[r] /\ u = of'[r] /\ k = <<u, p>>
  BY <1>1, <1>2, <1>3
<1>10. accounts'[<<u, p>>].refresh = r /\ Has(u, p)'
  BY <1>5, <1>6, <1>9 DEF Has
<1>11. Making(r) /\ r \notin orphans'
  BY <1>2 DEF Making, HasRow
<1>12. Makes(r, p)
  BY <1>2, <1>7, <1>9, <1>10, <1>11 DEF Makes, Has
<1> QED BY <1>9, <1>12
\* Other steps make no account of Google or Facebook, nor a token of Facebook.
LEMMA AccountsMade ==
  ASSUME TInv, [Next]_vars, NEW u \in Users, NEW p \in Providers \ {"email"}
  PROVE  \/ \E r \in Requests : Makes(r, p) /\ of[r] = u
         \/ /\ Has(u, p)' => Has(u, p)
            /\ p = "facebook" => accounts'[<<u, p>>].refresh = accounts[<<u, p>>].refresh
<1>0. /\ accounts \in [Users \X Providers -> Account \cup {None}] /\ saw \in [Requests -> Seen]
      /\ at \in [Requests -> Steps]
  BY DEF TInv, TypeOK
<1> DEFINE Same == /\ Has(u, p)' => Has(u, p)
                   /\ p = "facebook" => accounts'[<<u, p>>].refresh = accounts[<<u, p>>].refresh
<1>1. CASE accounts'[<<u, p>>] = accounts[<<u, p>>]
  BY <1>1 DEF Has
<1>2. CASE ~\E r \in Requests : Continues(r)
  BY <1>1, <1>2, KindsOfSteps, StartsStep, ArrivesStep, RejectsStep, OwnersSteps DEF rows, vars
<1>3. ASSUME NEW r \in Requests, Continues(r), accounts'[<<u, p>>] # accounts[<<u, p>>]
      PROVE  (Makes(r, p) /\ of[r] = u) \/ Same
  <2>1. accounts' # accounts /\ of[r] \in Users /\ saw[r].by \in Providers
    BY <1>0, <1>3, ContinuesStep DEF Seen
  <2>2. CASE LoginAccount(r)
    BY <1>0, <1>3, <2>1, <2>2, SignInAssumption DEF LoginAccount
  <2>3. CASE AccessToken(r)
    <3>1. accounts' = [accounts EXCEPT ![<<of[r], saw[r].by>>].access = r] /\ at[r] = "access"
      BY <2>3 DEF AccessToken, StoreToken, Goes, GoesWith
    <3>2. of[r] = u /\ saw[r].by = p
      BY <1>0, <1>3, <2>1, <3>1
    <3>3. Has(u, p)
      BY <3>1, <3>2 DEF TInv, AccountsStay
    <3>4. PICK e \in Account : e = accounts[<<u, p>>]
      BY <1>0, <3>3 DEF Has
    <3>5. accounts'[<<u, p>>] = [e EXCEPT !.access = r] /\ r \in Tokens
      BY <1>0, <3>1, <3>2, <3>4 DEF Tokens
    <3>6. PICK f : f = [e EXCEPT !.access = r]
      OBVIOUS
    <3>7. f.refresh = e.refresh
      BY <3>5, <3>6, AccountsAre
    <3> QED BY <3>3, <3>4, <3>5, <3>6, <3>7
  <2>4. CASE OAuthAccount(r)
    <3>1. PICK o \in Providers, e \in Account : accounts' = [accounts EXCEPT ![<<of[r], o>>] = e]
      BY <1>3, <2>1, AccountsChange
    <3>2. of[r] = u /\ saw[r].by = p
      <4>1. \E x : accounts' = [accounts EXCEPT ![<<of[r], saw[r].by>>] = x]
        BY <2>1, <2>4 DEF OAuthAccount, AccountKey
      <4> QED BY <1>0, <1>3, <2>1, <4>1
    <3>3. CASE at[r] = "account"
      <4>1. at'[r] # "over"
        BY <1>0, <2>1, <2>4, <3>3 DEF OAuthAccount, Ends, GoesWith
      <4> QED BY <2>4, <3>2, <3>3, <4>1, AccountMade
    <3>4. CASE at[r] = "reuse"
      <4>1. p = "google" /\ Has(u, p)
        BY <3>2, <3>4 DEF TInv, StepsFit, FitsAt, AccountsStay
      <4> QED BY <4>1
    <3> QED BY <2>4, <3>3, <3>4 DEF OAuthAccount
  <2> QED BY <1>3, <2>1, <2>2, <2>3, <2>4, CookiesChange
<1> QED BY <1>1, <1>2, <1>3

\* A request about to make the account has just made the user, or still waits.
LEMMA MakingFrom ==
  ASSUME TInv, [Next]_vars, NEW r \in Requests, Making(r)'
  PROVE  /\ of'[r] = of[r]
         /\ \/ Making(r)
            \/ OAuthUser(r) /\ stored[of[r]] = None /\ of[r] \in Users
<1>1. at'[r] = "account" /\ saw'[r].op = "oauth" /\ r \notin orphans
  BY OrphansNext DEF Making
<1>2. saw'[r] # Nothing
  BY <1>1 DEF Nothing
<1>3. CASE saw'[r] = saw[r] /\ at'[r] = at[r] /\ of'[r] = of[r]
  BY <1>1, <1>3 DEF Making
<1>4. CASE Continues(r) /\ of'[r] = of[r] /\ of[r] \in Users
  BY <1>1, <1>4, OAuthSteps
<1>5. CASE \E u \in Users, step \in FirstSteps, seen \in Seen :
              /\ Opening(r, u, step, seen) /\ at'[r] = step /\ saw'[r] = seen /\ of'[r] = u
  BY <1>1, <1>5 DEF Opening
<1> QED BY <1>2, <1>3, <1>4, <1>5, SeenNext

\* It waits until it has made the account, unless it is cut off.
LEMMA MakingStays ==
  ASSUME TInv, [Next]_vars, NEW r \in Requests, Making(r)
  PROVE  /\ of'[r] = of[r] /\ of[r] \in Users
         /\ \/ Making(r)' \/ of[r] \in cut' \/ DeleteUser(of[r])
            \/ Makes(r, saw[r].by) /\ saw[r].by \in Providers \ {"email"}
<1>1. InProgress(r) /\ at[r] = "account" /\ saw[r].op = "oauth" /\ of[r] \in Users
  BY DEF Making, InProgress, TInv, TypeOK
<1>2. saw[r].by \in Providers \ {"email"}
  BY <1>1 DEF TInv, TypeOK, StepsFit, FitsAt, Seen
<1>3. CASE at'[r] = at[r] /\ saw'[r] = saw[r]
  BY <1>1, <1>3, StepNext, OrphansNext DEF Making, Orphaned
<1>4. CASE Continues(r)
  <2>1. CASE Fails(r)
    BY <1>1, <1>4, <2>1, OAuthSteps, StepNext
  <2>2. CASE OAuthAccount(r)
    <3>1. HasRow(r)
      BY <1>1 DEF Making, TInv, RowsStay, Makers, InProgress, HasRow
    <3>2. at'[r] # "over"
      BY <1>1, <2>2, <3>1 DEF OAuthAccount, GoesWith, TInv, TypeOK
    <3> QED BY <1>1, <1>2, <2>2, <3>2, AccountMade, StepNext
  <2> QED BY <1>1, <1>4, <2>1, <2>2, OAuthSteps
<1> QED BY <1>1, <1>3, <1>4, StepNext

\* A user without a password is made by a sign-in with Google or Facebook.
LEMMA PasswordNext ==
  ASSUME TInv, [Next]_vars, NEW u \in Users, stored'[u] # None, stored'[u].pw = None
  PROVE  \/ stored[u] # None /\ stored[u].pw = None
         \/ \E r \in Requests : of[r] = u /\ OAuthUser(r) /\ Making(r)' /\ of'[r] = u
<1>0. stored \in [Users -> Stored \cup {None}] /\ at \in [Requests -> Steps]
  BY DEF TInv, TypeOK
<1>1. CASE stored'[u] = stored[u]
  BY <1>1
<1>2. ASSUME NEW r \in Requests, Continues(r), stored'[u] # stored[u]
      PROVE  of[r] = u /\ OAuthUser(r) /\ Making(r)' /\ of'[r] = u
  <2>1. of[r] = u /\ of'[r] = u
    BY <1>0, <1>2, StoredChange, ContinuesStep
  <2>2. at[r] \in {"hash", "reset", "plain"} => saw[r].pw \in Passwords /\ saw[r].pw # None
    BY SignInAssumption DEF TInv, StepsFit, FitsAt
  <2>3. CASE CreateUser(r) \/ ResetPassword(r) \/ StorePlain(r)
    <3>1. at[r] \in {"hash", "reset", "plain"}
      BY <2>3 DEF CreateUser, ResetPassword, StorePlain, WritePassword, Ends, GoesWith
    <3>0. saw[r].id \in Users \cup {None}
      BY DEF TInv, TypeOK, Seen
    <3>2. \/ stored'[u] = [pw |-> saw[r].pw, hashed |-> TRUE]
          \/ stored'[u] = [pw |-> saw[r].pw, hashed |-> FALSE]
      BY <1>0, <1>2, <2>1, <2>3, <3>0 DEF CreateUser, ResetPassword, StorePlain, WritePassword, Hashed
    <3>3. stored'[u].pw = saw[r].pw
      BY <3>2
    <3> QED BY <2>2, <3>1, <3>3
  <2>4. CASE OAuthUser(r)
    <3>1. at[r] = "user" /\ at'[r] = "account" /\ saw'[r] = saw[r] /\ orphans' = orphans
      BY <1>0, <1>2, <2>4 DEF OAuthUser, Ends, Goes, GoesWith, TInv, TypeOK
    <3>2. saw[r].op = "oauth" /\ r \notin orphans
      BY <3>1 DEF TInv, StepsFit, FitsAt, RowsStay, Makers
    <3> QED BY <2>1, <2>4, <3>1, <3>2 DEF Making
  <2>5. CASE ~(CreateUser(r) \/ ResetPassword(r) \/ StorePlain(r) \/ OAuthUser(r))
    BY <1>2, <2>5 DEF Continues, LoginAccount, FindToken, AccessToken, CreateCode, OtpMailed, DropLate,
       UseCode, RefreshCookie, OAuthAccount, Redirect, MakeWaba, MakeIntegration, MakeContents,
       Fails, rows
  <2> QED BY <2>3, <2>4, <2>5
<1>3. ASSUME NEW w \in Users, DeleteUser(w)
      PROVE  stored'[u] \in {stored[u], None}
  BY <1>0, <1>3 DEF DeleteUser
<1>4. ASSUME NEW w \in Users, Late(w) \/ Logout(w) \/ Hand(w)
      PROVE  stored' = stored
  BY <1>4, HandStep DEF Hands, Late, Logout, rows
<1> QED BY <1>1, <1>2, <1>3, <1>4, KindsOfSteps, StartsStep, ArrivesStep, RejectsStep DEF rows, vars

\* The row of a user is made once, so one request makes the account.
LEMMA MakersNext == TInv /\ MakersInv /\ [Next]_vars => MakersInv'
<1> SUFFICES ASSUME TInv, MakersInv, [Next]_vars PROVE MakersInv'
  OBVIOUS
\* A user just made has neither an account nor another request that makes one.
<1>1. ASSUME NEW r \in Requests, OAuthUser(r), stored[of[r]] = None, of[r] \in Users
      PROVE  /\ \A p \in Providers : ~Has(of[r], p)
             /\ \A q \in Requests : Making(q) => of[q] # of[r]
  BY <1>1 DEF Making, TInv, AccountsStay, RowsStay, Makers, InProgress
<1>2. ASSUME NEW r \in Requests, Making(r)', NEW u \in Users, of'[r] = u,
             NEW p \in Providers \ {"email"}
      PROVE  ~Has(u, p)'
  <2>1. u = of[r]
    BY <1>2, MakingFrom
  <2>2. ~Has(u, p)
    BY <1>1, <1>2, <2>1, MakingFrom DEF MakersInv
  <2>3. ASSUME NEW q \in Requests, Makes(q, p), of[q] = u
        PROVE  FALSE
    <3>1. q # r
      BY <1>2, <2>3 DEF Makes, Making
    <3>2. Making(q)
      BY <2>3 DEF Makes
    <3>3. Making(r)
      BY <1>1, <1>2, <2>1, <2>3, <3>2, MakingFrom
    <3> QED BY <2>1, <2>3, <3>1, <3>2, <3>3 DEF MakersInv
  <2> QED BY <2>2, <2>3, AccountsMade
<1>3. ASSUME NEW r \in Requests, NEW q \in Requests, Making(r)', Making(q)', of'[r] = of'[q]
      PROVE  r = q
  <2>1. of[r] = of[q] /\ of[r] \in Users
    BY <1>3, MakingFrom, MakingStays
  <2>2. CASE Making(r) /\ Making(q)
    BY <2>1, <2>2 DEF MakersInv
  <2>3. CASE OAuthUser(r) /\ stored[of[r]] = None /\ OAuthUser(q)
    <3>1. at[r] = "user" /\ at[q] = "user" /\ at'[q] = "account" /\ at'[r] = "account"
      BY <1>3, <2>3 DEF OAuthUser, Making
    <3>2. \A x \in Requests \ {r} : at'[x] = at[x]
      BY <2>3, ContinuesStep DEF Continues
    <3> QED BY <3>1, <3>2
  <2> QED BY <1>1, <1>3, <2>1, <2>2, <2>3, MakingFrom
<1>4. ASSUME NEW u \in Users, stored'[u] # None, stored'[u].pw = None
      PROVE  \/ u \in cut'
             \/ \E p \in Providers \ {"email"} : Has(u, p)'
             \/ \E r \in Requests : of'[r] = u /\ Making(r)'
  <2>1. CASE stored[u] # None /\ stored[u].pw = None
    <3>1. CASE u \in cut
      BY <3>1, CutNext
    <3>2. CASE \E p \in Providers \ {"email"} : Has(u, p)
      BY <3>2, AccountsNext
    <3>3. CASE \E r \in Requests : of[r] = u /\ Making(r)
      <4>1. PICK r \in Requests : of[r] = u /\ Making(r)
        BY <3>3
      <4>2. ~DeleteUser(u)
        BY <1>4 DEF DeleteUser, TInv, TypeOK
      <4>3. PICK p : p = saw[r].by
        OBVIOUS
      <4>4. CASE Makes(r, p) /\ p \in Providers \ {"email"}
        <5>1. Has(u, p)'
          BY <4>1, <4>4 DEF Makes, Has
        <5> QED BY <4>4, <5>1
      <4> QED BY <4>1, <4>2, <4>3, <4>4, MakingStays
    <3> QED BY <2>1, <3>1, <3>2, <3>3 DEF MakersInv
  <2>2. CASE \E r \in Requests : of'[r] = u /\ Making(r)'
    BY <2>2
  <2> QED BY <1>4, <2>1, <2>2, PasswordNext
<1>5. ASSUME NEW r \in Requests, Making(r)'
      PROVE  \A p \in Providers \ {"email"} : accounts'[<<of'[r], p>>] = None
  <2>1. of'[r] \in Users
    BY <1>5, MakingFrom, MakingStays
  <2> QED BY <1>2, <1>5, <2>1 DEF Has
<1> QED BY <1>3, <1>4, <1>5 DEF MakersInv, Has

\* What is cut off by a mail that is rejected has nothing left to do.
LEMMA CutOff ==
  ASSUME TInv, [Next]_vars, NEW r \in Requests, InProgress(r)
  PROVE  (at'[r] = at[r] /\ saw'[r] = saw[r]) \/ Continues(r)
           \/ (saw'[r] = Nothing /\ of[r] \in cut')
<1>1. CASE \E q \in Requests : MailRejects(q)
  BY <1>1, RejectsStep DEF Busies
<1>2. CASE \E q \in Requests : Starts(q)
  BY <1>2, StartsStep DEF InProgress
<1>3. CASE \E q \in Requests : Continues(q)
  BY <1>3, ContinuesStep
<1> QED BY <1>1, <1>2, <1>3, KindsOfSteps, OwnersSteps, ArrivesStep DEF vars, progress

\* The business rows of a user are kept unless he changes them by hand; the
\* integration's are made by a request that goes on to its contents.
LEMMA BusinessNext ==
  ASSUME TInv, [Next]_vars, NEW u \in Users
  PROVE  /\ "waba" \in business[u] => "waba" \in business'[u]
         /\ bare \subseteq bare'
         /\ u \notin bare' =>
              /\ business[u] \subseteq business'[u]
              /\ "integration" \in business'[u] \ business[u] =>
                   \E r \in Requests : of'[r] = u /\ at'[r] = "contents"
<1>0. business \in [Users -> SUBSET Parts] /\ at \in [Requests -> Steps]
  BY DEF TInv, TypeOK
<1>1. CASE business' = business /\ bare' = bare
  BY <1>1
<1>2. ASSUME NEW r \in Requests, MakeWaba(r) \/ MakeIntegration(r) \/ MakeContents(r)
      PROVE  /\ business[u] \subseteq business'[u] /\ bare \subseteq bare'
             /\ "integration" \in business'[u] \ business[u] => of'[r] = u /\ at'[r] = "contents"
  <2>1. /\ business' \in {business, [business EXCEPT ![of[r]] = @ \cup {at[r]}]} /\ of' = of
        /\ at[r] = "integration" => at'[r] = "contents" \/ business' = business
        /\ MakeWaba(r) => at[r] = "waba"
        /\ MakeContents(r) => at[r] = "contents"
        /\ bare \subseteq bare'
    BY <1>0, <1>2 DEF MakeWaba, MakeIntegration, MakeContents, NewContents, Made, Goes, Ends, GoesWith,
       observers
  <2> QED BY <1>0, <2>1
<1>3. ASSUME NEW r \in Requests, Continues(r), ~(MakeWaba(r) \/ MakeIntegration(r) \/ MakeContents(r))
      PROVE  business' = business /\ bare' = bare
  BY <1>3 DEF Continues, CreateUser, LoginAccount, FindToken, AccessToken, CreateCode, OtpMailed,
     DropLate, UseCode, ResetPassword, StorePlain, WritePassword, RefreshCookie, OAuthUser,
     OAuthAccount, Redirect, Fails, rows, observers
<1>4. ASSUME NEW w \in Users, Hand(w)
      PROVE  /\ "waba" \in business[u] => "waba" \in business'[u]
             /\ bare \subseteq bare' /\ (u = w => u \in bare')
             /\ u # w => business'[u] = business[u]
  <2>1. PICK parts \in SUBSET Parts : /\ business' = [business EXCEPT ![w] = parts]
                                      /\ "waba" \in parts <=> "waba" \in business[w]
    BY <1>4, HandStep DEF Hands
  <2>2. bare' = bare \cup {w}
    BY <1>4, HandStep DEF Hands
  <2> QED BY <1>0, <2>1, <2>2
<1> QED BY <1>0, <1>1, <1>2, <1>3, <1>4, KindsOfSteps, StartsStep, ArrivesStep, RejectsStep, OwnersSteps
        DEF rows, vars, observers

\* Which operations come to the steps of the business.
LEMMA WabaSteps ==
  ASSUME TInv, NEW r \in Requests, Continues(r)
  PROVE  /\ at'[r] = "integration" => MakeWaba(r) /\ HasRow(r)
         /\ at'[r] = "contents" => MakeIntegration(r) /\ at[r] = "integration"
         /\ at'[r] = "redirect" /\ Joined(r) => MakeContents(r) /\ r \notin orphans
         /\ at'[r] = "redirect" => saw'[r] = saw[r]
<1>0. at \in [Requests -> Steps] /\ saw \in [Requests -> Seen]
  BY DEF TInv, TypeOK
<1>1. CASE AccessToken(r) \/ MakeWaba(r) \/ MakeIntegration(r) \/ MakeContents(r)
  BY <1>0, <1>1 DEF AccessToken, MakeWaba, MakeIntegration, MakeContents, Goes, Ends, GoesWith, Joined
<1>2. CASE ~(AccessToken(r) \/ MakeWaba(r) \/ MakeIntegration(r) \/ MakeContents(r))
  <2>1. at'[r] \notin {"integration", "contents", "redirect"}
    BY <1>0, <1>2 DEF Continues, CreateUser, LoginAccount, FindToken, CreateCode, OtpMailed,
       DropLate, UseCode, ResetPassword, StorePlain, WritePassword, RefreshCookie, OAuthUser,
       OAuthAccount, Redirect, Fails, Goes, Ends, GoesWith
  <2> QED BY <2>1
<1> QED BY <1>1, <1>2

\* A request about to make the contents makes them, unless it is cut off or
\* there is nothing to make them of.
LEMMA ContentsStay ==
  ASSUME TInv, WabaInv, [Next]_vars, NEW r \in Requests, at[r] = "contents"
  PROVE  /\ of'[r] = of[r] /\ of[r] \in Users
         /\ \/ at'[r] = "contents" \/ of[r] \in cut' \/ of[r] \in bare'
            \/ "contents" \in business'[of[r]]
<1>1. InProgress(r) /\ of[r] \in Users
  BY DEF InProgress, TInv, TypeOK
<1>2. MakeContents(r) => of[r] \in bare' \/ "contents" \in business'[of[r]]
  <2>1. MakeContents(r) /\ r \in orphans => of[r] \in bare'
    BY <1>1, BusinessNext DEF WabaInv
  <2> QED BY <1>1, <2>1 DEF MakeContents, NewContents, Made, TInv, TypeOK
<1> QED BY <1>1, <1>2, StepNext, OAuthSteps

\* A sign-in that has made an account with Facebook goes on to its contents,
\* unless it is cut off or refused an integration that is there.
LEMMA JoinedStays ==
  ASSUME TInv, JoinedInv, WabaInv, [Next]_vars, NEW r \in Requests, Joined(r)
  PROVE  /\ of'[r] = of[r] /\ of[r] \in Users
         /\ \/ /\ Joined(r)' /\ at'[r] \in JoinedSteps
               /\ at'[r] = "token" => at[r] = "token" /\ saw'[r] = saw[r]
               /\ at'[r] = "redirect" => of[r] \in bare' \/ "contents" \in business'[of[r]]
            \/ ~Joined(r)' /\ of[r] \in cut'
            \/ /\ ~Joined(r)' /\ at[r] \in {"contents", "redirect"}
               /\ of[r] \in bare' \/ "contents" \in business'[of[r]]
            \/ ~Joined(r)' /\ at[r] = "integration" /\ "integration" \in business[of[r]]
<1>0. /\ at[r] \in JoinedSteps /\ saw[r].op = "joined"
      /\ "facebook" \in Providers /\ Has(of[r], "facebook")
      /\ at[r] = "token" => saw[r].key = r /\ accounts[<<of[r], "facebook">>].refresh = r
      /\ at[r] = "redirect" => of[r] \in bare \/ "contents" \in business[of[r]]
      /\ at[r] # "contents" => r \notin orphans
      /\ at[r] = "contents" /\ r \in orphans => of[r] \in bare
  BY DEF JoinedInv, WabaInv, JoinedSteps, Joined
<1>1. /\ InProgress(r) /\ of[r] \in Users /\ saw[r] \in Seen /\ saw \in [Requests -> Seen]
      /\ at \in [Requests -> Steps] /\ business \in [Users -> SUBSET Parts]
  BY <1>0 DEF InProgress, JoinedSteps, Parts, TInv, TypeOK
<1>2. at[r] # "contents" => HasRow(r)
  BY <1>0, <1>1 DEF TInv, RowsStay, Makers, JoinedSteps, Parts, HasRow
<1>3. /\ of'[r] = of[r] /\ bare \subseteq bare'
      /\ of[r] \in bare' \/ business[of[r]] \subseteq business'[of[r]]
  BY <1>1, StepNext, BusinessNext
<1>4. CASE at'[r] = at[r] /\ saw'[r] = saw[r]
  BY <1>0, <1>1, <1>3, <1>4 DEF Joined
<1>5. CASE saw'[r] = Nothing /\ of[r] \in cut'
  BY <1>1, <1>3, <1>5 DEF Joined, Nothing
<1>6. CASE Fails(r)
  <2>1. saw'[r] = Nothing /\ of[r] \in cut'
    BY <1>1, <1>6 DEF Fails, Ends, GoesWith
  <2> QED BY <1>1, <1>3, <2>1 DEF Joined, Nothing
<1>7. CASE FindToken(r)
  <2>1. <<of[r], "facebook">> \in HolderOf("refresh", saw[r].key)
    BY <1>0, <1>1, <1>7 DEF FindToken, Ends, GoesWith, HolderOf, Has
  <2>2. PICK k \in HolderOf("refresh", saw[r].key) :
          at'[r] = "access" /\ saw'[r] = [saw[r] EXCEPT !.by = k[2]]
    BY <1>1, <1>7, <2>1 DEF FindToken, GoesWith
  <2>3. k[2] \in Providers
    BY DEF HolderOf
  <2>4. saw'[r].op = saw[r].op
    BY <1>1, <2>2, <2>3 DEF Seen
  <2> QED BY <1>0, <1>1, <1>3, <2>2, <2>4 DEF Joined, JoinedSteps
<1>8. CASE AccessToken(r)
  <2>1. at'[r] = "waba" /\ saw'[r] = saw[r]
    BY <1>0, <1>1, <1>8 DEF AccessToken, Goes, GoesWith
  <2> QED BY <1>0, <1>1, <1>3, <2>1 DEF Joined, JoinedSteps, Parts
<1>9. CASE MakeWaba(r)
  <2>1. at'[r] = "integration" /\ saw'[r] = saw[r]
    BY <1>1, <1>2, <1>9 DEF MakeWaba, Goes, GoesWith
  <2> QED BY <1>0, <1>1, <1>3, <2>1 DEF Joined, JoinedSteps, Parts
<1>10. CASE MakeIntegration(r)
  <2>1. \/ at[r] = "integration" /\ "integration" \in business[of[r]] /\ saw'[r] = Nothing
        \/ at'[r] = "contents" /\ saw'[r] = saw[r]
    BY <1>1, <1>10 DEF MakeIntegration, Goes, Ends, GoesWith
  <2> QED BY <1>0, <1>1, <1>3, <2>1 DEF Joined, JoinedSteps, Parts, Nothing
<1>11. CASE MakeContents(r)
  <2>1. at[r] = "contents"
    BY <1>11 DEF MakeContents, Goes, Ends, GoesWith
  <2>2. of[r] \in bare' \/ "contents" \in business'[of[r]]
    BY <1>0, <1>1, <1>3, <1>11, <2>1 DEF MakeContents, NewContents, Made
  <2>3. (at'[r] = "redirect" /\ saw'[r] = saw[r]) \/ saw'[r] = Nothing
    BY <1>0, <1>1, <1>11 DEF MakeContents, Goes, Ends, GoesWith
  <2> QED BY <1>0, <1>1, <1>3, <2>1, <2>2, <2>3 DEF Joined, JoinedSteps, Nothing
<1>12. CASE Redirect(r)
  <2>1. saw'[r] = Nothing /\ at[r] = "redirect"
    BY <1>1, <1>12 DEF Redirect, Ends, GoesWith
  <2> QED BY <1>0, <1>1, <1>3, <2>1 DEF Joined, Nothing
<1> QED BY <1>0, <1>1, <1>3, <1>4, <1>5, <1>6, <1>7, <1>8, <1>9, <1>10, <1>11, <1>12,
           CutOff, OAuthSteps DEF JoinedSteps, Parts

\* Where a request that has joined comes from.
LEMMA JoinedFrom ==
  ASSUME TInv, [Next]_vars, NEW r \in Requests, Joined(r)'
  PROVE  Joined(r) \/ (Makes(r, "facebook") /\ "facebook" \in Providers)
<1>1. saw'[r] # Nothing /\ saw'[r].op = "joined"
  BY DEF Joined, Nothing
<1>2. CASE saw'[r] = saw[r]
  BY <1>2 DEF Joined
<1>3. CASE \E to \in LaterSteps, seen \in Seen :
              Moving(r, to, seen) /\ Continues(r) /\ at'[r] = to /\ saw'[r] = seen /\ to # "over"
  <2>1. CASE OAuthAccount(r)
    <3>1. saw[r].op = "oauth" /\ at[r] \in {"account", "reuse"} /\ saw[r] \in Seen
      BY <2>1 DEF OAuthAccount, TInv, TypeOK
    <3>2. CASE at[r] = "account" /\ saw[r].by = "facebook"
      <4>1. at'[r] # "over"
        BY <1>3
      <4> QED BY <2>1, <3>1, <3>2, <4>1, AccountMade DEF Seen
    <3>3. CASE ~(at[r] = "account" /\ saw[r].by = "facebook")
      <4>1. saw'[r] = saw[r] \/ saw'[r] = Nothing
        BY <2>1, <3>3 DEF OAuthAccount, Ends, GoesWith, TInv, TypeOK
      <4> QED BY <1>1, <1>2, <4>1
    <3> QED BY <3>2, <3>3
  <2>2. CASE ~OAuthAccount(r)
    BY <1>1, <1>3, <2>2, TokenSteps DEF Joined
  <2> QED BY <2>1, <2>2
<1>4. CASE \E u \in Users, step \in FirstSteps, seen \in Seen :
              Opening(r, u, step, seen) /\ saw'[r] = seen
  BY <1>1, <1>4 DEF Opening
<1> QED BY <1>1, <1>2, <1>3, <1>4, SeenNext

\* Whoever is past the row of the business finds it.
LEMMA WabaNext == TInv /\ TInv' /\ JoinedInv /\ WabaInv /\ [Next]_vars => WabaInv'
<1> SUFFICES ASSUME TInv, TInv', JoinedInv, WabaInv, [Next]_vars PROVE WabaInv'
  OBVIOUS
<1>0. /\ at \in [Requests -> Steps] /\ saw \in [Requests -> Seen]
      /\ business \in [Users -> SUBSET Parts]
      /\ \A u \in Users : "waba" \in business[u] => "waba" \in business'[u] /\ ~DeleteUser(u)
      /\ bare \subseteq bare'
  <2>1. \A u \in Users : "waba" \in business[u] => ~DeleteUser(u)
    BY DEF DeleteUser
  <2> QED BY <2>1, BusinessNext DEF TInv, TypeOK
\* A request that waits has its row ...
<1>1. ASSUME NEW q \in Requests, saw'[q] = saw[q], at'[q] = at[q], of'[q] = of[q],
             at[q] \in {"integration", "contents", "redirect"}, at[q] = "redirect" => Joined(q)
      PROVE  of[q] \in Users /\ "waba" \in business'[of[q]]
  BY <1>0, <1>1 DEF WabaInv, TInv, TypeOK
\* ... and one that goes on has had it made or found it.
<1>2. ASSUME NEW q \in Requests, Continues(q), of'[q] = of[q], of[q] \in Users,
             at'[q] \in {"integration", "contents", "redirect"}, at'[q] = "redirect" => Joined(q)'
      PROVE  "waba" \in business'[of[q]] /\ q \notin orphans'
  <2>0. orphans' = orphans
    BY <1>2, ContinuesStep
  <2>1. CASE at'[q] = "integration"
    <3>1. MakeWaba(q) /\ HasRow(q)
      BY <1>2, <2>1, WabaSteps
    <3> QED BY <1>0, <1>2, <2>0, <3>1 DEF MakeWaba, Made, HasRow
  <2>2. CASE at'[q] = "contents"
    BY <1>0, <1>2, <2>0, <2>2, WabaSteps DEF WabaInv
  <2>3. CASE at'[q] = "redirect"
    <3>1. Joined(q)
      BY <1>2, <2>3, WabaSteps DEF Joined
    <3>2. MakeContents(q) /\ q \notin orphans
      BY <1>2, <2>3, <3>1, WabaSteps
    <3>3. at[q] = "contents"
      BY <3>2 DEF MakeContents, Goes, Ends, GoesWith
    <3> QED BY <1>0, <1>2, <2>0, <3>2, <3>3 DEF WabaInv
  <2> QED BY <1>2, <2>1, <2>2, <2>3
<1>3. ASSUME NEW q \in Requests, at'[q] \in {"integration", "contents", "redirect"},
             at'[q] = "redirect" => Joined(q)'
      PROVE  /\ of'[q] = of[q] /\ of[q] \in Users
             /\ \/ saw'[q] = saw[q] /\ at'[q] = at[q]
                \/ Continues(q)
  <2>1. saw'[q] # Nothing
    BY <1>3 DEF TInv, StepsFit, FitsAt, Nothing, Parts, Joined
  <2>2. at'[q] \notin FirstSteps
    BY <1>3 DEF FirstSteps
  <2>3. at[q] # "new" => of[q] \in Users
    BY DEF TInv, TypeOK
  <2> QED BY <1>3, <2>1, <2>2, <2>3, SeenNext
<1>4. ASSUME NEW q \in Requests, at'[q] \in {"integration", "contents", "redirect"},
             at'[q] = "redirect" => Joined(q)'
      PROVE  "waba" \in business'[of'[q]]
  <2>1. Joined(q)' /\ saw'[q] = saw[q] => Joined(q)
    BY DEF Joined
  <2> QED BY <1>1, <1>2, <1>3, <1>4, <2>1
\* Nobody who has the row is orphaned but by hand, ...
<1>5. ASSUME NEW q \in Requests, at[q] \in Parts \/ Joined(q), of[q] \in Users,
             q \in orphans', q \notin orphans,
             "waba" \in business[of[q]] \/ ("facebook" \in Providers /\ Has(of[q], "facebook"))
      PROVE  of[q] \in bare' /\ at[q] = "contents"
  <2>1. Orphaned(q)
    BY <1>5, OrphansNext
  <2>2. saw[q].op # "forgot"
    BY <1>5 DEF TInv, StepsFit, FitsAt, Joined, Parts
  <2>3. ~DeleteUser(of[q])
    BY <1>0, <1>5 DEF DeleteUser, Has
  <2>4. Hand(of[q]) /\ at[q] = "contents"
    BY <2>1, <2>2, <2>3 DEF Orphaned
  <2> QED BY <1>5, <2>4, HandStep DEF Hands
<1>6. ASSUME NEW q \in Requests, at'[q] = "contents", q \in orphans'
      PROVE  of'[q] \in bare'
  <2>1. /\ of'[q] = of[q] /\ of[q] \in Users /\ at[q] = "contents"
    BY <1>2, <1>3, <1>6
  <2>2. q \in orphans => of[q] \in bare'
    BY <1>0, <2>1 DEF WabaInv
  <2>3. "waba" \in business[of[q]] /\ at[q] \in Parts
    BY <2>1 DEF WabaInv, Parts
  <2> QED BY <1>5, <1>6, <2>1, <2>2, <2>3
<1>7. ASSUME NEW q \in Requests, at'[q] = "integration"
      PROVE  q \notin orphans'
  <2>1. CASE Continues(q)
    BY <1>2, <1>3, <1>7, <2>1
  <2>2. CASE at[q] = "integration" /\ of[q] \in Users
    BY <1>5, <2>2 DEF WabaInv, Parts
  <2> QED BY <1>3, <1>7, <2>1, <2>2
<1>8. ASSUME NEW q \in Requests, Joined(q)', at'[q] # "contents"
      PROVE  q \notin orphans'
  <2>1. CASE Makes(q, "facebook")
    BY <2>1 DEF Makes
  <2>2. CASE Joined(q) /\ at[q] # "contents"
    <3>1. q \notin orphans /\ "facebook" \in Providers /\ Has(of[q], "facebook") /\ of[q] \in Users
      BY <2>2, JoinedStays DEF JoinedInv, WabaInv
    <3> QED BY <1>5, <2>2, <3>1
  <2>3. CASE Joined(q) /\ at[q] = "contents"
    <3>1. saw'[q] # Nothing
      BY <1>8 DEF Joined, Nothing
    <3>2. at'[q] \notin {"new", "over"}
      BY <3>1, OverHasNothing DEF TInv
    <3>3. at'[q] = "redirect"
      <4>1. at'[q] \in JoinedSteps
        BY <1>8, <2>3, JoinedStays
      <4>2. Continues(q)
        BY <1>8, <2>3, <3>1, CutOff DEF InProgress
      <4>3. MakeContents(q) \/ Fails(q)
        BY <2>3, <4>2, OAuthSteps
      <4> QED BY <1>0, <3>2, <4>3 DEF MakeContents, Fails, Goes, Ends, GoesWith
    <3>4. Continues(q) /\ of'[q] = of[q] /\ of[q] \in Users
      BY <1>3, <1>8, <2>3, <3>3
    <3> QED BY <1>2, <1>8, <3>3, <3>4
  <2> QED BY <1>8, <2>1, <2>2, <2>3, JoinedFrom
\* ... and who is about to make it goes on to it.
<1>9. ASSUME NEW u \in Users, u \notin cut', "facebook" \in Providers, Has(u, "facebook")',
             "waba" \notin business'[u]
      PROVE  \E r \in Requests : of'[r] = u /\ Joined(r)' /\ at'[r] \in {"token", "access", "waba"}
  <2>1. CASE \E r \in Requests : Makes(r, "facebook") /\ of[r] = u
    <3>1. PICK r \in Requests : Makes(r, "facebook") /\ of[r] = u
      BY <2>1
    <3>2. of'[r] = u /\ Joined(r)' /\ at'[r] = "token"
      BY <3>1 DEF Makes, Joined
    <3> QED BY <3>2
  <2>2. CASE Has(u, "facebook")
    <3>1. PICK r \in Requests : of[r] = u /\ Joined(r) /\ at[r] \in {"token", "access", "waba"}
      BY <1>0, <1>9, <2>2, CutNext DEF WabaInv
    <3>2. of'[r] = u /\ Joined(r)' /\ at'[r] \in JoinedSteps
      BY <1>9, <3>1, JoinedStays
    <3>3. at'[r] \notin {"integration", "contents", "redirect"}
      BY <1>4, <1>9, <3>2
    <3> QED BY <3>2, <3>3 DEF JoinedSteps, Parts
  <2> QED BY <1>9, <2>1, <2>2, AccountsMade
<1>10. \A q \in Requests :
         /\ at'[q] \in {"integration", "contents", "redirect"} /\ (at'[q] = "redirect" => Joined(q)') =>
              "waba" \in business'[of'[q]]
         /\ at'[q] = "contents" /\ q \in orphans' => of'[q] \in bare'
         /\ at'[q] = "integration" \/ (Joined(q)' /\ at'[q] # "contents") => q \notin orphans'
  BY <1>4, <1>6, <1>7, <1>8
<1> QED BY <1>9, <1>10 DEF WabaInv

\* It also makes the rows of the business, unless another one does.
LEMMA JoinedNext == TInv /\ MakersInv /\ JoinedInv /\ WabaInv /\ [Next]_vars => JoinedInv'
<1> SUFFICES ASSUME TInv, MakersInv, JoinedInv, WabaInv, [Next]_vars PROVE JoinedInv'
  OBVIOUS
\* The request that has joined, ...
<1>1. ASSUME NEW r \in Requests, Joined(r)', NEW u \in Users, of[r] = u
      PROVE  /\ at'[r] \in JoinedSteps /\ of'[r] = u
             /\ "facebook" \in Providers /\ Has(u, "facebook")'
             /\ at'[r] = "token" => saw'[r].key = r /\ accounts'[<<u, "facebook">>].refresh = r
             /\ at'[r] = "redirect" => u \in bare' \/ "contents" \in business'[u]
  <2>1. CASE Makes(r, "facebook") /\ "facebook" \in Providers
    <3>1. saw[r].key = r
      BY <2>1 DEF Makes, Making, TInv, TokensAreOwn
    <3>2. of'[r] = u /\ at'[r] = "token" /\ saw'[r].key = r
          /\ accounts'[<<u, "facebook">>].refresh = r /\ Has(u, "facebook")'
      BY <1>1, <2>1, <3>1 DEF Makes, Has
    <3> QED BY <2>1, <3>2 DEF JoinedSteps
  <2>2. CASE Joined(r)
    <3>1. /\ of'[r] = u /\ at'[r] \in JoinedSteps
          /\ at'[r] = "token" => at[r] = "token" /\ saw'[r] = saw[r]
          /\ at'[r] = "redirect" => u \in bare' \/ "contents" \in business'[u]
      BY <1>1, <2>2, JoinedStays
    <3>2. /\ "facebook" \in Providers /\ Has(u, "facebook")
          /\ at[r] = "token" => saw[r].key = r /\ accounts[<<u, "facebook">>].refresh = r
      BY <1>1, <2>2 DEF JoinedInv
    <3>3. Has(u, "facebook")'
      BY <3>2, AccountsNext
    <3>6. ~\E q \in Requests : Makes(q, "facebook") /\ of[q] = u
      <4>1. \A q \in Requests : Makes(q, "facebook") => Making(q)
        BY DEF Makes
      <4> QED BY <3>2, <4>1 DEF MakersInv
    <3>7. accounts'[<<u, "facebook">>].refresh = accounts[<<u, "facebook">>].refresh
      BY <3>2, <3>6, AccountsMade
    <3> QED BY <3>1, <3>2, <3>3, <3>7
  <2> QED BY <1>1, <2>1, <2>2, JoinedFrom
<1>2. ASSUME NEW r \in Requests, Joined(r)'
      PROVE  of[r] \in Users
  BY <1>2, JoinedFrom, JoinedStays, MakingStays DEF Makes
\* ... and the rows of the user.
<1>3. ASSUME NEW u \in Users, u \notin cut' \cup bare', "contents" \notin business'[u]
      PROVE  /\ "integration" \in business'[u] =>
                  \E r \in Requests : of'[r] = u /\ at'[r] = "contents"
             /\ "facebook" \in Providers /\ Has(u, "facebook")' =>
                  \E r \in Requests : of'[r] = u /\ (Joined(r)' \/ at'[r] = "contents")
  <2>1. u \notin cut \cup bare /\ "contents" \notin business[u]
    BY <1>3, CutNext, BusinessNext
  <2>2. ASSUME NEW r \in Requests, of[r] = u, at[r] = "contents"
        PROVE  of'[r] = u /\ at'[r] = "contents"
    BY <1>3, <2>2, ContentsStay
  <2>3. "integration" \in business[u] =>
          \E r \in Requests : of'[r] = u /\ at'[r] = "contents"
    BY <2>1, <2>2 DEF JoinedInv
  <2>4. ASSUME "integration" \in business'[u]
        PROVE  \E r \in Requests : of'[r] = u /\ at'[r] = "contents"
    BY <1>3, <2>3, <2>4, BusinessNext
  <2>5. ASSUME "facebook" \in Providers, Has(u, "facebook")'
        PROVE  \E r \in Requests : of'[r] = u /\ (Joined(r)' \/ at'[r] = "contents")
    <3>1. CASE \E r \in Requests : Makes(r, "facebook") /\ of[r] = u
      <4>1. PICK r \in Requests : Makes(r, "facebook") /\ of[r] = u
        BY <3>1
      <4>2. of'[r] = u /\ Joined(r)'
        BY <4>1 DEF Makes, Joined
      <4> QED BY <4>2
    <3>2. CASE Has(u, "facebook")
      <4>1. PICK r \in Requests : of[r] = u /\ (Joined(r) \/ at[r] = "contents")
        BY <2>1, <2>5, <3>2 DEF JoinedInv
      <4>2. CASE at[r] = "contents"
        BY <2>2, <4>1, <4>2
      <4>3. CASE Joined(r)
        <5>1. of'[r] = u
          BY <4>1, <4>3, JoinedStays
        <5>2. Joined(r)' \/ "integration" \in business[u]
          BY <1>3, <4>1, <4>3, JoinedStays
        <5> QED BY <2>3, <5>1, <5>2
      <4> QED BY <4>1, <4>2, <4>3
    <3> QED BY <2>5, <3>1, <3>2, AccountsMade
  <2> QED BY <2>4, <2>5
<1>4. \A r \in Requests : Joined(r)' =>
        /\ at'[r] \in JoinedSteps
        /\ "facebook" \in Providers
        /\ accounts'[<<of'[r], "facebook">>] # None
        /\ at'[r] = "token" => saw'[r].key = r /\ accounts'[<<of'[r], "facebook">>].refresh = r
        /\ at'[r] = "redirect" => of'[r] \in bare' \/ "contents" \in business'[of'[r]]
  BY <1>1, <1>2 DEF Has
<1> QED BY <1>3, <1>4 DEF JoinedInv, JoinedSteps, Has

\* A user of Google has an account and one of Facebook the row of his business,
\* unless a request of his is under way or was cut off, and his numbers, unless
\* Meta showed none or he changed his integrations by hand: a sign-in makes the
\* user, the account and the rows in turn, and one that is refused on the way
\* has met another that makes them.
THEOREM OAuthIsComplete == Spec => []OAuthUserIsComplete
<1>1. Init => MakersInv /\ JoinedInv /\ WabaInv
  <2> SUFFICES ASSUME Init PROVE MakersInv /\ JoinedInv /\ WabaInv
    OBVIOUS
  <2>1. ASSUME NEW u \in Users, stored[u] # None PROVE stored[u].pw # None
    <3>1. PICK p \in Passwords : stored[u] = [pw |-> p, hashed |-> TRUE]
      BY <2>1 DEF Init, Hashed
    <3> QED BY <3>1, SignInAssumption
  <2>2. \A r \in Requests : ~Making(r) /\ ~Joined(r)
    BY DEF Init, Making, Joined, Nothing
  <2>3. \A u \in Users : business[u] = {} /\ \A p \in Providers : ~Has(u, p)
    BY DEF Init, Has
  <2> QED BY <2>1, <2>2, <2>3 DEF MakersInv, JoinedInv, WabaInv, Init
<1>2. TInv /\ MakersInv /\ JoinedInv /\ WabaInv => OAuthUserIsComplete
  <2> SUFFICES ASSUME TInv, MakersInv, JoinedInv, WabaInv, NEW u \in Users, ~Busy(u), u \notin cut
               PROVE  LET has == {p \in Providers : accounts[<<u, p>>] # None} IN
                      /\ stored[u] # None /\ stored[u].pw = None => has \ {"email"} # {}
                      /\ "facebook" \in has => /\ "waba" \in business[u]
                                              /\ (u \in bare \/ "contents" \in business[u])
    BY DEF OAuthUserIsComplete
  <2>1. \A r \in Requests : of[r] = u => ~InProgress(r)
    BY DEF Busy
  <2>2. \A r \in Requests : of[r] = u => ~Making(r) /\ ~Joined(r) /\ at[r] # "contents"
    BY <2>1 DEF InProgress, Making, JoinedInv, JoinedSteps, Parts
  <2>3. stored[u] # None /\ stored[u].pw = None => \E p \in Providers \ {"email"} : Has(u, p)
    BY <2>2 DEF MakersInv
  <2>4. "facebook" \in Providers /\ Has(u, "facebook") =>
          "waba" \in business[u] /\ (u \in bare \/ "contents" \in business[u])
    BY <2>2 DEF JoinedInv, WabaInv
  <2> QED BY <2>3, <2>4 DEF Has
<1> QED BY <1>1, <1>2, InitTInv, NextTInv, MakersNext, JoinedNext, WabaNext, PTL DEF Spec
=============================================================================
