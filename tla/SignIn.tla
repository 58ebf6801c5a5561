------------------------------- MODULE SignIn -------------------------------
(***************************************************************************)
(* Accounts and sessions: CredentialStrategy (register, login, one-time    *)
(* codes, refresh), JwtService, GoogleService and FacebookService, the     *)
(* password operations of UserService, and the cookies of the browser.     *)
(*                                                                         *)
(* Every request runs await by await beside the others.  A request makes   *)
(* at most one refresh token, one access token and one code, so it also    *)
(* names them.  Profiles and the lifetime of tokens (it only refuses) are  *)
(* left out.  The WhatsApp Business account that validateUser looks for is *)
(* never there: what is stored is a wabaId, what is looked up a businessId. *)
(***************************************************************************)
EXTENDS Integers, SequencesExt

CONSTANTS
  Users,      \* people, each with one email address and at most one row
  Requests,   \* HTTP requests, each used once
  Passwords,
  Providers,  \* the sign-ins in use, among "email", "google", "facebook"
  None,       \* nobody, nothing
  MaxAtOnce   \* bound: requests in progress at once

ASSUME SignInAssumption ==
  /\ None \notin Users \cup Requests \cup Passwords /\ MaxAtOnce \in Nat
  /\ "email" \in Providers /\ Providers \subseteq {"email", "google", "facebook"}

VARIABLES
  (* the database *)
  stored,    \* the password column of a user's row; None: there is no row
  accounts,  \* the account of a user with a provider, or None
  codes,     \* the rows of UserOTP of a user, in the order of createdAt
  business,  \* the WhatsApp Business rows of a user, by kind
  (* the browser and the mailbox *)
  jar,       \* the two cookies a user's browser holds
  newest,    \* the code that reached a user's mailbox last
  received,  \* the codes that reached it
  (* requests in progress *)
  at,        \* where a request has come to
  of,        \* the user it is about
  saw,       \* what it has read and uses later
  mail,      \* requests whose mail is on its way, awaited by nobody
  orphans,   \* requests a row of which has been deleted under them: that of a
             \* user they are about, or the integration they made
  (* observers, read by properties only *)
  serial,    \* users no request of whom began, or deletion came, during
             \* another one
  cut,       \* users a request of whom failed or died half way
  crossed,   \* users named for a code by their email without their id, or by
             \* their id without their email
  bare,      \* users of whose business Meta showed no numbers, or whose
             \* integrations were changed by hand
  fresh,     \* users who got their cookies after their last sign-in began
  opened,    \* requests a code has let through
  spent      \* codes that were used, or deleted when late

rows == <<stored, accounts, codes, business>>
browser == <<jar, newest, received>>
progress == <<at, of, saw, mail, orphans>>
observers == <<serial, cut, crossed, bare, fresh, opened, spent>>
vars == <<rows, browser, progress, observers>>

-----------------------------------------------------------------------------
Tokens == Requests \cup {None}
Account == [refresh : Tokens, access : Tokens]
Stored == [pw : Passwords \cup {None}, hashed : BOOLEAN]
ASSUME NoneAssumption == None \notin Account \cup Stored
Code == [code : Requests, used : BOOLEAN, late : BOOLEAN]
\* The account with Meta, the integration of the user, and its phone numbers,
\* in the order they are made.
Parts == {"waba", "integration", "contents"}
Steps == {"new", "hash", "account", "token", "access", "row", "use", "drop",
          "cookie", "mail", "letter", "reset", "plain", "reuse", "user", "redirect", "over"}
           \cup Parts
Operations == {"none", "login", "refresh", "verify", "forgot", "oauth", "joined",
               "business"}
Seen == [key : Tokens, acc : Account \cup {None}, code : Tokens,
         pw : Passwords \cup {None}, by : Providers, op : Operations,
         to : Users \cup {None}, id : Users \cup {None}]
Nothing == [key |-> None, acc |-> None, code |-> None, pw |-> None,
            by |-> "email", op |-> "none", to |-> None, id |-> None]

InProgress(r) == at[r] \notin {"new", "over"}
Busy(u) == \E r \in Requests : of[r] = u /\ (InProgress(r) \/ r \in mail)

\* The row it found is still there.
HasRow(r) == stored[of[r]] # None /\ r \notin orphans

Hashed(p) == [pw |-> p, hashed |-> TRUE]
\* bcrypt.compare: nothing compares with a column that holds no hash.
Matches(p, s) == s.hashed /\ s.pw = p

\* The account of a refresh or an access token: findFirst over the table.
HolderOf(field, t) ==
  {k \in Users \X Providers : accounts[k] # None /\ accounts[k][field] = t}

Init ==
  /\ stored \in [Users -> {None} \cup {Hashed(p) : p \in Passwords}]
  /\ accounts = [k \in Users \X Providers |-> None]
  /\ codes = [u \in Users |-> <<>>]
  /\ business = [u \in Users |-> {}]
  /\ jar = [u \in Users |-> [refresh |-> None, access |-> None]]
  /\ newest = [u \in Users |-> None]
  /\ received = [u \in Users |-> {}]
  /\ at = [r \in Requests |-> "new"]
  /\ of = [r \in Requests |-> None]
  /\ saw = [r \in Requests |-> Nothing]
  /\ mail = {} /\ orphans = {} /\ cut = {} /\ fresh = {} /\ spent = {}
  /\ crossed = {} /\ bare = {}
  /\ serial = Users
  /\ opened = [c \in Requests |-> 0]

\* A request of u begins, having run to its first await at `step'.
Begin(r, u, step, seen) ==
  /\ at[r] = "new" /\ Cardinality({q \in Requests : InProgress(q)}) < MaxAtOnce
  /\ at' = [at EXCEPT ![r] = step]
  /\ of' = [of EXCEPT ![r] = u]
  /\ saw' = [saw EXCEPT ![r] = seen]
  /\ serial' = IF Busy(u) THEN serial \ {u} ELSE serial
\* Its call is answered and it goes on to the next.
GoesWith(r, from, to, seen) ==
  /\ at[r] = from
  /\ at' = [at EXCEPT ![r] = to]
  /\ saw' = [saw EXCEPT ![r] = seen]
Goes(r, from, to) == GoesWith(r, from, to, saw[r])
Ends(r, from) == GoesWith(r, from, "over", Nothing)

-----------------------------------------------------------------------------
(* register, login                                                         *)

\* register: the email is free.  A refusal changes nothing and is left out,
\* here and below.
Register(r, u, p) ==
  /\ stored[u] = None
  /\ Begin(r, u, "hash", [Nothing EXCEPT !.pw = p])
  /\ UNCHANGED <<rows, browser, mail, orphans, cut, crossed, bare, fresh, opened, spent>>

\* The row is created unless another request has done so: emails are unique.
CreateUser(r) ==
  /\ Ends(r, "hash")
  /\ LET u == of[r] IN
       stored' = IF stored[u] # None THEN stored
                 ELSE [stored EXCEPT ![u] = Hashed(saw[r].pw)]
  /\ UNCHANGED <<accounts, codes, business, browser, of, mail, orphans, observers>>

\* login: user and account are read together, the password is compared.
Login(r, u, p) ==
  /\ stored[u] # None /\ Matches(p, stored[u])
  /\ Begin(r, u, "account", [Nothing EXCEPT !.key = r, !.op = "login",
                                            !.acc = accounts[<<u, "email">>]])
  /\ fresh' = fresh \ {u}
  /\ UNCHANGED <<rows, browser, mail, orphans, cut, crossed, bare, opened, spent>>

\* The account gets the refresh token, or is made with it if there was none:
\* of two first logins the second fails, an account being unique.
LoginAccount(r) ==
  LET k == <<of[r], "email">> IN
  /\ at[r] = "account" /\ saw[r].op = "login"
  /\ \/ /\ saw[r].acc # None
        /\ accounts' = [accounts EXCEPT ![k] = [@ EXCEPT !.refresh = r]]
        /\ Goes(r, "account", "token")
     \/ /\ saw[r].acc = None /\ accounts[k] = None /\ HasRow(r)
        /\ accounts' = [accounts EXCEPT ![k] = [refresh |-> r, access |-> None]]
        /\ Goes(r, "account", "token")
     \/ /\ saw[r].acc = None /\ (accounts[k] # None \/ ~HasRow(r))
        /\ Ends(r, "account")
        /\ UNCHANGED accounts
  /\ UNCHANGED <<stored, codes, business, browser, of, mail, orphans, observers>>

\* generateAccessToken: 401 if another sign-in has replaced the refresh token.
FindToken(r) ==
  /\ \/ /\ HolderOf("refresh", saw[r].key) = {}
        /\ Ends(r, "token")
     \/ \E k \in HolderOf("refresh", saw[r].key) :
          GoesWith(r, "token", "access", [saw[r] EXCEPT !.by = k[2]])
  /\ UNCHANGED <<rows, browser, of, mail, orphans, observers>>

\* Mutant: the token is made and not stored.
Unstored(r) == UNCHANGED accounts
StoreToken(r) ==
  accounts' = [accounts EXCEPT ![<<of[r], saw[r].by>>].access = r]

\* The account gets the access token; then login sends the mail, which it does
\* not await, and waits for the row of the code, which the mail may overtake.
AccessToken(r) ==
  /\ Goes(r, "access", CASE saw[r].op = "login" -> "row"
                         [] saw[r].op = "refresh" -> "cookie"
                         [] saw[r].op = "joined" -> "waba"
                         [] OTHER -> "redirect")
  /\ StoreToken(r)
  /\ mail' = IF saw[r].op = "login" THEN mail \cup {r} ELSE mail
  /\ UNCHANGED <<stored, codes, business, browser, of, orphans, observers>>

\* The row of the code, of a user who is still there.
CreateCode(r) ==
  LET u == of[r] IN
  /\ Ends(r, "row")
  /\ codes' = IF ~HasRow(r) THEN codes
              ELSE [codes EXCEPT ![u] =
                      Append(@, [code |-> r, used |-> FALSE, late |-> FALSE])]
  /\ UNCHANGED <<stored, accounts, business, browser, of, mail, orphans, observers>>

-----------------------------------------------------------------------------
(* codes                                                                   *)

\* The code has come to the mailbox of u.
Delivered(r, u) ==
  /\ newest' = [newest EXCEPT ![u] = r]
  /\ received' = [received EXCEPT ![u] = @ \cup {r}]
MailArrives(r) ==
  /\ r \in mail
  /\ mail' = mail \ {r}
  /\ Delivered(r, of[r])
  /\ UNCHANGED <<rows, jar, at, of, saw, orphans, observers>>

\* sendOtp, for a forgotten password: the mail is awaited, then the row.  The
\* request names an email and an id and nobody compares them: the mail goes to
\* w, the row will be u's.
SendOtp(r, u, w) ==
  /\ stored[u] # None
  /\ Begin(r, u, "mail", [Nothing EXCEPT !.to = w])
  /\ crossed' = IF w = u THEN crossed ELSE crossed \cup {u, w}
  /\ UNCHANGED <<rows, browser, mail, orphans, cut, bare, fresh, opened, spent>>
\* The id is nobody's: the mail goes out, and the row is refused.
SendOtpToNone(r, w) ==
  /\ Begin(r, w, "letter", [Nothing EXCEPT !.to = w])
  /\ crossed' = crossed \cup {w}
  /\ UNCHANGED <<rows, browser, mail, orphans, cut, bare, fresh, opened, spent>>
OtpMailed(r) ==
  /\ Goes(r, "mail", "row") \/ Ends(r, "letter")
  /\ Delivered(r, saw[r].to)
  /\ UNCHANGED <<rows, jar, of, mail, orphans, observers>>

Unused(u) == {i \in DOMAIN codes[u] : ~codes[u][i].used}
\* Mutant: the order is ascending.
EarliestUnused(u) == {i \in Unused(u) : \A j \in Unused(u) : i <= j}
\* userOtp where isUsed is false, by createdAt descending, take 1.
LatestUnused(u) == {i \in Unused(u) : \A j \in Unused(u) : j <= i}

\* VerificationOTP and updateUserPassword: the latest unused code is read, and
\* with it the account; a late one is to be deleted, the right one to be used.
Present(r, u, c, seen, next) ==
  /\ \E w \in Users : c \in received[w]
  /\ \E i \in LatestUnused(u) : LET row == codes[u][i] IN
       /\ row.late \/ row.code = c
       /\ Begin(r, u, IF row.late THEN "drop" ELSE "use",
                [seen EXCEPT !.code = row.code, !.op = next])
  /\ UNCHANGED <<rows, browser, mail, orphans, cut, crossed, bare, fresh, opened, spent>>
Verify(r, u, c) ==
  /\ accounts[<<u, "email">>] # None
  /\ Present(r, u, c, [Nothing EXCEPT !.acc = accounts[<<u, "email">>]], "verify")
\* The code is looked for by an email, the password will be that of an id.
ForgotPassword(r, u, c, p, x) ==
  /\ x # None => stored[x] # None
  /\ Present(r, u, c, [Nothing EXCEPT !.pw = p, !.id = x], "forgot")

RowsOf(u, c) == {i \in DOMAIN codes[u] : codes[u][i].code = c}

DropLate(r) ==
  /\ Ends(r, "drop")
  /\ LET u == of[r]  is == RowsOf(u, saw[r].code) IN
       \/ is = {} /\ UNCHANGED codes
       \/ \E i \in is : codes' = [codes EXCEPT ![u] = RemoveAt(@, i)]
  /\ spent' = spent \cup {saw[r].code}
  /\ UNCHANGED <<stored, accounts, business, browser, of, mail, orphans,
                 serial, cut, crossed, bare, fresh, opened>>

LeftUnused(rs, c) == rs \* Mutant: isUsed stays false.
\* Mutant: a used row is added, the old one stays.
UsedAgain(rs, c) == Append(rs, [code |-> c, used |-> TRUE, late |-> FALSE])
MarkUsed(rs, c) ==
  [i \in DOMAIN rs |-> [rs[i] EXCEPT !.used = @ \/ rs[i].code = c]]

\* CookieInterceptor: cookies, if both tokens are there.
HandOut(u, tokens) ==
  IF tokens.access = None THEN UNCHANGED <<jar, fresh>>
  ELSE jar' = [jar EXCEPT ![u] = tokens] /\ fresh' = fresh \cup {u}

\* The code is marked as used, whether or not it was by then.  VerificationOTP
\* hands out the tokens it read with the code; updateUserPassword goes on to
\* the password.
UseCode(r) ==
  LET u == of[r]  c == saw[r].code IN
  /\ IF saw[r].op = "forgot" THEN Goes(r, "use", "reset") ELSE Ends(r, "use")
  /\ RowsOf(u, c) # {}
  /\ codes' = [codes EXCEPT ![u] = MarkUsed(@, c)]
  /\ opened' = [opened EXCEPT ![c] = @ + 1]
  /\ spent' = spent \cup {c}
  /\ IF saw[r].op = "verify" THEN HandOut(u, saw[r].acc)
     ELSE UNCHANGED <<jar, fresh>>
  /\ UNCHANGED <<stored, accounts, business, newest, received, of, mail, orphans,
                 serial, cut, crossed, bare>>

\* The five minutes of the codes of u are over.
Late(u) ==
  /\ \E i \in DOMAIN codes[u] : ~codes[u][i].late
  /\ codes' = [codes EXCEPT ![u] = [i \in DOMAIN @ |-> [@[i] EXCEPT !.late = TRUE]]]
  /\ UNCHANGED <<stored, accounts, business, browser, progress, observers>>

-----------------------------------------------------------------------------
(* passwords                                                               *)

\* The row of u gets a password, if it is still there.
WritePassword(r, from, u, s) ==
  /\ Ends(r, from)
  /\ stored' = IF u # None /\ stored[u] # None /\ r \notin orphans
               THEN [stored EXCEPT ![u] = s] ELSE stored
  /\ UNCHANGED <<accounts, codes, business, browser, of, mail, orphans, observers>>

\* updateUserPassword, after its code: the new password is hashed and stored.
ResetPassword(r) == WritePassword(r, "reset", saw[r].id, Hashed(saw[r].pw))

\* changeUserPassword: the old one is compared, the new one stored as it is,
\* so no login compares with it until a code has reset it.
ChangePassword(r, u, old, new) ==
  /\ stored[u] # None /\ Matches(old, stored[u])
  /\ Begin(r, u, "plain", [Nothing EXCEPT !.pw = new])
  /\ UNCHANGED <<rows, browser, mail, orphans, cut, crossed, bare, fresh, opened, spent>>
StorePlain(r) ==
  WritePassword(r, "plain", of[r], [pw |-> saw[r].pw, hashed |-> FALSE])

\* deleteUser: accounts, codes and the rest refer to the row and keep it.
DeleteUser(u) ==
  /\ stored[u] # None
  /\ codes[u] = <<>> /\ business[u] = {} /\ \A p \in Providers : accounts[<<u, p>>] = None
  /\ stored' = [stored EXCEPT ![u] = None]
  /\ LET R == {r \in Requests : u \in {of[r], saw[r].id} /\ InProgress(r)
                                /\ at[r] \notin {"hash", "user", "letter"}} IN
       /\ orphans' = orphans \cup R
       /\ serial' = (IF Busy(u) THEN serial \ {u} ELSE serial) \ {of[r] : r \in R}
  /\ UNCHANGED <<accounts, codes, business, browser, at, of, saw, mail, cut, crossed,
                 bare, fresh, opened, spent>>

-----------------------------------------------------------------------------
(* sessions                                                                *)

\* AuthMiddleware: the access token is that of an account.
Accepted(u) == HolderOf("access", jar[u].access) # {}

\* refreshAccessToken, with the cookie of the browser.
Refresh(r, u) ==
  /\ jar[u].refresh # None
  /\ Begin(r, u, "token", [Nothing EXCEPT !.key = jar[u].refresh, !.op = "refresh"])
  /\ fresh' = fresh \ {u}
  /\ UNCHANGED <<rows, browser, mail, orphans, cut, crossed, bare, opened, spent>>
RefreshCookie(r) ==
  /\ Ends(r, "cookie")
  /\ jar' = [jar EXCEPT ![of[r]].access = r]
  /\ fresh' = fresh \cup {of[r]}
  /\ UNCHANGED <<rows, newest, received, of, mail, orphans,
                 serial, cut, crossed, bare, opened, spent>>

\* logout takes the cookie; the account keeps the token.
Logout(u) ==
  /\ jar[u].access # None
  /\ jar' = [jar EXCEPT ![u].access = None]
  /\ UNCHANGED <<rows, newest, received, progress, observers>>

\* GoogleService.validateUser and FacebookService.validateUserAccount reuse an
\* account, the second with the refresh token it has; without one they make
\* the user and then the account.
Google(r, u) == IF accounts[<<u, "google">>] = None THEN <<"user", r>>
                ELSE <<"reuse", r>>
Facebook(r, u) == IF accounts[<<u, "facebook">>] = None THEN <<"user", r>>
                  ELSE <<"token", accounts[<<u, "facebook">>].refresh>>
OAuth(r, u, p) ==
  LET way == IF p = "google" THEN Google(r, u) ELSE Facebook(r, u) IN
  /\ p # "email"
  /\ Begin(r, u, way[1], [Nothing EXCEPT !.op = "oauth", !.by = p, !.key = way[2]])
  /\ fresh' = fresh \ {u}
  /\ UNCHANGED <<rows, browser, mail, orphans, cut, crossed, bare, opened, spent>>
OAuthUser(r) == \* prisma throws if a user has this email
  /\ at[r] = "user"
  /\ IF stored[of[r]] # None THEN Ends(r, "user") /\ UNCHANGED stored
     ELSE /\ Goes(r, "user", "account")
          /\ stored' = [stored EXCEPT ![of[r]] = [pw |-> None, hashed |-> FALSE]]
  /\ UNCHANGED <<accounts, codes, business, browser, of, mail, orphans, observers>>
EmailKey(r) == <<of[r], "email">> \* Mutant: the provider is always "email".
AccountKey(r) == <<of[r], saw[r].by>>
OAuthAccount(r) ==
  /\ at[r] \in {"account", "reuse"} /\ saw[r].op = "oauth"
  /\ IF at[r] = "account" /\ ~HasRow(r)
     THEN Ends(r, "account") /\ UNCHANGED accounts
     ELSE /\ GoesWith(r, at[r], "token",
                     IF at[r] = "account" /\ saw[r].by = "facebook"
                     THEN [saw[r] EXCEPT !.op = "joined"] ELSE saw[r])
          /\ accounts' = [accounts EXCEPT ![AccountKey(r)] =
               [refresh |-> r, access |-> IF @ = None THEN None ELSE @.access]]
  /\ UNCHANGED <<stored, codes, business, browser, of, mail, orphans, observers>>
\* FacebookService.validateUser, for a new user or for one signed in already.
ConnectBusiness(r, u) ==
  /\ "facebook" \in Providers /\ stored[u] # None
  /\ Begin(r, u, "waba", [Nothing EXCEPT !.op = "business"])
  /\ UNCHANGED <<rows, browser, mail, orphans, cut, crossed, bare, fresh, opened, spent>>
Made(r) == [business EXCEPT ![of[r]] = @ \cup {at[r]}]

\* The account's row; every attempt adds one.
MakeWaba(r) ==
  /\ at[r] = "waba"
  /\ IF HasRow(r) THEN Goes(r, "waba", "integration") /\ business' = Made(r)
     ELSE Ends(r, "waba") /\ UNCHANGED business
  /\ UNCHANGED <<stored, accounts, codes, browser, of, mail, orphans, observers>>
\* The numbers are read, and the integration created: a second one of the
\* user is refused.
MakeIntegration(r) ==
  /\ at[r] = "integration"
  /\ IF "integration" \in business[of[r]]
     THEN Ends(r, "integration") /\ UNCHANGED business
     ELSE Goes(r, "integration", "contents") /\ business' = Made(r)
  /\ UNCHANGED <<stored, accounts, codes, browser, of, mail, orphans, observers>>
\* A content for the numbers: one, for duplicates are skipped, or none, if
\* Meta showed no numbers or the integration is gone.  After it a user signed
\* in before gets an error, as the redirect finds no account.
NoContents(r) == UNCHANGED <<business, bare>> \* Mutant: they are never made.
NewContents(r) ==
  \/ business' = Made(r) /\ UNCHANGED bare
  \/ UNCHANGED business /\ bare' = bare \cup {of[r]}
MakeContents(r) ==
  /\ IF r \in orphans THEN Ends(r, "contents") /\ UNCHANGED <<business, bare>>
     ELSE /\ IF saw[r].op = "joined" THEN Goes(r, "contents", "redirect")
             ELSE Ends(r, "contents")
          /\ NewContents(r)
  /\ UNCHANGED <<stored, accounts, codes, browser, of, mail, orphans,
                 serial, cut, crossed, fresh, opened, spent>>

\* UserIntegrationService and ContentIntegrationService change what there is
\* of integration and contents; an integration takes its contents along, and
\* a request that is about to fill it fails.
ByHand(u, parts, R) ==
  /\ "facebook" \in Providers /\ stored[u] # None /\ parts # business[u]
  /\ business' = [business EXCEPT ![u] = parts]
  /\ bare' = bare \cup {u}
  /\ orphans' = orphans \cup R
  /\ serial' = IF Busy(u) THEN serial \ {u} ELSE serial
  /\ UNCHANGED <<stored, accounts, codes, browser, at, of, saw, mail, cut, crossed,
                 fresh, opened, spent>>
AddIntegration(u) == ByHand(u, business[u] \cup {"integration"}, {})
AddContents(u) ==
  "integration" \in business[u] /\ ByHand(u, business[u] \cup {"contents"}, {})
DeleteContents(u) == ByHand(u, business[u] \ {"contents"}, {})
DeleteIntegration(u) ==
  ByHand(u, business[u] \ {"integration", "contents"},
         {r \in Requests : of[r] = u /\ at[r] = "contents"})

\* handleRedirectGoogle/Facebook: the cookies are those of the account.
Redirect(r) ==
  /\ Ends(r, "redirect")
  /\ jar' = [jar EXCEPT ![of[r]] = accounts[<<of[r], saw[r].by>>]]
  /\ fresh' = fresh \cup {of[r]}
  /\ UNCHANGED <<rows, newest, received, of, mail, orphans,
                 serial, cut, crossed, bare, opened, spent>>

-----------------------------------------------------------------------------
(* failures                                                                *)

\* The call a request awaits fails, and so does the request.
Fails(r) ==
  /\ InProgress(r) /\ Ends(r, at[r])
  /\ cut' = cut \cup {of[r]}
  /\ UNCHANGED <<rows, browser, of, mail, orphans, serial, crossed, bare, fresh, opened, spent>>

\* The mail of a login is rejected, which nobody awaits: the process ends, and
\* with it every request.
MailRejects(r) ==
  /\ r \in mail
  /\ mail' = {}
  /\ at' = [q \in Requests |-> IF InProgress(q) THEN "over" ELSE at[q]]
  /\ saw' = [q \in Requests |-> Nothing]
  /\ cut' = cut \cup {of[q] : q \in {q \in Requests : InProgress(q) \/ q \in mail}}
  /\ UNCHANGED <<rows, browser, of, orphans, serial, crossed, bare, fresh, opened, spent>>

NextOf(r) ==
  \/ \E u \in Users :
       \/ \E p \in Passwords : Register(r, u, p) \/ Login(r, u, p)
       \/ \E w \in Users : SendOtp(r, u, w)
       \/ SendOtpToNone(r, u) \/ Refresh(r, u) \/ ConnectBusiness(r, u)
       \/ \E c \in Requests :
            \/ Verify(r, u, c)
            \/ \E p \in Passwords, x \in Users \cup {None} : ForgotPassword(r, u, c, p, x)
       \/ \E old, new \in Passwords : ChangePassword(r, u, old, new)
       \/ \E p \in Providers : OAuth(r, u, p)
  \/ CreateUser(r) \/ LoginAccount(r) \/ FindToken(r) \/ AccessToken(r)
  \/ CreateCode(r) \/ MailArrives(r) \/ OtpMailed(r) \/ DropLate(r) \/ UseCode(r)
  \/ ResetPassword(r) \/ StorePlain(r) \/ RefreshCookie(r)
  \/ OAuthUser(r) \/ OAuthAccount(r) \/ Redirect(r)
  \/ MakeWaba(r) \/ MakeIntegration(r) \/ MakeContents(r)
  \/ Fails(r) \/ MailRejects(r)

Next ==
  \/ \E r \in Requests : NextOf(r)
  \/ \E u \in Users :
       \/ Late(u) \/ DeleteUser(u) \/ Logout(u)
       \/ AddIntegration(u) \/ AddContents(u)
       \/ DeleteContents(u) \/ DeleteIntegration(u)

Spec == Init /\ [][Next]_vars

-----------------------------------------------------------------------------
\* Every variable holds a value of its kind, a code has one row, and of the
\* requests only those begun have a user.
TypeOK ==
  /\ stored \in [Users -> Stored \cup {None}]
  /\ accounts \in [Users \X Providers -> Account \cup {None}]
  /\ codes \in [Users -> Seq(Code)] /\ business \in [Users -> SUBSET Parts]
  /\ \A u \in Users : \A i, j \in DOMAIN codes[u] :
       codes[u][i].code = codes[u][j].code => i = j
  /\ jar \in [Users -> Account]
  /\ newest \in [Users -> Tokens] /\ received \in [Users -> SUBSET Requests]
  /\ at \in [Requests -> Steps] /\ of \in [Requests -> Users \cup {None}]
  /\ \A r \in Requests : at[r] = "new" <=> of[r] = None
  /\ saw \in [Requests -> Seen]
  /\ mail \cup orphans \cup spent \subseteq Requests
  /\ serial \cup cut \cup crossed \cup bare \cup fresh \subseteq Users
  /\ opened \in [Requests -> Nat]

\* VerificationOTP and updateUserPassword read a code and mark it in a second
\* call: two requests with one code at once both get through.  If requests
\* come one at a time a code lets one through, to sign in or for a password.
SerialCodeOpensOnce ==
  \A c \in Requests : of[c] \in serial => opened[c] <= 1

\* login mails a code before its row is there and does not wait for either the
\* other way: mails and rows of two logins may come in different orders; and
\* sendOtp mails to an email the code of another's row.  If requests come one
\* at a time, none is cut off and none names one person for the code and
\* another for the mail, the code mailed last is the one that counts until it
\* is used or late.
SerialNewestCodeCounts ==
  \A u \in serial \ (cut \cup crossed) :
    ~Busy(u) /\ newest[u] \notin spent \cup {None} =>
      \E i \in LatestUnused(u) : codes[u][i].code = newest[u]

\* A sign-in replaces the tokens of the account, also under the verification
\* or the refresh of another.  If requests come one at a time, cookies handed
\* out are those of an account, so that AuthMiddleware and refresh accept
\* them, until another sign-in begins or the user logs out.
SerialCookiesWork ==
  \A u \in fresh \cap serial : jar[u].access # None =>
    Accepted(u) /\ HolderOf("refresh", jar[u].refresh) # {}

\* GoogleService and FacebookService make a user and then the account; a later
\* sign-in that finds no account makes the user again, which fails for ever
\* as the email is taken.  With Facebook the business rows follow the tokens,
\* and no later sign-in makes them up; the user may connect the business from
\* elsewhere at the same time, which makes one of the two fail.  Still nothing
\* but a request that is cut off leaves a user without an account, or with one
\* of Facebook and without the row of his business; and without his numbers
\* only that Meta showed none, or that he changed his integrations by hand.
OAuthUserIsComplete ==
  \A u \in Users :
    \/ Busy(u) \/ u \in cut
    \/ LET has == {p \in Providers : accounts[<<u, p>>] # None} IN
       /\ stored[u] # None /\ stored[u].pw = None => has \ {"email"} # {}
       /\ "facebook" \in has => /\ "waba" \in business[u]
                                /\ (u \in bare \/ "contents" \in business[u])
=============================================================================
