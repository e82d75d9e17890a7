------------------------------- MODULE SignIn -------------------------------
(***************************************************************************)
(* Administrators, and how they sign in: setup, GitHub (or the password of  *)
(* an older panel), the passkey step, and the break-glass link              *)
(* (panel/lib/login.mjs, auth.mjs, passkeys.mjs, core-routes.mjs).           *)
(*                                                                         *)
(* Handlers run to their end at once, except where they wait for GitHub or   *)
(* for a password hash: those have a request in flight in between.           *)
(***************************************************************************)
EXTENDS Naturals, FiniteSets

CONSTANTS
  Admin,    \* identities of admin records; none is used twice
  Account,  \* GitHub users
  Key,      \* passkeys; none is used twice
  Browser, None,
  MaxVersion, MaxFaults, MaxOrders  \* bounds for TLC

VARIABLES
  role,     \* of each record: "owner", "admin", None before it is there, or "gone"
  github,   \* its linked account
  password, \* it has a passwordHash
  version,  \* its sessionVersion
  keys,     \* its passkeys
  gone,     \* passkeys that were used up
  githubOnly, \* config.auth.provider
  cookie,   \* of each browser: the session [admin, version, key, rehashed], or None
  asked,    \* of its session: the kinds of challenges that are out, in the memory of the panel
  flight,   \* of each browser: the request that waits, or None
  recovery, \* recovery.json: [admin, reset], or None
  faults, orders  \* counters: of restarts and recoveries, and of what administrators do

records == <<role, github, password, version, keys, gone>>
browsers == <<cookie, asked, flight>>
counters == <<faults, orders>>
vars == <<records, githubOnly, browsers, recovery, counters>>

Order == orders < MaxOrders /\ orders' = orders + 1 /\ UNCHANGED faults

Admins == {a \in Admin : role[a] \in {"owner", "admin"}}
Owners == {a \in Admin : role[a] = "owner"}
NeedsSetup == Admins = {}
Linked(g) == {a \in Admins : github[a] = g}
Fresh == {a \in Admin : role[a] = None}

-----------------------------------------------------------------------------
(* Sessions.                                                                *)

\* sessionInfo: the cookie is of an admin that is there, and of no older version.
Accepted(b) == cookie[b] # None /\ cookie[b].admin \in Admins /\ cookie[b].version = version[cookie[b].admin]
Full(b) == Accepted(b) /\ cookie[b].key # None
Who(b) == cookie[b].admin

Session(a, v, k) == [admin |-> a, version |-> v, key |-> k, rehashed |-> FALSE]
Sets(b, session) == cookie' = [cookie EXCEPT ![b] = session]

\* A new sign-in is pending, and no challenge is bound to it.
SignsIn(b, a) == Sets(b, Session(a, version[a], None)) /\ asked' = [asked EXCEPT ![b] = {}]

\* mutant: the other sessions go on
BumpsNothing(a) == version
\* bumpSessions: every session of the admin ends.
Bumped(a) == [version EXCEPT ![a] = @ + 1]

\* What bounds the versions.
Bumps(a) == version[a] < MaxVersion

Lands(b) == flight' = [flight EXCEPT ![b] = None]

-----------------------------------------------------------------------------
(* GitHub.                                                                  *)

\* GET /auth/github: setup with the code, login, or link by a full session.  The signed
\* state comes back to the callback, which waits for the account (identify).
Leave(b, mode) ==
  /\ flight[b] = None
  /\ (mode = "setup") = NeedsSetup
  /\ mode = "link" => Full(b)
  /\ IF mode = "setup" THEN UNCHANGED counters ELSE Order
  /\ \E g \in Account :
       flight' = [flight EXCEPT ![b] = [op |-> "callback", mode |-> mode, account |-> g,
                                        admin |-> IF mode = "link" THEN Who(b) ELSE None,
                                        version |-> IF mode = "link" THEN cookie[b].version ELSE 0]]
  /\ UNCHANGED <<records, githubOnly, cookie, asked, recovery>>

Back(b, mode) == flight[b] # None /\ flight[b].op = "callback" /\ flight[b].mode = mode /\ Lands(b)

\* mutant: whether there is an owner was asked before the answer of GitHub
SetupIsOn == TRUE
\* It is asked again: another browser may have finished setup meanwhile.
SetupStillOn == NeedsSetup

SetUp(b) ==
  /\ Back(b, "setup") /\ SetupStillOn
  /\ \E a \in Fresh :
       /\ role' = [role EXCEPT ![a] = "owner"]
       /\ github' = [github EXCEPT ![a] = flight[b].account]
       /\ SignsIn(b, a)
  /\ githubOnly' = TRUE
  /\ UNCHANGED <<password, version, keys, gone, recovery, counters>>

\* The admin is still there, with the version that asked; the account is nobody else's.
Link(b) ==
  /\ Back(b, "link")
  /\ LET st == flight[b]
     IN  /\ st.admin \in Admins /\ version[st.admin] = st.version
         /\ Linked(flight[b].account) \subseteq {st.admin}
         /\ github' = [github EXCEPT ![st.admin] = flight[b].account]
  /\ UNCHANGED <<role, password, version, keys, gone, githubOnly, cookie, asked, recovery, counters>>

Login(b) ==
  /\ Back(b, "login")
  /\ \E a \in Linked(flight[b].account) : SignsIn(b, a)
  /\ UNCHANGED <<records, githubOnly, recovery, counters>>

\* A member of the organisation gets a record at the first sign-in.
Joins(b) ==
  /\ Back(b, "login") /\ Linked(flight[b].account) = {}
  /\ \E a \in Fresh :
       /\ role' = [role EXCEPT ![a] = "admin"]
       /\ github' = [github EXCEPT ![a] = flight[b].account]
       /\ SignsIn(b, a)
  /\ UNCHANGED <<password, version, keys, gone, githubOnly, recovery, counters>>

\* A refusal, or an error of GitHub.
Refused(b) ==
  /\ flight[b] # None /\ Lands(b)
  /\ UNCHANGED <<records, githubOnly, cookie, asked, recovery, counters>>

-----------------------------------------------------------------------------
(* Passwords, on a panel from before.                                       *)

\* POST /api/login, until the hash is checked.
PasswordLogin(b, a) ==
  /\ Order /\ ~githubOnly /\ password[a] /\ a \in Admins /\ flight[b] = None
  /\ flight' = [flight EXCEPT ![b] = [op |-> "login", admin |-> a]]
  /\ UNCHANGED <<records, githubOnly, cookie, asked, recovery>>

PasswordRight(b) ==
  /\ flight[b] # None /\ flight[b].op = "login" /\ Lands(b)
  /\ flight[b].admin \in Admins
  /\ SignsIn(b, flight[b].admin)
  /\ UNCHANGED <<records, githubOnly, recovery, counters>>

\* POST /api/me/password: verifyPassword, hashPassword.
AskPassword(b) ==
  /\ Order /\ Full(b) /\ ~githubOnly /\ password[Who(b)] /\ flight[b] = None
  /\ flight' = [flight EXCEPT ![b] = [op |-> "password", admin |-> Who(b)]]
  /\ UNCHANGED <<records, githubOnly, cookie, asked, recovery>>

\* The cookie is issued again with the passkey it had, and its version is not looked at.
SetPassword(b) ==
  /\ flight[b] # None /\ flight[b].op = "password" /\ Lands(b)
  /\ LET a == flight[b].admin
     IN  /\ a \in Admins /\ Bumps(a)
         /\ password' = [password EXCEPT ![a] = TRUE]
         /\ version' = Bumped(a)
         /\ cookie' = [cookie EXCEPT ![b] = [admin |-> a, version |-> version'[a], rehashed |-> TRUE,
                                             key |-> IF @ # None /\ @.admin = a THEN @.key ELSE None]]
  /\ UNCHANGED <<role, github, keys, gone, githubOnly, asked, recovery, counters>>

\* POST /api/auth/github-only: the caller and every owner are linked.
GithubOnly(b) ==
  /\ Order /\ Full(b) /\ ~githubOnly
  /\ github[Who(b)] # None /\ \A a \in Owners : github[a] # None
  /\ githubOnly' = TRUE
  /\ password' = [a \in Admin |-> FALSE]
  /\ UNCHANGED <<role, github, version, keys, gone, browsers, recovery>>

\* DELETE /api/me/github.
Unlink(b) ==
  /\ Order /\ Full(b) /\ ~githubOnly /\ password[Who(b)] /\ github[Who(b)] # None /\ Bumps(Who(b))
  /\ github' = [github EXCEPT ![Who(b)] = None]
  /\ version' = Bumped(Who(b))
  /\ Sets(b, [cookie[b] EXCEPT !.version = version'[Who(b)]])
  /\ UNCHANGED <<role, password, keys, gone, githubOnly, asked, flight, recovery>>

-----------------------------------------------------------------------------
(* The passkey step, and passkeys.                                          *)

Asks(b, kind) ==
  /\ Accepted(b) /\ kind \notin asked[b]
  /\ asked' = [asked EXCEPT ![b] = @ \cup {kind}]
  /\ UNCHANGED <<records, githubOnly, cookie, flight, recovery, counters>>

\* register/options: the first passkey, or one more in a full session.
AskCreate(b) == Asks(b, "create") /\ (Full(b) \/ keys[Who(b)] = {})

\* verify/options.
AskGet(b) == Asks(b, "get") /\ keys[Who(b)] # {}

Takes(b, kind) == kind \in asked[b] /\ asked' = [asked EXCEPT ![b] = @ \ {kind}]

\* Another tab may have added the first passkey meanwhile.
Register(b) ==
  /\ Accepted(b) /\ Takes(b, "create")
  /\ Full(b) \/ keys[Who(b)] = {}
  /\ \E k \in Key \ gone :
       /\ keys' = [keys EXCEPT ![Who(b)] = @ \cup {k}]
       /\ gone' = gone \cup {k}
       /\ IF Full(b) THEN UNCHANGED cookie ELSE Sets(b, [cookie[b] EXCEPT !.key = k])
  /\ UNCHANGED <<role, github, password, version, githubOnly, flight, recovery, counters>>

Verify(b) ==
  /\ Accepted(b) /\ ~Full(b) /\ Takes(b, "get")
  /\ \E k \in keys[Who(b)] : Sets(b, [cookie[b] EXCEPT !.key = k])
  /\ UNCHANGED <<records, githubOnly, flight, recovery, counters>>

\* DELETE /api/me/passkeys/:id: not the only one; the other sessions end.
RemoveKey(b, k) ==
  /\ Order /\ Full(b) /\ k \in keys[Who(b)] /\ keys[Who(b)] # {k} /\ Bumps(Who(b))
  /\ keys' = [keys EXCEPT ![Who(b)] = @ \ {k}]
  /\ version' = Bumped(Who(b))
  /\ \E other \in keys'[Who(b)] :
       Sets(b, [cookie[b] EXCEPT !.version = version'[Who(b)], !.key = IF @ = k THEN other ELSE @])
  /\ UNCHANGED <<role, github, password, gone, githubOnly, asked, flight, recovery>>

\* reset: all of them, and all sessions.
Resets(a) ==
  /\ Bumps(a)
  /\ keys' = [keys EXCEPT ![a] = {}]
  /\ version' = Bumped(a)

\* DELETE /api/admins/:id/passkeys, by an owner.
ResetKeys(b, a) ==
  /\ Order /\ Full(b) /\ Who(b) \in Owners /\ a \in Admins \ {Who(b)}
  /\ Resets(a)
  /\ UNCHANGED <<role, github, password, gone, githubOnly, browsers, recovery>>

\* recover.mjs, and GET /auth/recover: once.
WriteRecovery(a, reset) ==
  /\ a \in Admins /\ recovery = None /\ faults < MaxFaults
  /\ faults' = faults + 1
  /\ recovery' = [admin |-> a, reset |-> reset]
  /\ UNCHANGED <<records, githubOnly, browsers, orders>>

Recover(b) ==
  /\ recovery # None
  /\ recovery' = None
  /\ LET a == IF recovery.admin \in Admins THEN recovery.admin ELSE CHOOSE o \in Owners : TRUE
     IN  /\ IF recovery.reset /\ recovery.admin \in Admins THEN Resets(a) ELSE UNCHANGED <<keys, version>>
         /\ Sets(b, Session(a, version'[a], None))
  /\ asked' = [asked EXCEPT ![b] = {}]
  /\ UNCHANGED <<role, github, password, gone, githubOnly, flight, counters>>

-----------------------------------------------------------------------------
(* Administrators of administrators.                                        *)

\* POST /api/admins waits for the look-up of the account, PATCH for that or a hash.
AskAdd(b) ==
  /\ Order /\ Full(b) /\ flight[b] = None
  /\ \E g \in Account : flight' = [flight EXCEPT ![b] = [op |-> "add", account |-> g]]
  /\ UNCHANGED <<records, githubOnly, cookie, asked, recovery>>

Add(b) ==
  /\ flight[b] # None /\ flight[b].op = "add" /\ Lands(b)
  /\ Linked(flight[b].account) = {}
  /\ \E a \in Fresh :
       /\ role' = [role EXCEPT ![a] = "admin"]
       /\ github' = [github EXCEPT ![a] = flight[b].account]
  /\ UNCHANGED <<password, version, keys, gone, githubOnly, cookie, asked, recovery, counters>>

\* An owner alone edits another owner and changes roles: `asOwner` is read before the wait.
AskPatch(b, a, to) ==
  /\ Order /\ Full(b) /\ flight[b] = None /\ a \in Admins
  /\ a \in Owners /\ a # Who(b) => Who(b) \in Owners
  /\ \E g \in Account \cup {None} :
       /\ g # None => a # Who(b)
       /\ flight' = [flight EXCEPT ![b] = [op |-> "patch", admin |-> a, to |-> to, account |-> g,
                                           owners |-> Cardinality(Owners), asOwner |-> Who(b) \in Owners]]
  /\ UNCHANGED <<records, githubOnly, cookie, asked, recovery>>

\* mutant: the owners are counted before the wait
CountedBefore(b) == flight[b].owners > 1
\* ownerCount, after the wait.
CountedNow(b) == Cardinality(Owners) > 1

Patch(b) ==
  /\ flight[b] # None /\ flight[b].op = "patch" /\ Lands(b)
  /\ LET a == flight[b].admin  to == flight[b].to  g == flight[b].account
     IN  /\ a \in Admins
         /\ to # role[a] => flight[b].asOwner /\ (to = "admin" => CountedNow(b))
         /\ g # None => Linked(g) \subseteq {a} /\ Bumps(a)
         /\ role' = [role EXCEPT ![a] = to]
         /\ github' = IF g # None THEN [github EXCEPT ![a] = g] ELSE github
         /\ version' = IF g # None /\ g # github[a] THEN Bumped(a) ELSE version
  /\ UNCHANGED <<password, keys, gone, githubOnly, cookie, asked, recovery, counters>>

DeleteAdmin(b, a) ==
  /\ Order /\ Full(b) /\ a \in Admins \ {Who(b)}
  /\ a \in Owners => Who(b) \in Owners /\ Cardinality(Owners) > 1
  /\ role' = [role EXCEPT ![a] = "gone"]
  /\ keys' = [keys EXCEPT ![a] = {}]
  /\ UNCHANGED <<github, password, version, gone, githubOnly, browsers, recovery>>

\* POST /api/me/sessions/revoke, and logout.
RevokeAll(b) ==
  /\ Order /\ Full(b) /\ Bumps(Who(b))
  /\ version' = Bumped(Who(b))
  /\ Sets(b, None)
  /\ UNCHANGED <<role, github, password, keys, gone, githubOnly, asked, flight, recovery>>

Logout(b) ==
  /\ cookie[b] # None
  /\ Sets(b, None)
  /\ UNCHANGED <<records, githubOnly, asked, flight, recovery, counters>>

\* The panel restarts, or another server leads: challenges and requests are gone.
Restart ==
  /\ faults < MaxFaults
  /\ faults' = faults + 1
  /\ asked' = [b \in Browser |-> {}]
  /\ flight' = [b \in Browser |-> None]
  /\ UNCHANGED <<records, githubOnly, cookie, recovery, orders>>

\* A new panel, or one whose owners sign in with a password.
Init ==
  /\ github = [a \in Admin |-> None] /\ version = [a \in Admin |-> 0]
  /\ keys = [a \in Admin |-> {}] /\ gone = {}
  /\ githubOnly = FALSE
  /\ \/ role = [a \in Admin |-> None] /\ password = [a \in Admin |-> FALSE]
     \/ /\ role \in [Admin -> {"owner", "admin", None}] /\ Owners # {}
        /\ password = [a \in Admin |-> role[a] # None]
  /\ cookie = [b \in Browser |-> None] /\ asked = [b \in Browser |-> {}]
  /\ flight = [b \in Browser |-> None]
  /\ recovery = None /\ faults = 0 /\ orders = 0

ByGithub(b) == (\E mode \in {"setup", "login", "link"} : Leave(b, mode))
               \/ SetUp(b) \/ Link(b) \/ Login(b) \/ Joins(b) \/ Refused(b)
ByPassword(b) == (\E a \in Admin : PasswordLogin(b, a)) \/ PasswordRight(b) \/ AskPassword(b) \/ SetPassword(b)
                 \/ GithubOnly(b) \/ Unlink(b)
Passkeys(b) == AskCreate(b) \/ AskGet(b) \/ Register(b) \/ Verify(b)
               \/ (\E k \in Key : RemoveKey(b, k)) \/ (\E a \in Admin : ResetKeys(b, a)) \/ Recover(b)
Office(b) == AskAdd(b) \/ Add(b) \/ Patch(b) \/ RevokeAll(b) \/ Logout(b)
             \/ \E a \in Admin : DeleteAdmin(b, a) \/ \E to \in {"owner", "admin"} : AskPatch(b, a, to)
Next == Restart \/ (\E a \in Admin, reset \in BOOLEAN : WriteRecovery(a, reset))
        \/ \E b \in Browser : ByGithub(b) \/ ByPassword(b) \/ Passkeys(b) \/ Office(b)
Spec == Init /\ [][Next]_vars

-----------------------------------------------------------------------------

\* "there is always at least one owner left" (core-routes.mjs), whatever requests wait.
AlwaysAnOwner == Admins # {} => Owners # {}

\* Setup makes one owner, however many browsers finish it.
OneSetupStep ==
  Admins # {} => Cardinality(Owners') <= Cardinality(Owners) + 1 /\
    \A a \in Fresh : role'[a] # "owner"
OneSetup == [][OneSetupStep]_vars

\* Who works in the panel has the passkey that confirmed the session: removing or
\* resetting passkeys ended the others.  A session that a password change issued again
\* meanwhile is left out.
FullHasItsPasskey == \A b \in Browser : Full(b) /\ ~cookie[b].rehashed => cookie[b].key \in keys[Who(b)]

\* "Every owner must be able to sign in once passwords are gone." (login.mjs)
OwnersCanSignIn == githubOnly => \A a \in Owners : github[a] # None

\* reset "ends all their sessions" (passkeys.mjs), also one whose password change waits.
ResetEndsAll == \A b \in Browser : Full(b) => cookie[b].key \in keys[Who(b)]
=============================================================================
