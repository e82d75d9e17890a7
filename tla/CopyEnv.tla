------------------------------ MODULE CopyEnv ------------------------------
(***************************************************************************)
(* The variables of a copy of a website: of the throw-away copy a commit   *)
(* is tested in (rewriteEnv, shared/testenv.mjs), and of a staging copy    *)
(* (stagingEnv, panel/lib/staging.mjs).  Both walk over the live website's *)
(* variables in whatever order they were saved, by rules that look at the  *)
(* name or the value of one variable and sometimes change others.          *)
(*                                                                         *)
(* A value stands for what it reaches: "mysql" and "postgres" are          *)
(* addresses of production data, "prod" the name of a production host,     *)
(* "secret" some credential, "sk_live" a live Stripe key, "whsec" the      *)
(* secret of a Stripe webhook, "webhook" a chat's; "throw-away",           *)
(* "catcher" and "copy" are the copy's own database, mail catcher and      *)
(* address.                                                                *)
(***************************************************************************)
EXTENDS Naturals, FiniteSets

CONSTANTS None,
          Name,          \* the names that occur
          Usual,         \* Usual[n]: the values that n has on a website
          MaxVariables   \* on one website

VARIABLES
  kind,       \* "test", "staging"
  was,        \* the website's variables
  linked,     \* those of them that come from a linked database
  env,        \* out: the copy's
  todo,       \* the names still to be looked at: Object.keys(out) when the loop began
  hasDb,      \* there is a database of the copy's to point at
  live,       \* liveStripe
  step        \* "linked", "loop", "add", "own", "test", "done"
vars == <<kind, was, linked, env, todo, hasDb, live, step>>

Set(e, k, v) == [e EXCEPT ![k] = v]
Drop(e, ks) == [k \in Name |-> IF k \in ks THEN None ELSE e[k]]
Named(e) == {k \in Name : e[k] # None}

-----------------------------------------------------------------------------
(* What the rules look for.                                                  *)

DbKey == {"DB_HOST", "DB_PASSWORD"}
MailKey == {"SMTP_HOST", "SMTP_PASS"}
MailUrlKey == {"EMAIL_SERVER"}
MailApi == {"SENDGRID_API_KEY"}
Messaging == {"TWILIO_AUTH_TOKEN"}
LiveNamed == {"STRIPE_LIVE_SECRET"}
PayEnv == {"PAYPAL_MODE", "PAYPAL_LIVE"}
\* mutant: only those the loop has not come to yet
SecretsToCome(p) == IF p \in PayEnv THEN {"PAYPAL_CLIENT_SECRET"} \cap todo ELSE {}
Secrets(p) == IF p \in PayEnv THEN {"PAYPAL_CLIENT_SECRET"} ELSE {}
LivePayment(v) == v = "sk_live"

\* planDatabases: one for every linked database, or for the website's own; a static website
\* without one gets none.
Planned == linked # {} \/ \E k \in Name : was[k] = "mysql" \/ (k = "DB_HOST" /\ was[k] # None)

-----------------------------------------------------------------------------
(* rewriteEnv.                                                               *)

\* 1. The variables of linked databases are known exactly.  A staging copy gets them from
\* its own link.
Linked ==
  /\ step = "linked"
  /\ env' = [k \in Name |-> IF k \notin linked THEN env[k] ELSE IF kind = "test" THEN "throw-away" ELSE None]
  /\ todo' = Named(env')
  /\ step' = "loop" /\ UNCHANGED <<kind, was, linked, hasDb, live>>

\* 2. Data stores: is there a database to point at?
Data(k, v) ==
  CASE v = "mysql" \/ k \in DbKey -> IF hasDb THEN Set(env, k, "throw-away") ELSE Drop(env, {k})
    [] OTHER -> Drop(env, {k})
IsData(k, v) == v = "mysql" \/ k \in DbKey \/ (kind = "test" /\ v = "postgres")

\* 3. Mail goes to the catcher; what sends by itself is taken away.
IsMail(k, v) ==
  /\ kind = "test"
  /\ v \in {"smtp", "webhook"} \/ k \in MailKey \/ k \in MailUrlKey \/ k \in MailApi \/ k \in Messaging
Mail(k, v) ==
  IF v # "webhook" /\ (v = "smtp" \/ k \in MailKey \cup MailUrlKey) THEN Set(env, k, "catcher") ELSE Drop(env, {k})

\* 4. Payments: live keys go, and a provider in live mode is put in test mode without its
\* credentials.
IsLiveMode(k, v) == k \in PayEnv /\ v = "live"
Payments(k, v) ==
  CASE LivePayment(v) \/ k \in LiveNamed -> Drop(env, {k})
    [] IsLiveMode(k, v) -> Set(Drop(env, Secrets(k)), k, "sandbox")
    [] OTHER -> env

\* One variable.  It may be gone by now; its name is still looked at.
Look(k) ==
  LET v == env[k]
  IN /\ step = "loop" /\ k \in todo
     /\ todo' = todo \ {k}
     /\ env' = CASE k \in linked -> env
                 [] IsData(k, v) -> Data(k, v)
                 [] ~IsData(k, v) /\ IsMail(k, v) -> Mail(k, v)
                 [] OTHER -> Payments(k, v)
     /\ live' = (live \/ (LivePayment(v) /\ k \notin linked /\ ~IsData(k, v) /\ ~IsMail(k, v)))
     /\ UNCHANGED <<kind, was, linked, hasDb, step>>

\* After the loop: the webhook secrets of a live Stripe account.
Webhooks(e) == IF live THEN Drop(e, {k \in Name : e[k] = "whsec"}) ELSE e
Looked ==
  /\ step = "loop" /\ todo = {}
  /\ env' = Webhooks(env)
  /\ step' = IF kind = "test" THEN "add" ELSE "own"
  /\ UNCHANGED <<kind, was, linked, todo, hasDb, live>>

\* 4b. A website without a database gets the standard variables, where they are not set;
\* a static one does not.
Add ==
  /\ step = "add"
  /\ \/ env' = [k \in Name |-> IF ~Planned /\ k \in {"DATABASE_URL"} \cup DbKey /\ env[k] = None THEN "throw-away" ELSE env[k]]
     \/ env' = env /\ ~Planned
  /\ step' = "own" /\ UNCHANGED <<kind, was, linked, todo, hasDb, live>>
\* 5. The website's own address.
OwnAddress ==
  /\ step = "own"
  /\ env' = [k \in Name |-> IF env[k] = "own" THEN "copy" ELSE env[k]]
  /\ step' = (IF kind = "test" THEN "test" ELSE "done") /\ UNCHANGED <<kind, was, linked, todo, hasDb, live>>
\* 6. The test-only variables win; a live key among them is refused.
TestOnly(k, v) ==
  /\ step = "test"
  /\ env' = IF LivePayment(v) THEN env ELSE Set(env, k, v)
  /\ step' = "done" /\ UNCHANGED <<kind, was, linked, todo, hasDb, live>>

\* stagingEnv walks by the same rules, without those for other data stores and mail, and
\* has no standard or test-only variables.
StagingEnv == kind = "staging" /\ (Linked \/ (\E k \in Name : Look(k)) \/ Looked \/ OwnAddress)
RewriteEnv == kind = "test" /\ (Linked \/ (\E k \in Name : Look(k)) \/ Looked \/ Add \/ OwnAddress
                                \/ \E k \in Name, v \in {"sk_live", "plain"} : TestOnly(k, v))

Init ==
  /\ kind \in {"test", "staging"}
  /\ was \in {e \in [Name -> {None} \cup UNION {Usual[n] : n \in Name}] :
                /\ Cardinality(Named(e)) <= MaxVariables /\ \A k \in Named(e) : e[k] \in Usual[k]}
  /\ linked \in SUBSET {k \in DbKey \cup {"DATABASE_URL"} : was[k] # None}
  /\ hasDb \in IF kind = "test" THEN {Planned} ELSE {Planned, FALSE}   \* a static website's copy has none
  /\ env = was /\ todo = {} /\ live = FALSE /\ step = "linked"
Next == RewriteEnv \/ StagingEnv
Spec == Init /\ [][Next]_vars

-----------------------------------------------------------------------------
(* Properties.                                                               *)

ProductionData(e) == (\E k \in Name : e[k] = "mysql") \/ e["DB_HOST"] = "prod"
OtherData(e) == \E k \in Name : e[k] = "postgres"
People(e) == e["SMTP_HOST"] = "prod" \/ \E k \in Name : e[k] \in {"smtp", "webhook"}
             \/ (k \in MailApi \cup Messaging /\ e[k] = "secret")
Stripe(e) == \E k \in Name : e[k] = "sk_live" \/ (e[k] = "whsec" /\ \E l \in Name : was[l] = "sk_live")
Paypal(e) == e["PAYPAL_CLIENT_SECRET"] = "secret"

\* Whatever the variables and the order they were saved in, no copy keeps a live payment key,
\* the webhook secret of a live account, the credentials of a provider that was in live mode, or
\* the address of the production database; and a test reaches no other data store, mailbox or
\* phone (the two functions' comments; the tests try one order of each).
CopyReachesNothingLive ==
  step = "done" =>
    /\ ~ProductionData(env) /\ ~Stripe(env)
    /\ was["PAYPAL_MODE"] = "live" => ~Paypal(env) /\ env["PAYPAL_MODE"] # "live"
    /\ kind = "test" => ~OtherData(env) /\ ~People(env)

\* The comment of rewriteEnv: "Never leaves a value that reaches production data, a real
\* mailbox/phone, or a live payment account."  PAYPAL_LIVE is among the names it looks for.
NeverALiveAccount ==
  step = "done" /\ kind = "test" /\ was["PAYPAL_LIVE"] = "true" => ~(Paypal(env) /\ env["PAYPAL_LIVE"] = "true")
=============================================================================
