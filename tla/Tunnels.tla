------------------------------ MODULE Tunnels ------------------------------
(* Cloudflare tunnel routes (panel/lib/cloudflare.mjs).  A website's hostname
   is served through a tunnel by an ingress rule on that tunnel and a proxied
   CNAME.  Cloudflare is shared: the same rules and records are edited in its
   dashboard, which reads a tunnel's rules and writes the whole list back, as
   the panel does.  The panel keeps a ledger of what it wrote or found; routes
   are brought in line by one reconcile at a time (serial()), every call to
   Cloudflare being a step of its own.  Accounts and zones are left out: the
   credentials reach every tunnel and zone, or none (disconnected).          *)
EXTENDS Integers, Sequences, FiniteSets

CONSTANTS Site, Service,  \* owners of routes: websites; the panel and phpMyAdmin, published by themselves
          Host, Tunnel, None,
          MaxChanges,  \* requests to the panel and edits in the dashboard
          MaxFaults    \* calls that fail, crashes

Attempts == 3   \* INGRESS_ATTEMPTS
Owner == Site \cup Service
Route == Host \X Tunnel
Target == {"http", "https"}   \* nginx's :80, or :443 once there is a certificate

VARIABLES cfg,       \* [Owner -> [Host -> Tunnel or None]]: site.cloudflare
          ssl,       \* [Owner -> Target]: what the rule points at
          alive,     \* websites that exist
          connected, \* an API token and an account
          ledger,    \* [Owner -> [Route -> row or None]]: cloudflareRoutes
          rules,     \* [Tunnel -> [Host -> rule or None]] in Cloudflare
          dns,       \* [Host -> record or None] in Cloudflare
          ids,       \* record ids given out
          draft,     \* the dashboard's edit: what it read, or None
          queue,     \* jobs waiting for serial()
          run,       \* the reconcile under way, or None
          changes, faults

vars == <<cfg, ssl, alive, connected, ledger, rules, dns, ids, draft, queue, run, changes, faults>>
cloud == <<rules, dns, ids>>
site == <<cfg, ssl, alive, connected>>

Init == /\ cfg = [o \in Owner |-> [h \in Host |-> None]]
        /\ ssl = [o \in Owner |-> "http"]
        /\ alive = Owner /\ connected = TRUE
        /\ ledger = [o \in Owner |-> [r \in Route |-> None]]
        /\ rules = [t \in Tunnel |-> [h \in Host |-> None]]
        /\ dns = [h \in Host |-> None]
        /\ ids = 0
        /\ draft = None /\ queue = <<>> /\ run = None
        /\ changes = 0 /\ faults = 0

Change == changes < MaxChanges /\ changes' = changes + 1 /\ UNCHANGED faults
Fault == faults < MaxFaults /\ faults' = faults + 1 /\ UNCHANGED changes
Quiet == UNCHANGED <<changes, faults>>

Desired(o) == {r \in Route : cfg[o][r[1]] = r[2]}
Rows(o) == {r \in Route : ledger[o][r] # None}
InSync(o, want, to) == /\ Rows(o) = want
                       /\ \A r \in want : ledger[o][r].status = "active" /\ ledger[o][r].to = to

Sync(o, want, replace) == [owner |-> o, want |-> want, replace |-> replace]
\* syncSite: the job looks the website up again when it runs (want: "config").
\* Nothing to do for a website with no routes and no leftovers, or in sync.
SyncSite(o, want, to) == IF want \cup Rows(o) = {} \/ InSync(o, want, to) THEN queue
                         ELSE Append(queue, Sync(o, "config", FALSE))

-----------------------------------------------------------------------------
(* Requests *)

Taken(o, h) == \E p \in alive \ {o} : cfg[p][h] # None
\* validateSite: whether the tunnel and the zone are within reach.
CanDeliver(o, h) == connected /\ ~Taken(o, h)
\* PATCH of a website: a hostname onto a tunnel, or off it.
Deliver(o, h, t) ==
  /\ o \in alive \cap Site /\ cfg[o][h] # t /\ Change
  /\ t # None => CanDeliver(o, h)
  /\ cfg' = [cfg EXCEPT ![o][h] = t]
  /\ queue' = SyncSite(o, {r \in Route : cfg'[o][r[1]] = r[2]}, ssl[o])
  /\ UNCHANGED <<ssl, alive, connected, ledger, cloud, draft, run>>

\* PUT of the panel's or phpMyAdmin's one hostname; connected or not, and synced whatever it was.
Publish(o, h, t) ==
  /\ o \in Service /\ Change
  /\ t # None => ~Taken(o, h)
  /\ cfg' = [cfg EXCEPT ![o] = [g \in Host |-> IF g = h THEN t ELSE None]]
  /\ queue' = Append(queue, Sync(o, "config", FALSE))
  /\ UNCHANGED <<ssl, alive, connected, ledger, cloud, draft, run>>

\* A certificate came or went: the "lb" event re-syncs a website that has tunnel hostnames.
Certificate(o) ==
  /\ o \in alive /\ Change
  /\ ssl' = [ssl EXCEPT ![o] = CHOOSE x \in Target : x # ssl[o]]
  /\ queue' = IF \E h \in Host : cfg[o][h] # None THEN SyncSite(o, Desired(o), ssl'[o]) ELSE queue
  /\ UNCHANGED <<cfg, alive, connected, ledger, cloud, draft, run>>

Resync(o, replace) ==
  /\ o \in alive \cap Site /\ Change
  /\ queue' = Append(queue, Sync(o, "config", replace))
  /\ UNCHANGED <<site, ledger, cloud, draft, run>>

\* The website's deletion takes its routes out before the record goes.
DeleteSite(o) ==
  /\ o \in alive \cap Site /\ Change
  /\ alive' = alive \ {o}
  /\ queue' = IF Rows(o) = {} THEN queue ELSE Append(queue, Sync(o, "nothing", FALSE))
  /\ UNCHANGED <<cfg, ssl, connected, ledger, cloud, draft, run>>

Connect == /\ ~connected /\ Change /\ connected' = TRUE
           /\ UNCHANGED <<cfg, ssl, alive, ledger, cloud, draft, queue, run>>
\* POST token "": what is recorded stays, only the credentials go.
Disconnect == /\ connected /\ Change /\ connected' = FALSE
              /\ UNCHANGED <<cfg, ssl, alive, ledger, cloud, draft, queue, run>>
\* reset also forgets the ledger.
Reset == /\ connected /\ Change /\ connected' = FALSE
         /\ ledger' = [o \in Owner |-> [r \in Route |-> None]]
         /\ UNCHANGED <<cfg, ssl, alive, cloud, draft, queue, run>>

-----------------------------------------------------------------------------
(* The dashboard: someone else's edits.  `ours` of a rule: the panel wrote it,
   or had it on its record as written when someone put another in its place. *)

Prev(r, x) == r.rows[x]
PrevIng(r, x) == IF Prev(r, x) = None THEN None ELSE Prev(r, x).ing
Written(t, h) == \/ \E o \in Owner : ledger[o][<<h, t>>] # None /\ ledger[o][<<h, t>>].ing = "created"
                 \/ run # None /\ (run.out[<<h, t>>] = "created" \/ PrevIng(run, <<h, t>>) = "created")

DashReads(t) == /\ draft = None /\ Change
                /\ draft' = [tunnel |-> t, rules |-> rules[t]]
                /\ UNCHANGED <<site, ledger, cloud, queue, run>>
DashWrites(h, to) ==
  /\ draft # None
  /\ rules' = [rules EXCEPT ![draft.tunnel] = [draft.rules EXCEPT ![h] =
         IF to = None THEN None ELSE [to |-> to, ours |-> Written(draft.tunnel, h)]]]
  /\ draft' = None
  /\ Quiet /\ UNCHANGED <<site, ledger, dns, ids, queue, run>>
DashRecord(h, to) ==
  /\ (dns[h] = None) # (to = None) /\ Change
  /\ dns' = [dns EXCEPT ![h] = IF to = None THEN None ELSE [id |-> ids + 1, to |-> to, ours |-> FALSE]]
  /\ ids' = IF to = None THEN ids ELSE ids + 1
  /\ UNCHANGED <<site, ledger, rules, draft, queue, run>>

-----------------------------------------------------------------------------
(* The reconcile *)

Removing(r) == {x \in Route : r.rows[x] # None /\ x \notin r.want}
On(s, t) == {x \in s : x[2] = t}

Row(status, ing, id, mine, to) == [status |-> status, ing |-> ing, dnsId |-> id, mine |-> mine, to |-> to]
PrevId(r, x) == IF Prev(r, x) = None THEN 0 ELSE Prev(r, x).dnsId
PrevMine(r, x) == Prev(r, x) # None /\ Prev(r, x).mine

\* Without credentials the rows going are forgotten and the others say what to do by hand.
Manual(o, want) ==
  /\ ledger' = [ledger EXCEPT ![o] = [x \in Route |-> IF x \in want THEN Row("manual", None, 0, FALSE, None) ELSE None]]
  /\ run' = None

Start ==
  /\ run = None /\ queue # <<>>
  /\ LET j == Head(queue)
         want == IF j.want = "config" THEN Desired(j.owner) ELSE {}
         rows == ledger[j.owner]
         r == [owner |-> j.owner, replace |-> j.replace, want |-> want, rows |-> rows, to |-> ssl[j.owner],
               todo |-> {t \in Tunnel : \E h \in Host : <<h, t>> \in want \/ (rows[<<h, t>>] # None)},
               at |-> None, got |-> None, step |-> "next", attempt |-> 1,
               out |-> [x \in Route |-> None], bad |-> {}, left |-> want]
     IN IF connected THEN run' = [r EXCEPT !.left = want \cup Removing(r)] /\ UNCHANGED ledger
                     ELSE Manual(j.owner, want)
  /\ queue' = Tail(queue)
  /\ Quiet /\ UNCHANGED <<site, cloud, draft>>

\* What is done about each of this tunnel's routes, from the rules read.
Fate(r, t, h) ==
  LET x == <<h, t>>  g == r.got[h]  p == PrevIng(r, x) IN
  CASE x \in Removing(r) -> IF p = "created" THEN "drop" ELSE "keep"
    [] x \notin r.want -> "keep"
    [] g = None -> "add"
    [] g # None /\ p # None -> IF g.to # r.to THEN "update" ELSE "mine"
    [] g # None /\ p = None /\ g.to = r.to -> "adopt"
    [] g # None /\ p = None /\ g.to # r.to -> IF r.replace THEN "replace" ELSE "clash"
\* outcome: what the ledger will say of a route.
Outcome(r, t, h) ==
  LET f == Fate(r, t, h)  p == PrevIng(r, <<h, t>>) IN
  CASE f = "add" -> IF p = "adopted" THEN "adopted" ELSE "created"
    [] f \in {"update", "mine"} -> p
    [] f = "adopt" -> "adopted"
    [] f = "replace" -> "created"
    [] OTHER -> r.out[<<h, t>>]
NewRules(r, t) ==
  [h \in Host |-> CASE Fate(r, t, h) = "drop" -> None
                    [] Fate(r, t, h) \in {"add", "replace"} -> [to |-> r.to, ours |-> TRUE]
                    [] Fate(r, t, h) = "update" -> [r.got[h] EXCEPT !.to = r.to]
                    [] OTHER -> r.got[h]]

NextTunnel(r) == [r EXCEPT !.todo = @ \ {r.at}, !.at = None, !.got = None, !.step = "next", !.attempt = 1]
Fail(r, xs) == [r EXCEPT !.bad = @ \cup xs]

\* writeIngress, first read.  Nothing to change: on to the next tunnel.
ReadRules(t) ==
  /\ run # None /\ run.step = "next" /\ t \in run.todo /\ (run.at # None => run.at = t)
  /\ run.at = None => connected
  /\ LET g == [run EXCEPT !.at = t, !.got = rules[t]]
         r == [g EXCEPT !.out = [x \in Route |-> IF x[2] = t THEN Outcome(g, t, x[1]) ELSE @[x]],
                        !.bad = @ \cup {x \in On(g.want, t) : Fate(g, t, x[1]) = "clash"}]
     IN run' = IF NewRules(g, t) = rules[t] THEN NextTunnel(r) ELSE [r EXCEPT !.step = "put"]
  /\ Quiet /\ UNCHANGED <<site, ledger, cloud, draft, queue>>
\* The call fails, or the credentials went since the reconcile began.
ReadFails(t) ==
  /\ run # None /\ run.step = "next" /\ t \in run.todo /\ (run.at # None => run.at = t)
  /\ IF run.at = None /\ ~connected THEN Quiet ELSE Fault
  /\ run' = NextTunnel(Fail([run EXCEPT !.at = t], On(run.want, t)))
  /\ UNCHANGED <<site, ledger, cloud, draft, queue>>

PutRules ==
  /\ run # None /\ run.step = "put"
  /\ rules' = [rules EXCEPT ![run.at] = NewRules(run, run.at)]
  /\ run' = [run EXCEPT !.step = "back"]
  /\ Quiet /\ UNCHANGED <<site, ledger, dns, ids, draft, queue>>
\* Refused, or not answered although it took effect.
PutFails(applied) ==
  /\ run # None /\ run.step = "put" /\ Fault
  /\ rules' = IF applied THEN [rules EXCEPT ![run.at] = NewRules(run, run.at)] ELSE rules
  /\ run' = NextTunnel(Fail([run EXCEPT !.out = [x \in Route |-> IF x \in On(run.want, run.at) THEN None ELSE @[x]]],
                            On(run.want, run.at)))
  /\ UNCHANGED <<site, ledger, dns, ids, draft, queue>>

Lost(r) == {x \in On(r.want, r.at) : r.out[x] # None /\ rules[r.at][x[1]] = None}
ReadBack ==
  /\ run # None /\ run.step = "back"
  /\ run' = IF Lost(run) = {} THEN NextTunnel(run)
            ELSE IF run.attempt < Attempts THEN [run EXCEPT !.step = "next", !.attempt = @ + 1]
            ELSE NextTunnel(Fail([run EXCEPT !.out = [x \in Route |-> IF x \in Lost(run) THEN None ELSE @[x]]], Lost(run)))
  /\ Quiet /\ UNCHANGED <<site, ledger, cloud, draft, queue>>
ReadBackFails ==
  /\ run # None /\ run.step = "back" /\ Fault
  /\ run' = NextTunnel(run)
  /\ UNCHANGED <<site, ledger, cloud, draft, queue>>

\* A row that a reset took away meanwhile is not written again.
Settle(x, row) == /\ ledger' = IF Prev(run, x) # None /\ ledger[run.owner][x] = None THEN ledger
                               ELSE [ledger EXCEPT ![run.owner][x] = row]
                  /\ run' = IF run.left = {x} THEN None ELSE [run EXCEPT !.left = @ \ {x}]
AtDns == run # None /\ run.todo = {}

\* A row going: its record is deleted when the panel made it and it still names a
\* tunnel.  The row goes whatever came of its rule and its record.
RemoveDns(x) ==
  /\ AtDns /\ x \in run.left \cap Removing(run)
  /\ dns' = IF PrevMine(run, x) /\ dns[x[1]] # None /\ dns[x[1]].id = PrevId(run, x) /\ dns[x[1]].to \in Tunnel
            THEN [dns EXCEPT ![x[1]] = None] ELSE dns
  /\ Settle(x, None) /\ Quiet
  /\ UNCHANGED <<site, rules, ids, draft, queue>>
RemoveDnsFails(x) ==
  /\ AtDns /\ x \in run.left \cap Removing(run) /\ PrevMine(run, x) /\ Fault
  /\ Settle(x, None)
  /\ UNCHANGED <<site, cloud, draft, queue>>

IngOr(x, last) == IF run.out[x] # None THEN run.out[x] ELSE IF PrevIng(run, x) # None THEN PrevIng(run, x) ELSE last
Adding(x) == AtDns /\ run.left \cap Removing(run) = {} /\ x \in run.left
RecordError(x) ==
  /\ Adding(x) /\ x \in run.bad
  /\ Settle(x, Row("error", IngOr(x, None), PrevId(run, x), PrevMine(run, x), None)) /\ Quiet
  /\ UNCHANGED <<site, cloud, draft, queue>>

\* mutant: a record that was there is taken for the panel's own.
FoundRecordIsOurs(x, d) == TRUE
FoundRecord(x, d) == PrevId(run, x) = d.id /\ PrevMine(run, x)
EnsureDns(x) ==
  LET h == x[1]  d == dns[h]
      Done(id, mine) == Settle(x, Row("active", IngOr(x, "created"), id, mine, run.to)) IN
  /\ Adding(x) /\ x \notin run.bad /\ connected
  /\ \/ /\ d # None /\ d.to = x[2]
        /\ Done(d.id, FoundRecord(x, d)) /\ UNCHANGED <<dns, ids>>
     \/ /\ d # None /\ d.to # x[2] /\ PrevMine(run, x) /\ PrevId(run, x) = d.id
        /\ dns' = [dns EXCEPT ![h].to = x[2]]
        /\ Done(d.id, TRUE) /\ UNCHANGED ids
     \/ /\ d # None => (d.to # x[2] /\ ~(PrevMine(run, x) /\ PrevId(run, x) = d.id) /\ run.replace)
        /\ ids' = ids + 1
        /\ dns' = [dns EXCEPT ![h] = [id |-> ids + 1, to |-> x[2], ours |-> TRUE]]
        /\ Done(ids + 1, TRUE)
     \/ /\ d # None /\ d.to # x[2] /\ ~(PrevMine(run, x) /\ PrevId(run, x) = d.id) /\ ~run.replace
        /\ Settle(x, Row("error", IngOr(x, None), PrevId(run, x), PrevMine(run, x), None))
        /\ UNCHANGED <<dns, ids>>
  /\ Quiet /\ UNCHANGED <<site, rules, draft, queue>>
EnsureDnsFails(x) ==
  /\ Adding(x) /\ x \notin run.bad /\ IF connected THEN Fault ELSE Quiet
  /\ Settle(x, Row("error", IngOr(x, None), PrevId(run, x), PrevMine(run, x), None))
  /\ UNCHANGED <<site, cloud, draft, queue>>

NothingLeft == /\ AtDns /\ run.left = {} /\ run' = None
               /\ Quiet /\ UNCHANGED <<site, ledger, cloud, draft, queue>>

-----------------------------------------------------------------------------
(* checkRoutes, the restart *)

\* routeDrift: a recorded route that is not there is marked, one marked before that is back is cleared.
Checked(o, x) ==
  LET w == ledger[o][x]  there == rules[x[2]][x[1]] # None /\ dns[x[1]] # None /\ dns[x[1]].to = x[2] IN
  CASE w = None -> None
    [] w # None /\ w.status = "active" /\ ~there -> [w EXCEPT !.status = "drift"]
    [] w # None /\ w.status = "drift" /\ there -> [w EXCEPT !.status = "active"]
    [] OTHER -> w
CheckRoutes ==
  /\ run = None /\ connected
  /\ ledger' = [o \in Owner |-> [x \in Route |-> Checked(o, x)]]
  /\ ledger' # ledger
  /\ Quiet /\ UNCHANGED <<site, cloud, draft, queue, run>>

\* The panel restarts: jobs are gone; websites with a hostname that has no row are synced again.
Restart ==
  /\ Fault
  /\ run' = None
  /\ LET again == {o \in alive \cap Site : connected /\ ~(Desired(o) \subseteq Rows(o))} IN
     \E q \in {q \in [1..Cardinality(again) -> again] : \A i, j \in DOMAIN q : q[i] = q[j] => i = j} :
        queue' = [i \in DOMAIN q |-> Sync(q[i], "config", FALSE)]
  /\ UNCHANGED <<site, ledger, cloud, draft>>

Next == \/ \E o \in Owner : \/ \E h \in Host, t \in Tunnel \cup {None} : Deliver(o, h, t) \/ Publish(o, h, t)
                            \/ Certificate(o) \/ DeleteSite(o)
                            \/ \E b \in BOOLEAN : Resync(o, b)
        \/ Connect \/ Disconnect \/ Reset
        \/ \E t \in Tunnel : DashReads(t) \/ ReadRules(t) \/ ReadFails(t)
        \/ \E h \in Host : \/ \E to \in Target \cup {None} : DashWrites(h, to)
                           \/ \E to \in Tunnel \cup {None, "elsewhere"} : DashRecord(h, to)
        \/ Start \/ PutRules \/ (\E b \in BOOLEAN : PutFails(b)) \/ ReadBack \/ ReadBackFails
        \/ \E x \in Route : \/ RemoveDns(x) \/ RemoveDnsFails(x) \/ RecordError(x)
                            \/ EnsureDns(x) \/ EnsureDnsFails(x)
        \/ NothingLeft \/ CheckRoutes \/ Restart

Spec == Init /\ [][Next]_vars

-----------------------------------------------------------------------------
(* Properties *)

\* What the panel found in Cloudflare and did not make stays: no rule it read and no DNS
\* record of someone else is taken away, or a record changed, when routes are added, moved,
\* given up or retried, unless a replacement was asked for (the ledger's "adopted" and dnsCreated).
NeverTakenAwayStep ==
  run # None /\ ~run.replace =>
    /\ run.step = "put" => \A h \in Host : LET g == run.got[h] IN
         g # None /\ ~g.ours /\ rules' # rules /\ draft' = draft => rules'[run.at][h] # None
    /\ AtDns /\ changes' = changes => \A h \in Host : dns[h] # None /\ ~dns[h].ours => dns'[h] = dns[h]
NeverTakenAway == [][NeverTakenAwayStep]_vars

=============================================================================
