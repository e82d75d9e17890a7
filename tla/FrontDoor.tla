----------------------------- MODULE FrontDoor -----------------------------
(***************************************************************************)
(* The front door of the main server: the nginx file of every website, the  *)
(* chain that writes them one operation at a time, the health checks that    *)
(* mark servers down in them, and the jobs that issue and delete             *)
(* certificates (panel/lib/loadbalancer.mjs, applyNginxFile of               *)
(* shared/tasks.mjs).  A file is what was rendered into it: the revision of   *)
(* the website's settings, whether it names the certificate, and the servers *)
(* marked down.  certbot and other programs change files outside the chain.  *)
(***************************************************************************)
EXTENDS Naturals, Sequences, FiniteSets

CONSTANTS
  Site, RealIp,         \* the websites, and fcc-00-realip.conf
  Server, Job, None,    \* the servers behind a website; slots for certificate jobs
  FailsToDown, OksToUp, \* FAILS_TO_DOWN, OKS_TO_UP
  RealIpAccepted,       \* this nginx takes the real_ip directives
  MaxOrders             \* bound for TLC: edits, probes, jobs and faults

File == Site \cup {RealIp}

VARIABLES
  site,    \* of each website: [rev, ssl, tls, gone] (ssl.status, ssl.enabled, deleted)
  health,  \* of each website's servers: [healthy, fails, oks]; healthy None: never probed
  realIpError,
  cert,    \* the websites with a certificate in /etc/letsencrypt
  disk,    \* what the files hold, None: no file
  loaded,  \* what nginx runs with
  broken,  \* a file that is not the panel's does not pass nginx -t
  chain,   \* the operations that wait: [kind, site, by, asked]
  op,      \* the one that runs: also [todo, prev, step], or None
  done,    \* of each job: "" while its operation waits or runs, then "ok" or "failed"
  job,     \* certificate jobs and deletions of websites: [kind, site, pc, before], or None
  lost,    \* history: nginx never loaded a file the panel wrote
  crossed, \* history: websites whose certificate two jobs worked on at once
  orders

records == <<site, health, realIpError>>
nginx == <<disk, loaded, broken>>
line == <<chain, op, done>>
history == <<lost, crossed>>
vars == <<records, cert, nginx, line, job, history, orders>>

Order == orders < MaxOrders /\ orders' = orders + 1

-----------------------------------------------------------------------------
(* What a file should hold.                                                 *)

\* upstreams: a server is down after its health check, unless that leaves none.
Failing(s) == {v \in Server : health[s][v].healthy = "no"}
Down(s) == IF Failing(s) = Server THEN {} ELSE Failing(s)

\* render, sslActive.  The caller of an operation holds the record: the page of a deleted
\* website is what that record says.
Page(s) == [rev |-> site[s].rev, tls |-> site[s].tls /\ s \in cert, down |-> Down(s)]
Want(f) == IF f = RealIp THEN (IF realIpError THEN "off" ELSE "on") ELSE Page(f)

\* nginx -t: every file is read, and every certificate.
Passes(files) ==
  /\ ~broken
  /\ files[RealIp] = "on" => RealIpAccepted
  /\ \A s \in Site : files[s] # None /\ files[s].tls => s \in cert

-----------------------------------------------------------------------------
(* serial: one operation at a time.                                         *)

Asks(kind, s, by) ==
  chain' = Append(chain, [kind |-> kind, site |-> s, by |-> by,
                          asked |-> IF s \in Site THEN site[s].rev ELSE 0])

\* The batches of files an operation writes, each followed by a test: ensureCommon
\* and the website's own file; the one file; all of them.
Batches(o) == CASE o.kind = "sync" -> <<{RealIp}, {o.site}>>
                [] o.kind = "remove" -> <<{o.site}>>
                [] o.kind = "all" -> <<File>>
Begin ==
  /\ op = None /\ chain # <<>>
  /\ LET o == Head(chain)
     IN op' = [kind |-> o.kind, site |-> o.site, by |-> o.by, asked |-> o.asked,
               todo |-> Batches(o), prev |-> None, step |-> "write"]
  /\ chain' = Tail(chain)
  /\ health' = IF Head(chain).kind = "remove"
               THEN [health EXCEPT ![Head(chain).site] =
                       [v \in Server |-> [healthy |-> None, fails |-> 0, oks |-> 0]]]
               ELSE health
  /\ UNCHANGED <<site, realIpError, cert, nginx, done, job, history, orders>>

\* What the operation makes of a file; a file of a deleted website goes with applyAll.
Content(f) == IF op.kind = "remove" \/ (op.kind = "all" /\ f \in Site /\ site[f].gone)
              THEN None ELSE Want(f)
Written(batch) == [f \in File |-> IF f \in batch THEN Content(f) ELSE disk[f]]

Ends(result) ==
  /\ op' = None
  /\ done' = IF op.by \in Job THEN [done EXCEPT ![op.by] = result] ELSE done

\* Write the files that differ, or go on when none does: then nothing is tested or loaded.
Write ==
  /\ op # None /\ op.step = "write" /\ op.todo # <<>>
  /\ disk' = Written(Head(op.todo))
  /\ op' = IF disk' = disk THEN [op EXCEPT !.todo = Tail(@)]
                           ELSE [op EXCEPT !.prev = disk, !.step = "test"]
  /\ UNCHANGED <<records, cert, loaded, broken, chain, done, job, history, orders>>

Tested ==
  /\ op # None /\ op.step = "test" /\ Passes(disk)
  /\ op' = [op EXCEPT !.step = "reload", !.prev = None]
  /\ UNCHANGED <<records, cert, nginx, chain, done, job, history, orders>>

\* Only the operation's own files are put back, and nothing is reloaded: not even when
\* certbot had nginx load them meanwhile.
Revs(files) == [s \in Site |-> IF files[s] = None THEN None ELSE files[s].rev]
\* mutant: the rejected file stays
LeftThere == disk
Restored == [f \in File |-> IF f \in Head(op.todo) THEN op.prev[f] ELSE disk[f]]

\* A rejected real_ip file is switched off, whatever nginx rejected: ensureCommon goes on
\* with the website's file, applyAll starts over if that file is what nginx names.
Rejected ==
  /\ op # None /\ op.step = "test" /\ ~Passes(disk)
  /\ disk' = Restored
  /\ LET realIp == \/ op.kind = "sync" /\ RealIp \in Head(op.todo)
                   \/ op.kind = "all" /\ ~realIpError /\ disk[RealIp] = "on" /\ ~RealIpAccepted
     IN /\ realIpError' = (realIpError \/ realIp)
        /\ IF op.kind = "sync" /\ realIp
           THEN /\ op' = [op EXCEPT !.step = "write", !.prev = None,
                                    !.todo = IF realIpError THEN Tail(@) ELSE @]
                /\ UNCHANGED done
           ELSE IF realIp THEN op' = [op EXCEPT !.step = "write", !.prev = None] /\ UNCHANGED done
           ELSE Ends("failed")
  /\ lost' = (lost \/ Revs(loaded) # Revs(op.prev))
  /\ UNCHANGED <<site, health, cert, loaded, broken, chain, job, crossed, orders>>

\* nginx keeps what it runs when the files stopped passing since the test; the reload
\* itself reports nothing.
Reload ==
  /\ op # None /\ op.step = "reload"
  /\ loaded' = IF Passes(disk) THEN disk ELSE loaded
  /\ lost' = (lost \/ ~Passes(disk))
  /\ op' = [op EXCEPT !.step = "write", !.todo = Tail(@), !.prev = None]
  /\ UNCHANGED <<records, cert, disk, broken, chain, done, job, crossed, orders>>

\* The certificate of a deleted website goes with its file (removeCertFiles).
Finish ==
  /\ op # None /\ op.step = "write" /\ op.todo = <<>>
  /\ Ends("ok")
  /\ cert' = IF op.kind = "remove" /\ (site[op.site].tls \/ site[op.site].ssl = "failed")
             THEN cert \ {op.site} ELSE cert
  /\ UNCHANGED <<records, nginx, chain, job, history, orders>>

-----------------------------------------------------------------------------
(* Who asks for operations.                                                 *)

\* A website is edited or deployed: syncLb.  A server changes: scheduleApplyAll.
Save(s) ==
  /\ Order /\ ~site[s].gone /\ Len(chain) < 2
  /\ site' = [site EXCEPT ![s].rev = @ + 1]
  /\ \/ chain' = Append(chain, [kind |-> "sync", site |-> s, by |-> None, asked |-> site[s].rev + 1])
     \/ Asks("all", None, None)
  /\ UNCHANGED <<health, realIpError, cert, nginx, op, done, job, history>>

\* healthPass, of one server: the first answer decides, later ones need company.  A pass
\* that changes anything asks for the file once; it does not ask again if that fails.
Counted(h, ok) ==
  LET oks == IF ok THEN h.oks + 1 ELSE 0
      fails == IF ok THEN 0 ELSE h.fails + 1
  IN [healthy |-> IF ok THEN IF h.healthy = None \/ oks >= OksToUp THEN "yes" ELSE h.healthy
                  ELSE IF h.healthy = None \/ fails >= FailsToDown THEN "no" ELSE h.healthy,
      fails |-> fails, oks |-> oks]
Probe(s, v, ok) ==
  /\ Order /\ ~site[s].gone /\ Len(chain) < 2
  /\ health' = [health EXCEPT ![s][v] = Counted(@, ok)]
  /\ IF health'[s][v].healthy # health[s][v].healthy THEN Asks("sync", s, None) ELSE UNCHANGED chain
  /\ UNCHANGED <<site, realIpError, cert, nginx, op, done, job, history>>

-----------------------------------------------------------------------------
(* Certificates, and the deletion of a website.                             *)

SetSsl(s, ssl, tls) == site' = [site EXCEPT ![s].ssl = ssl, ![s].tls = tls]
Goes(j, pc) == job' = [job EXCEPT ![j].pc = pc]
Waits(j, pc) == Goes(j, pc) /\ done' = [done EXCEPT ![j] = ""]
Active(s) == {j \in Job : job[j] # None /\ job[j].site = s}

\* POST and DELETE .../ssl, and the deletion's step at the front door: no lock keeps two
\* jobs about one certificate apart.
StartJob(j, kind, s) ==
  /\ Order /\ job[j] = None /\ ~site[s].gone
  /\ kind = "delete" => site[s].tls \/ site[s].ssl \in {"failed", "pending"}
  /\ crossed' = IF Active(s) = {} THEN crossed ELSE crossed \cup {s}
  /\ job' = [job EXCEPT ![j] = [kind |-> kind, site |-> s, before |-> site[s],
                                pc |-> CASE kind = "issue" -> "sync" [] kind = "delete" -> "plain"
                                         [] kind = "remove" -> "file"]]
  /\ done' = [done EXCEPT ![j] = "ok"]
  /\ UNCHANGED <<records, cert, nginx, chain, op, lost>>

At(j, kind, pc, result) ==
  /\ job[j] # None /\ job[j].kind = kind /\ job[j].pc = pc /\ done[j] = result

\* issueCertificate: on the front door first, certbot, and the template with HTTPS.
Issue(j) == LET s == job[j].site IN
  /\ At(j, "issue", "sync", "ok")
  /\ SetSsl(s, "pending", site[s].tls)
  /\ Asks("sync", s, j) /\ Waits(j, "certbot")
  /\ UNCHANGED <<health, realIpError, cert, nginx, op, history, orders>>

\* certbot --nginx tests the whole configuration, edits the file and reloads, beside the chain.
CertbotEdits(s) ==
  /\ Passes(disk)
  /\ cert' = cert \cup {s}
  /\ disk' = IF disk[s] = None THEN disk ELSE [disk EXCEPT ![s].tls = TRUE]
Certbot(j) == LET s == job[j].site IN
  /\ At(j, "issue", "certbot", "ok")
  /\ CertbotEdits(s)
  /\ loaded' = disk'
  /\ SetSsl(s, "active", TRUE)
  /\ Asks("sync", s, j) /\ Waits(j, "end")
  /\ UNCHANGED <<health, realIpError, broken, op, history, orders>>

\* It fails, or the sync before or after it did; certbot may have left its edit behind.
IssueFails(j) == LET s == job[j].site IN
  /\ \/ At(j, "issue", "certbot", "ok") /\ CertbotEdits(s)
     \/ /\ \E pc \in {"certbot", "end"}, r \in {"ok", "failed"} :
             At(j, "issue", pc, r) /\ <<pc, r>> # <<"end", "ok">>
        /\ UNCHANGED <<cert, disk>>
  /\ SetSsl(s, "failed", site[s].tls)
  /\ Asks("sync", s, j) /\ Waits(j, "restored")
  /\ UNCHANGED <<health, realIpError, loaded, broken, op, history, orders>>

\* deleteCertificate: plain HTTP first, then the certificate; the state comes back if
\* nginx does not take it.
Plain(j) == LET s == job[j].site IN
  /\ At(j, "delete", "plain", "ok")
  /\ job' = [job EXCEPT ![j].pc = "certbot", ![j].before = site[s]]
  /\ done' = [done EXCEPT ![j] = ""]
  /\ SetSsl(s, "none", FALSE)
  /\ Asks("sync", s, j)
  /\ UNCHANGED <<health, realIpError, cert, nginx, op, history, orders>>
NotPlain(j) == LET s == job[j].site IN
  /\ At(j, "delete", "certbot", "failed")
  /\ SetSsl(s, job[j].before.ssl, job[j].before.tls)
  /\ job' = [job EXCEPT ![j] = None]
  /\ UNCHANGED <<health, realIpError, cert, nginx, line, history, orders>>

\* mutant: certbot deletes while nginx is still rewritten
DeletesFirst(j) == job[j] # None /\ job[j].kind = "delete" /\ job[j].pc = "certbot" /\ done[j] = ""
MayDelete(j) == At(j, "delete", "certbot", "ok")
CertbotDeletes(j) ==
  /\ MayDelete(j)
  /\ \/ cert' = cert \ {job[j].site}
     \/ UNCHANGED cert  \* certbot could not
  /\ job' = [job EXCEPT ![j] = None]
  /\ UNCHANGED <<records, nginx, line, history, orders>>

\* The deletion of a website: its file, and then its record (removeSite of sites.mjs).
RemoveFile(j) ==
  /\ At(j, "remove", "file", "ok")
  /\ Asks("remove", job[j].site, j) /\ Waits(j, "record")
  /\ UNCHANGED <<records, cert, nginx, op, history, orders>>
RemoveRecord(j) ==
  /\ job[j] # None /\ job[j].kind = "remove" /\ job[j].pc = "record" /\ done[j] # ""
  /\ site' = [site EXCEPT ![job[j].site].gone = TRUE]
  /\ job' = [job EXCEPT ![j] = None]
  /\ UNCHANGED <<health, realIpError, cert, nginx, line, history, orders>>

JobEnds(j) ==
  /\ At(j, "issue", "end", "ok") \/ (job[j] # None /\ job[j].pc = "restored" /\ done[j] # "")
  /\ job' = [job EXCEPT ![j] = None]
  /\ UNCHANGED <<records, cert, nginx, line, history, orders>>

-----------------------------------------------------------------------------
(* What else happens.                                                       *)

\* Somebody edits nginx's files by hand, or puts them right again.
Break ==
  /\ broken' = ~broken /\ IF broken THEN UNCHANGED orders ELSE Order
  /\ UNCHANGED <<records, cert, disk, loaded, line, job, history>>

\* The panel stops and starts: its operations and jobs are gone, its files stay, and
\* applyAll is the first thing the new process asks for.
Restart ==
  /\ Order
  /\ health' = [s \in Site |-> [v \in Server |-> [healthy |-> None, fails |-> 0, oks |-> 0]]]
  /\ realIpError' = FALSE
  /\ chain' = <<[kind |-> "all", site |-> None, by |-> None, asked |-> 0]>> /\ op' = None
  /\ done' = [j \in Job |-> "ok"] /\ job' = [j \in Job |-> None]
  /\ lost' = (lost \/ Revs(loaded) # Revs(disk))
  /\ UNCHANGED <<site, cert, nginx, crossed>>

\* A panel that wrote its files when it started.
Init ==
  /\ site = [s \in Site |-> [rev |-> 0, ssl |-> "none", tls |-> FALSE, gone |-> FALSE]]
  /\ health = [s \in Site |-> [v \in Server |-> [healthy |-> None, fails |-> 0, oks |-> 0]]]
  /\ realIpError = ~RealIpAccepted /\ cert = {} /\ broken = FALSE
  /\ disk = [f \in File |-> Want(f)] /\ loaded = disk
  /\ chain = <<>> /\ op = None
  /\ done = [j \in Job |-> "ok"] /\ job = [j \in Job |-> None]
  /\ lost = FALSE /\ crossed = {} /\ orders = 0

Next ==
  \/ Begin \/ Write \/ Tested \/ Rejected \/ Reload \/ Finish \/ Break \/ Restart
  \/ \E s \in Site : Save(s)
  \/ \E s \in Site, v \in Server, ok \in BOOLEAN : Probe(s, v, ok)
  \/ \E j \in Job, s \in Site, kind \in {"issue", "delete", "remove"} : StartJob(j, kind, s)
  \/ \E j \in Job : \/ Issue(j) \/ Certbot(j) \/ IssueFails(j) \/ Plain(j) \/ NotPlain(j)
                    \/ CertbotDeletes(j) \/ RemoveFile(j) \/ RemoveRecord(j) \/ JobEnds(j)
Spec == Init /\ [][Next]_vars

-----------------------------------------------------------------------------
(* Properties.                                                              *)

\* When the panel says that a website's front door is written, nginx runs what the
\* settings said when that was asked for, or something newer: no write of another
\* operation, no restored file and no rejected test of somebody else's file comes
\* between (syncSite).  Not once a reload was lost: the panel takes a file that holds
\* what it wants for one that nginx runs.
SyncedMeansLoadedStep ==
  op # None /\ op.kind = "sync" /\ op.step = "write" /\ op.todo = <<>> /\ op' = None /\ ~lost'
  => loaded[op.site] # None /\ loaded[op.site].rev >= op.asked
SyncedMeansLoaded == [][SyncedMeansLoadedStep]_vars

\* No file of a website names a certificate that is gone, so that one website's
\* certificate never keeps nginx from loading another's settings; unless two jobs worked
\* on that certificate at once (deleteCertificate, issueCertificate, removeSite).
CertificateOutlivesItsFile ==
  \A s \in Site : disk[s] # None /\ disk[s].tls => s \in cert \cup crossed
\* deleteCertificate: "nothing references the certificate files when certbot deletes them".
NothingReferencesIt == \A s \in Site : disk[s] # None /\ disk[s].tls => s \in cert
=============================================================================
