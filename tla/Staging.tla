------------------------------- MODULE Staging -------------------------------
(***************************************************************************)
(* The staging copy of a website (panel/lib/staging.mjs): a request makes  *)
(* a database and a second website record, waiting for MySQL and for       *)
(* Cloudflare in between; another removes both by two jobs, one of which   *)
(* waits for the other.  Meanwhile the website can be deleted, a database  *)
(* of the same name made or linked by hand, and a second request begun.    *)
(*                                                                         *)
(* One website, whose staging database has one name.  What createDatabase  *)
(* and dropDatabase do inside is in Databases; here they take effect when  *)
(* they return.                                                            *)
(***************************************************************************)
EXTENDS Naturals, FiniteSets

CONSTANTS None,
          Request,   \* POST /api/sites/:id/staging
          Copy,      \* the records that copies can get
          Db,        \* the records that databases of the name can get
          MaxHand    \* how often something is done by hand

VARIABLES
  parent,     \* the website: "there", "deleting", "gone"
  pointer,    \* its stagingSiteId
  site,       \* the copies: "none", "there", "deleting", "gone"
  domain,     \* the copies that have the domain staging.<first domain>
  links,      \* linkedDatabaseIds of the copies, and of another website ("other")
  db,         \* the databases: "none", "there", "gone"
  tag,        \* those with stagingOf
  req,        \* the requests: step, the domain asked for or not, what was made
  removal,    \* the copies' site.delete jobs: None, "running", "succeeded", "failed"
  job,        \* the site.staging.remove job: step, the copy, the databases to drop
  hand
vars == <<parent, pointer, site, domain, links, db, tag, req, removal, job, hand>>

Sites == {c \in Copy : site[c] \in {"there", "deleting"}}
Linking(d) == {s \in Sites \cup {"other"} : d \in links[s]}
There == {d \in Db : db[d] = "there"}
\* assertDomainsFree
DomainFree(r) == req[r].domain => Sites \cap domain = {}

Init ==
  /\ parent = "there" /\ pointer = None
  /\ site = [c \in Copy |-> "none"] /\ domain = {}
  /\ links = [s \in Copy \cup {"other"} |-> {}]
  /\ db = [d \in Db |-> "none"] /\ tag = {}
  /\ req = [r \in Request |-> [step |-> "idle", domain |-> FALSE, made |-> None, created |-> FALSE]]
  /\ removal = [c \in Copy |-> None]
  /\ job = [step |-> "none", child |-> None, ids |-> {}]
  /\ hand = 0

-----------------------------------------------------------------------------
(* POST: a copy is made.                                                     *)

\* A pointer to a website that is gone is cleared; then the variables of the linked databases
\* are asked for.
Post(r, named) ==
  /\ req[r].step = "idle" /\ parent = "there"
  /\ pointer # None => pointer \notin Sites
  /\ pointer' = None
  /\ req' = [req EXCEPT ![r].step = "sources", ![r].domain = named]
  /\ UNCHANGED <<parent, site, domain, links, db, tag, removal, job, hand>>

\* The database is tagged, and ctx.sites.create looks whether the domain is free before it asks
\* Cloudflare.
Tagged(r, d, created) ==
  /\ tag' = tag \cup {d}
  /\ req' = [req EXCEPT ![r] = [step |-> IF DomainFree(r) THEN "copy" ELSE "undo",
                                domain |-> req[r].domain, made |-> d, created |-> created]]
\* An unlinked database of the name is reused, a linked one refused.
LookUp(r) ==
  /\ req[r].step = "sources"
  /\ \/ \E d \in There : Linking(d) = {} /\ Tagged(r, d, FALSE)
     \/ /\ \A d \in There : Linking(d) # {}
        /\ req' = [req EXCEPT ![r].step = IF There = {} THEN "making" ELSE "failed"]
        /\ UNCHANGED tag
  /\ UNCHANGED <<parent, pointer, site, domain, links, db, removal, job, hand>>
\* createDatabase returns, or throws.
Made(r) ==
  /\ req[r].step = "making"
  /\ \/ /\ There = {}
        /\ \E d \in Db : db[d] = "none" /\ db' = [db EXCEPT ![d] = "there"] /\ Tagged(r, d, TRUE)
     \/ req' = [req EXCEPT ![r].step = "failed"] /\ UNCHANGED <<db, tag>>
  /\ UNCHANGED <<parent, pointer, site, domain, links, removal, job, hand>>

\* Cloudflare answers.  When it refuses, the copy is made without it, and the domain is looked
\* at again.  The database must still be there.
Create(r, cfOk) ==
  LET fits == db[req[r].made] = "there" /\ (cfOk \/ DomainFree(r))
  IN /\ req[r].step = "copy"
     /\ IF fits
        THEN \E c \in Copy :
               /\ site[c] = "none" /\ site' = [site EXCEPT ![c] = "there"]
               /\ domain' = IF req[r].domain THEN domain \cup {c} ELSE domain
               /\ links' = [links EXCEPT ![c] = {req[r].made}]
               /\ pointer' = (IF parent = "gone" THEN pointer ELSE c)
        ELSE UNCHANGED <<site, domain, links, pointer>>
     /\ req' = [req EXCEPT ![r].step = IF fits THEN "done" ELSE "undo"]
     /\ UNCHANGED <<parent, db, tag, removal, job, hand>>

\* undo: what this request created is dropped.
Undo(r) ==
  /\ req[r].step = "undo"
  /\ req' = [req EXCEPT ![r].step = IF req[r].created /\ db[req[r].made] = "there" THEN "dropping" ELSE "failed"]
  /\ UNCHANGED <<parent, pointer, site, domain, links, db, tag, removal, job, hand>>
Undone(r) ==
  /\ req[r].step = "dropping"
  /\ db' = [db EXCEPT ![req[r].made] = "gone"]
  /\ req' = [req EXCEPT ![r].step = "failed"]
  /\ UNCHANGED <<parent, pointer, site, domain, links, tag, removal, job, hand>>

-----------------------------------------------------------------------------
(* DELETE: the copy and its databases are removed.                           *)

\* removeSite: the copy's site.delete job.
StartRemoval(c) ==
  /\ site[c] = "there"
  /\ site' = [site EXCEPT ![c] = "deleting"]
  /\ removal' = [removal EXCEPT ![c] = "running"]
\* DELETE /api/sites/:id/staging, with or without dropDatabase.
Delete(drop) ==
  LET ids == IF drop THEN {d \in links[pointer] \cap tag : db[d] = "there" /\ Linking(d) \subseteq {pointer}} ELSE {}
  IN /\ parent = "there" /\ pointer # None /\ job.step \in {"none", "over"}
     /\ StartRemoval(pointer)
     /\ job' = IF ids = {} THEN job ELSE [step |-> "waiting", child |-> pointer, ids |-> ids]
     /\ UNCHANGED <<parent, pointer, domain, links, db, tag, req, hand>>
\* DELETE /api/sites/:id of the copy.
DeleteCopy(c) == StartRemoval(c) /\ UNCHANGED <<parent, pointer, domain, links, db, tag, req, job, hand>>

\* The end of a site.delete job: one that failed leaves the copy marked.
Removed(c) ==
  /\ removal[c] = "running"
  /\ \/ /\ removal' = [removal EXCEPT ![c] = "succeeded"]
        /\ site' = [site EXCEPT ![c] = "gone"]
        /\ pointer' = IF pointer = c THEN None ELSE pointer
     \/ removal' = [removal EXCEPT ![c] = "failed"] /\ UNCHANGED <<site, pointer>>
  /\ UNCHANGED <<parent, domain, links, db, tag, req, job, hand>>

\* The second job: once the copy is gone, each database that is still there and that no
\* website was linked to since.
\* mutant: as it was when the removal was asked for
FreeThen(d) == db[d] = "there"
Free(d) == db[d] = "there" /\ Linking(d) = {}
Waited ==
  /\ job.step = "waiting" /\ removal[job.child] \in {"succeeded", "failed"}
  /\ job' = IF removal[job.child] = "succeeded" THEN [job EXCEPT !.step = "next"] ELSE [job EXCEPT !.step = "over"]
  /\ UNCHANGED <<parent, pointer, site, domain, links, db, tag, req, removal, hand>>
Drop ==
  /\ job.step = "next"
  /\ IF \E d \in job.ids : Free(d) THEN job' = [job EXCEPT !.step = "dropping", !.ids = {d \in job.ids : Free(d)}]
                                   ELSE job' = [job EXCEPT !.step = "over"]
  /\ UNCHANGED <<parent, pointer, site, domain, links, db, tag, req, removal, hand>>
\* dropDatabase, and unlinkDatabase of every website.
Dropped ==
  /\ job.step = "dropping"
  /\ db' = [d \in Db |-> IF d \in job.ids THEN "gone" ELSE db[d]]
  /\ links' = [s \in DOMAIN links |-> links[s] \ job.ids]
  /\ job' = [job EXCEPT !.step = "over"]
  /\ UNCHANGED <<parent, pointer, site, domain, tag, req, removal, hand>>

-----------------------------------------------------------------------------
(* The website's own deletion, and what is done by hand.                     *)

\* DELETE /api/sites/:id: not while its copy is there.
DeleteParent ==
  /\ parent = "there" /\ pointer \notin Sites
  /\ parent' = "deleting"
  /\ UNCHANGED <<pointer, site, domain, links, db, tag, req, removal, job, hand>>
ParentRemoved ==
  /\ parent = "deleting"
  /\ parent' = "gone" /\ pointer' = None
  /\ UNCHANGED <<site, domain, links, db, tag, req, removal, job, hand>>

ByHand ==
  /\ hand < MaxHand /\ hand' = hand + 1
  /\ \/ \E d \in Db : db[d] = "none" /\ There = {} /\ db' = [db EXCEPT ![d] = "there"] /\ UNCHANGED links
     \/ \E d \in There : links' = [links EXCEPT !["other"] = IF d \in @ THEN @ \ {d} ELSE @ \cup {d}] /\ UNCHANGED db
     \/ \E d \in There : Linking(d) = {} /\ db' = [db EXCEPT ![d] = "gone"] /\ UNCHANGED links
  /\ UNCHANGED <<parent, pointer, site, domain, tag, req, removal, job>>

Next ==
  \/ \E r \in Request :
       LookUp(r) \/ Made(r) \/ Undo(r) \/ Undone(r) \/ (\E b \in BOOLEAN : Post(r, b) \/ Create(r, b))
  \/ \E b \in BOOLEAN : Delete(b)
  \/ \E c \in Copy : DeleteCopy(c) \/ Removed(c)
  \/ Waited \/ Drop \/ Dropped \/ DeleteParent \/ ParentRemoved \/ ByHand
Spec == Init /\ [][Next]_vars


-----------------------------------------------------------------------------
(* Properties.                                                               *)

\* A removal starts to drop a database only when its copy is gone and no website is linked to
\* it, whatever was linked, removed or made between the request and the second job's turn
\* (staging.mjs, "is linked to another website now - kept").
RemovalSparesTheLinkedStep ==
  job'.step = "dropping" /\ job.step # "dropping" =>
    site[job.child] = "gone" /\ \A d \in job'.ids : Linking(d) = {} /\ db[d] = "there"
RemovalSparesTheLinked == [][RemovalSparesTheLinkedStep]_vars

\* The header of staging.mjs: "A parent with a staging copy cannot be deleted (409) until
\* staging is removed".
CopyHasItsParent == \A c \in Copy : site[c] = "there" => parent # "gone"

\* ctx.mysql.dropDatabase: "(callers unlink it from websites first)".
DroppedIsUnlinked == \A r \in Request : req[r].step = "dropping" => Linking(req[r].made) = {}
=============================================================================
