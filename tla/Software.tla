------------------------------ MODULE Software ------------------------------
(***************************************************************************)
(* The software that the websites stand on (panel/lib/software.mjs and     *)
(* shared/software.mjs): a check reads, on every server, what is installed *)
(* and what apt could install; an upgrade is a job of the queue that       *)
(* installs one component on one server and reads everything again.  Both  *)
(* run at the same time, and each writes what it read as the server's      *)
(* state.                                                                  *)
(*                                                                         *)
(* A version is a number.  MySQL goes the way of PHP and is left out.  On  *)
(* main the connectors of Cloudflare tunnels are the panel's processes, on *)
(* other servers systemd units.                                            *)
(***************************************************************************)
EXTENDS Naturals, FiniteSets

CONSTANTS None, Main,
          Server,        \* with Main
          By,            \* By[s]: who manages cloudflared on s: "panel", "apt", "deb" (apt without
                         \* Cloudflare's repository), "other"
          MaxVersion,
         MaxActs        \* requests, releases and things that fail, together
Component == {"php", "cloudflared"}

VARIABLES
  newest,     \* what was published
  lists,      \* what apt on a server knows of it
  inst,       \* what is installed
  runs,       \* what the connectors on a server run, None when there are none
  known,      \* state.cloudflaredLatest.version
  shown,      \* state.servers[s].result
  check,      \* the check job: None, or the step of its task on each server
  read,       \* what that task has read
  upgrading,  \* the keys of the map
  job,        \* the upgrade jobs: None, or step and the newest cloudflared known to them
  acts        \* how many of those there were
vars == <<newest, lists, inst, runs, known, shown, check, read, upgrading, job, acts>>

Init ==
  /\ newest = [c \in Component |-> 1] /\ lists = [s \in Server |-> newest] /\ inst = lists
  /\ runs = [s \in Server |-> 1] /\ known = 1
  /\ shown = [s \in Server |-> None]
  /\ check = None /\ read = [s \in Server |-> None]
  /\ upgrading = {} /\ job = [k \in Server \X Component |-> None] /\ acts = 0

Acts == acts < MaxActs /\ acts' = acts + 1
Fails == Acts
\* apt-get update; one that fails leaves the lists as they are.
Refreshed(s) ==
  \/ lists' = [lists EXCEPT ![s] = [newest EXCEPT !["cloudflared"] = IF By[s] = "apt" THEN @ ELSE lists[s]["cloudflared"]]]
     /\ UNCHANGED acts
  \/ Fails /\ UNCHANGED lists
\* summarize: what dpkg-query said, the packages that apt lists as upgradable now, and the version
\* that cloudflared answers with now.
Summary(s, php) == [php |-> php, upgrades |-> lists[s]["php"] > inst[s]["php"], cloudflared |-> inst[s]["cloudflared"]]

-----------------------------------------------------------------------------
(* The check.                                                                *)

\* On the servers that are online.
StartCheck ==
  /\ check = None
  /\ \E online \in SUBSET Server : check' = [s \in Server |-> IF s \in online THEN "lists" ELSE "over"]
  /\ Acts
  /\ UNCHANGED <<newest, lists, inst, runs, known, shown, read, upgrading, job>>
CheckLists(s) ==
  /\ check # None /\ check[s] = "lists"
  /\ check' = [check EXCEPT ![s] = "dpkg"] /\ Refreshed(s)
  /\ UNCHANGED <<newest, inst, runs, known, shown, read, upgrading, job>>
CheckInstalled(s) ==
  /\ check # None /\ check[s] = "dpkg"
  /\ check' = [check EXCEPT ![s] = "apt"]
  /\ read' = [read EXCEPT ![s] = inst[s]["php"]]
  /\ UNCHANGED <<newest, lists, inst, runs, known, shown, upgrading, job, acts>>
\* apt list; then the answer travels to the panel.
CheckUpgradable(s) ==
  /\ check # None /\ check[s] = "apt"
  /\ check' = [check EXCEPT ![s] = "answer"]
  /\ read' = [read EXCEPT ![s] = Summary(s, read[s])]
  /\ UNCHANGED <<newest, lists, inst, runs, known, shown, upgrading, job, acts>>
\* checkServer: an error keeps the result of before.
CheckAnswered(s) ==
  /\ check # None /\ check[s] = "answer"
  /\ check' = [check EXCEPT ![s] = "over"]
  /\ \/ shown' = [shown EXCEPT ![s] = read[s]] /\ UNCHANGED acts
     \/ Fails /\ UNCHANGED shown
  /\ read' = [read EXCEPT ![s] = None]
  /\ UNCHANGED <<newest, lists, inst, runs, known, upgrading, job>>
\* cloudflaredLatest: GitHub is asked meanwhile; when it does not answer, the release known stays.
Latest == (known' = newest["cloudflared"] /\ UNCHANGED acts) \/ (Fails /\ UNCHANGED known)
CheckDone ==
  /\ check # None /\ \A s \in Server : check[s] = "over"
  /\ check' = None
  /\ Latest
  /\ UNCHANGED <<newest, lists, inst, runs, shown, read, upgrading, job>>

-----------------------------------------------------------------------------
(* An upgrade: a heavy job, and one at a time on a server.                   *)

Goes(k, step) == job' = [job EXCEPT ![k].step = step]
Running(s) == {c \in Component : job[<<s, c>>] # None /\ job[<<s, c>>].step # "queued"}

StartUpgrade(k) ==
  /\ k \notin upgrading
  /\ upgrading' = upgrading \cup {k}
  /\ job' = [job EXCEPT ![k] = [step |-> "queued", latest |-> known]]
  /\ Acts
  /\ UNCHANGED <<newest, lists, inst, runs, known, shown, check, read>>
\* A job that is cancelled while it waits is dropped, and tells.
\* mutant: nobody is told
DroppedUntold(k) == upgrading
Told(k) == upgrading \ {k}
Dropped(k) ==
  /\ job[k] # None /\ job[k].step = "queued"
  /\ job' = [job EXCEPT ![k] = None] /\ upgrading' = Told(k)
  /\ UNCHANGED <<newest, lists, inst, runs, known, shown, check, read, acts>>
\* The task begins with apt-get update (but for a cloudflared that the panel manages).
Begin(k) ==
  /\ job[k] # None /\ job[k].step = "queued" /\ Running(k[1]) = {}
  /\ Goes(k, "install")
  /\ IF k[2] = "php" \/ By[k[1]] \in {"apt", "deb"} THEN Refreshed(k[1]) ELSE UNCHANGED <<lists, acts>>
  /\ UNCHANGED <<newest, inst, runs, known, shown, check, read, upgrading>>

Installs(k, v) == inst' = [inst EXCEPT ![k[1]][k[2]] = v]
\* The newest release, downloaded, tried out and put in place; or the old one is kept.
Download(k) == Installs(k, newest["cloudflared"]) /\ Goes(k, "restart")
\* aptUpgrade, cloudflaredUpgrade.  When apt has nothing newer, the release's own package is
\* installed.
Install(k) ==
  LET s == k[1] IN
  /\ job[k] # None /\ job[k].step = "install"
  /\ CASE k[2] = "php" -> Installs(k, lists[s]["php"]) /\ Goes(k, "check")
       [] k[2] = "cloudflared" /\ By[s] \in {"apt", "deb"} ->
            IF job[k].latest > lists[s]["cloudflared"] /\ job[k].latest > inst[s]["cloudflared"] THEN Download(k)
            ELSE Installs(k, IF lists[s]["cloudflared"] > inst[s]["cloudflared"] THEN lists[s]["cloudflared"] ELSE inst[s]["cloudflared"])
                 /\ Goes(k, "restart")
       [] k[2] = "cloudflared" /\ By[s] = "panel" -> Download(k)
       [] OTHER -> Goes(k, "failed") /\ UNCHANGED inst
  /\ UNCHANGED <<newest, lists, runs, known, shown, check, read, upgrading, acts>>
InstallFails(k) ==
  /\ job[k] # None /\ job[k].step = "install" /\ Fails
  /\ Goes(k, "failed")
  /\ UNCHANGED <<newest, lists, inst, runs, known, shown, check, read, upgrading>>

\* The units of this server are restarted; one that does not start again is logged.  Main has none.
\* mutant: restarted before the new one is in place
RestartsOld(k) == runs[k[1]]
Restarts(k) == inst[k[1]]["cloudflared"]
RestartUnits(k) ==
  /\ job[k] # None /\ job[k].step = "restart"
  /\ Goes(k, "check")
  /\ IF k[1] = Main \/ runs[k[1]] = None THEN UNCHANGED <<runs, acts>>
     ELSE \/ runs' = [runs EXCEPT ![k[1]] = Restarts(k)] /\ UNCHANGED acts
          \/ Fails /\ runs' = [runs EXCEPT ![k[1]] = None]
  /\ UNCHANGED <<newest, lists, inst, known, shown, check, read, upgrading>>
\* Everything is read again, and the answer written.
UpgradeRead(k) ==
  LET old == k[2] = "cloudflared" /\ job[k].latest > inst[k[1]]["cloudflared"]
  IN /\ job[k] # None /\ job[k].step = "check"
     /\ Goes(k, IF old THEN "failed" ELSE "read")
     /\ shown' = IF old THEN shown ELSE [shown EXCEPT ![k[1]] = Summary(k[1], inst[k[1]]["php"])]
     /\ UNCHANGED <<newest, lists, inst, runs, known, check, read, upgrading, acts>>
\* On main, the panel's connectors are restarted.
RestartConnectors(k) ==
  /\ job[k] # None /\ job[k].step = "read"
  /\ Goes(k, "succeeded")
  /\ runs' = [runs EXCEPT ![Main] = IF k = <<Main, "cloudflared">> /\ @ # None THEN Restarts(k) ELSE @]
  /\ UNCHANGED <<newest, lists, inst, known, shown, check, read, upgrading, acts>>
\* finally
Ended(k) ==
  /\ job[k] # None /\ job[k].step \in {"failed", "succeeded"}
  /\ job' = [job EXCEPT ![k] = None] /\ upgrading' = upgrading \ {k}
  /\ UNCHANGED <<newest, lists, inst, runs, known, shown, check, read, acts>>

-----------------------------------------------------------------------------
Publish(c) ==
  /\ newest[c] < MaxVersion /\ newest' = [newest EXCEPT ![c] = @ + 1]
  /\ Acts
  /\ UNCHANGED <<lists, inst, runs, known, shown, check, read, upgrading, job>>
\* A connector is started or stopped.
Connector(s) ==
  /\ Acts
  /\ runs' = [runs EXCEPT ![s] = IF @ = None THEN inst[s]["cloudflared"] ELSE None]
  /\ UNCHANGED <<newest, lists, inst, known, shown, check, read, upgrading, job>>

Next ==
  \/ \E c \in Component : Publish(c)
  \/ StartCheck \/ CheckDone
  \/ \E s \in Server : CheckLists(s) \/ CheckInstalled(s) \/ CheckUpgradable(s) \/ CheckAnswered(s) \/ Connector(s)
  \/ \E k \in Server \X Component :
       \/ StartUpgrade(k) \/ Dropped(k) \/ Begin(k) \/ Install(k) \/ InstallFails(k) \/ RestartUnits(k)
       \/ UpgradeRead(k) \/ RestartConnectors(k) \/ Ended(k)
Spec == Init /\ [][Next]_vars

-----------------------------------------------------------------------------
(* Properties.                                                               *)

\* The page's "being updated" is true: a key is in the map exactly while a job for it waits or
\* runs, and a server runs one upgrade at a time.  A key left behind would refuse every later
\* upgrade of the component (startUpgrade's 409).
UpgradingMeansJob ==
  /\ \A k \in Server \X Component : k \in upgrading <=> job[k] # None
  /\ \A s \in Server : Cardinality(Running(s)) <= 1

\* When an upgrade of cloudflared has succeeded, whatever connector still runs on that server
\* runs at least the release that was known when the upgrade was asked for: nothing is left on the old
\* file (software.mjs's header, "Updating cloudflared on main restarts the tunnel connectors").
ConnectorsFollow ==
  \A s \in Server :
    LET j == job[<<s, "cloudflared">>]
    IN j # None /\ runs[s] # None => (j.step = "succeeded" => runs[s] >= j.latest)
=============================================================================
