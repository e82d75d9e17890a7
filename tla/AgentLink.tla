------------------------------ MODULE AgentLink ------------------------------
(***************************************************************************)
(* How the agent of a server keeps in touch with the active panel while    *)
(* panel nodes come, go and take over: node/node-agent.mjs (its addresses, *)
(* hello, poll), the panel's answers (panel/lib/cluster.mjs) and the       *)
(* standby that passes requests on (panel/lib/ha.mjs).  The agent is that  *)
(* of another server, or the one embedded in the main server's panel while *)
(* that is a standby.  Tasks are in AgentTasks, votes in HaLease.          *)
(***************************************************************************)
EXTENDS Naturals, SequencesExt

CONSTANTS
  Order,       \* the machines that can run the panel, in the order of panelNodeList()
  None,
  MaxChanges   \* bound on what happens to the panels and the agent, for TLC

Panel == ToSet(Order)
Main == Order[1]

VARIABLES
  \* the panels
  leader, up,   \* the active panel; the machines that run
  proxyUrl,     \* where each standby passes requests on, or None
  haOn, nodes,  \* panelNodeList(): the panel nodes, while failover is on
  moved,        \* config.agentPanelUrl: the address since the main server was changed
  tokenHash,    \* the token in the server's record, or None: it was removed
  seen,         \* currentAt: the active panel has had a hello of this agent's files
  \* the agent
  embedded, runs,  \* it is main's; its process runs
  token, panelUrl, \* its config file
  ha, panels,      \* panels.json
  current, failed, \* the address that answered last; those that failed in the last 30 s
  needHello, lastLeader,
  voted,        \* voter.leader(): the panel this server's vote is for
  asks, left,   \* the request under way: none, hello or poll; the addresses it has left
  changes

shared == <<leader, up, haOn, nodes, moved, tokenHash>>
config == <<embedded, token>>
memory == <<panelUrl, ha, panels, current, needHello, lastLeader>>
request == <<asks, left>>
vars == <<shared, proxyUrl, seen, config, runs, memory, failed, voted, request, changes>>

Change == changes < MaxChanges /\ changes' = changes + 1

-----------------------------------------------------------------------------
(* The agent's addresses.                                                   *)

\* bases: the panel its vote is for, the last that answered, every panel node, the one of
\* the config file; those that failed last.
Voted == IF ha THEN voted ELSE None
List ==
  LET nodesKnown == IF ha THEN panels ELSE {}
  IN  <<Voted>> \o (IF current = Voted THEN <<>> ELSE <<current>>)
      \o SelectSeq(Order, LAMBDA u : u \in nodesKnown \ {Voted, current})
      \o (IF panelUrl \in nodesKnown \cup {Voted, current} THEN <<>> ELSE <<panelUrl>>)
Bases == SelectSeq(List, LAMBDA u : u \notin failed \cup {None}) \o SelectSeq(List, LAMBDA u : u \in failed)

\* leaderChanged: the votes show another leader than at the last hello.
LeaderChanged ==
  Voted \notin {None, lastLeader} /\ (lastLeader # None \/ current # Voted)

\* pollLoop: hello first, when another panel answered or leads; a poll asks the best address
\* only, a hello every one.
Asks ==
  /\ runs /\ asks = "none"
  /\ IF needHello \/ LeaderChanged
     THEN asks' = "hello" /\ left' = Bases
     ELSE asks' = "poll" /\ left' = IF ha THEN <<Bases[1]>> ELSE Bases
  /\ lastLeader' = IF Voted # None THEN Voted ELSE lastLeader
  /\ UNCHANGED <<shared, proxyUrl, seen, config, runs, panelUrl, ha, panels, current, needHello, failed, voted, changes>>

-----------------------------------------------------------------------------
(* What comes of a request.                                                 *)

\* proxy: a standby passes a request on once, to the leader it knows.
PassedOn(p) == p # leader /\ proxyUrl[p] = leader /\ leader \in up
ReachesLeader(p) == p = leader \/ PassedOn(p)

\* apiOnce: no answer, or the 503 of a standby that passes nothing on.
Unanswered == left[1] \notin up \/ ~ReachesLeader(left[1])

\* authenticateNode: main's token counts only while failover is on.
Known == tokenHash = token /\ (embedded => haOn)

\* noteFail, and the next address; after the last the agent waits and begins anew, with hello.
NotThere ==
  /\ asks # "none" /\ Unanswered
  /\ failed' = failed \cup {left[1]}
  /\ IF Len(left) > 1 THEN left' = Tail(left) /\ UNCHANGED <<asks, needHello>>
     ELSE left' = <<>> /\ asks' = "none" /\ needHello' = (needHello \/ ha \/ asks = "hello")
  /\ UNCHANGED <<shared, proxyUrl, seen, config, runs, panelUrl, ha, panels, current, lastLeader, voted, changes>>

\* noteOk
Answered(helloDone) ==
  /\ current' = left[1]
  /\ failed' = failed \ {left[1]}
  /\ needHello' = (~helloDone /\ (needHello \/ asks = "hello" \/ current # left[1]))
  /\ left' = <<>> /\ asks' = "none"

\* 401: the token was replaced or the server removed; the agent says hello again later.
Refused ==
  /\ asks # "none" /\ ~Unanswered /\ ~Known
  /\ Answered(FALSE)
  /\ UNCHANGED <<shared, proxyUrl, seen, config, runs, panelUrl, ha, panels, lastLeader, voted, changes>>

\* adoptPanelUrl: the address in its config file is replaced; never that of main's agent.
Adopted == IF moved # None /\ ~embedded THEN moved ELSE panelUrl

\* setHa and setPanels, of every reply: saved in panels.json.
TakesPanels ==
  /\ panelUrl' = Adopted
  /\ ha' = haOn
  /\ panels' = IF haOn THEN nodes ELSE panels

\* The panel notes the agent's files, and that they are its own.
Greets == seen' = TRUE

HelloDone ==
  /\ asks = "hello" /\ ~Unanswered /\ Known
  /\ Greets
  /\ TakesPanels
  /\ IF haOn THEN Answered(TRUE)
     ELSE /\ current' = Adopted /\ failed' = failed \ {left[1]}
          /\ needHello' = FALSE /\ left' = <<>> /\ asks' = "none"
  /\ lastLeader' = IF haOn /\ voted # None THEN voted ELSE lastLeader
  /\ voted' = IF haOn THEN voted ELSE None
  /\ UNCHANGED <<shared, proxyUrl, config, runs, changes>>

\* mutant: a panel without a hello of the agent answers its polls like any other
AsksNobody == FALSE

\* agentIsStale, staleReply: an idle agent this panel has had no hello of has to say hello.
Stale == ~seen

\* poll: the reply tells of failover and panel nodes, and may ask for a hello.
PollDone ==
  /\ asks = "poll" /\ ~Unanswered /\ Known
  /\ IF Stale
     THEN /\ asks' = "hello" /\ left' = Bases
          /\ current' = left[1] /\ failed' = failed \ {left[1]} /\ needHello' = (needHello \/ current # left[1])
          /\ UNCHANGED <<panelUrl, ha, panels, voted>>
     ELSE /\ TakesPanels
          /\ IF haOn \/ ~ha THEN Answered(FALSE)
             ELSE /\ current' = Adopted /\ failed' = failed \ {left[1]}
                  /\ left' = <<>> /\ asks' = "none" /\ needHello' = (needHello \/ current # left[1])
          /\ voted' = IF haOn THEN voted ELSE None
  /\ UNCHANGED <<shared, proxyUrl, seen, config, runs, lastLeader, changes>>

\* FAILED_COOLDOWN_MS
CoolsDown ==
  /\ failed # {} /\ asks = "none"
  /\ failed' = {}
  /\ UNCHANGED <<shared, proxyUrl, seen, config, runs, memory, voted, request, changes>>

-----------------------------------------------------------------------------
(* Around the agent.                                                        *)

\* Its voter asks the panel nodes it knows; a reply names them all.  The embedded agent
\* has none.  A request under way is given up when another panel leads.
Votes ==
  /\ runs /\ ha /\ ~embedded
  /\ leader \in up \cap panels /\ haOn /\ Known
  /\ <<voted, panels>> # <<leader, nodes>>
  /\ voted' = leader /\ panels' = nodes
  /\ IF asks = "poll" /\ voted # leader
     THEN asks' = "none" /\ left' = <<>> /\ needHello' = TRUE ELSE UNCHANGED <<request, needHello>>
  /\ UNCHANGED <<shared, proxyUrl, seen, config, runs, panelUrl, ha, current, lastLeader, failed, changes>>

\* A standby follows the leader, and forgets the one it cannot reach.
Follows(p) ==
  /\ p \in up \ {leader}
  /\ LET to == IF leader \in up THEN leader ELSE None
     IN  proxyUrl[p] # to /\ proxyUrl' = [proxyUrl EXCEPT ![p] = to]
  /\ UNCHANGED <<shared, seen, config, runs, memory, failed, voted, request, changes>>

\* ensureMainAgent: while main is a standby that knows the leader.
Embeds ==
  /\ embedded /\ ~runs /\ Main \in up \ {leader} /\ haOn
  /\ proxyUrl[Main] # None
  /\ runs' = TRUE
  /\ panelUrl' = proxyUrl[Main] /\ current' = panelUrl'
  /\ needHello' = TRUE /\ lastLeader' = None /\ failed' = {} /\ voted' = None
  /\ asks' = "none" /\ left' = <<>>
  /\ UNCHANGED <<shared, proxyUrl, seen, config, ha, panels, changes>>

\* stopMainAgent
Unembeds == runs' = IF embedded /\ leader' = Main THEN FALSE ELSE runs

-----------------------------------------------------------------------------
(* What happens.                                                            *)

\* Another panel takes over; it has had no hello of anybody.
Promote(p) ==
  /\ Change
  /\ haOn /\ p \in nodes \cap up /\ p # leader
  /\ leader' = p /\ seen' = FALSE
  /\ Unembeds
  /\ UNCHANGED <<up, haOn, nodes, moved, tokenHash, proxyUrl, config, memory, failed, voted, request>>

Stops(p) ==
  /\ Change
  /\ p \in up
  /\ up' = up \ {p}
  /\ seen' = (seen /\ p # leader)
  /\ proxyUrl' = [proxyUrl EXCEPT ![p] = None]
  /\ runs' = (runs /\ ~(embedded /\ p = Main))
  /\ UNCHANGED <<leader, haOn, nodes, moved, tokenHash, config, memory, failed, voted, request>>

Starts(p) ==
  /\ p \notin up
  /\ up' = up \cup {p}
  /\ UNCHANGED <<leader, haOn, nodes, moved, tokenHash, proxyUrl, seen, config, runs, memory, failed, voted, request, changes>>

\* A panel node is added or removed, failover is turned on or off, on main, or the main
\* server was changed.
ChangesPanels ==
  /\ Change
  /\ leader \in up
  /\ \/ \E p \in Panel \ {Main, leader} :
          /\ nodes' = IF p \in nodes THEN nodes \ {p} ELSE nodes \cup {p}
          /\ UNCHANGED <<haOn, moved>>
     \/ leader = Main /\ haOn' = ~haOn /\ UNCHANGED <<nodes, moved>>
     \/ moved' = leader /\ UNCHANGED <<nodes, haOn>>
  /\ UNCHANGED <<leader, up, tokenHash, proxyUrl, seen, config, runs, memory, failed, voted, request>>

\* POST .../token, DELETE: the agent is told nothing.
NewToken ==
  /\ tokenHash # None
  /\ tokenHash' = tokenHash + 1
  /\ UNCHANGED seen
Deletes ==
  /\ tokenHash # None
  /\ tokenHash' = None
  /\ seen' = FALSE
Disowns ==
  /\ Change
  /\ leader \in up /\ ~embedded
  /\ NewToken \/ Deletes
  /\ UNCHANGED <<leader, up, haOn, nodes, moved, proxyUrl, config, runs, memory, failed, voted, request>>

\* The install command is run again, from the active panel.
Installs ==
  /\ ~Known /\ ~embedded /\ tokenHash # None /\ leader \in up
  /\ token' = tokenHash
  /\ panelUrl' = leader /\ current' = leader
  /\ needHello' = TRUE /\ lastLeader' = None /\ failed' = {} /\ voted' = None
  /\ asks' = "none" /\ left' = <<>>
  /\ UNCHANGED <<shared, proxyUrl, seen, embedded, runs, ha, panels, changes>>

\* The agent's process ends and is started again: it has its files.
Restarts ==
  /\ Change
  /\ runs /\ ~embedded
  /\ current' = panelUrl /\ needHello' = TRUE /\ lastLeader' = None /\ failed' = {} /\ voted' = None
  /\ asks' = "none" /\ left' = <<>>
  /\ UNCHANGED <<shared, proxyUrl, seen, config, runs, panelUrl, ha, panels>>

Init ==
  /\ leader = Main /\ up = Panel /\ haOn = TRUE
  /\ nodes \in {n \in SUBSET Panel : Main \in n}
  /\ proxyUrl = [p \in Panel |-> IF p = Main THEN None ELSE Main]
  /\ moved = None /\ tokenHash = 1 /\ token = 1 /\ seen = FALSE
  /\ embedded \in BOOLEAN /\ runs = ~embedded
  /\ panelUrl = Main /\ current = Main /\ ha = FALSE /\ panels = {}
  /\ failed = {} /\ needHello = TRUE /\ lastLeader = None /\ voted = None
  /\ asks = "none" /\ left = <<>> /\ changes = 0

Agent == Asks \/ NotThere \/ Refused \/ HelloDone \/ PollDone

Next ==
  \/ Agent \/ CoolsDown \/ Votes \/ Embeds \/ Installs \/ Restarts
  \/ ChangesPanels \/ Disowns
  \/ \E p \in Panel : Follows(p) \/ Promote(p) \/ Stops(p) \/ Starts(p)

Fairness ==
  /\ WF_vars(Agent) /\ WF_vars(CoolsDown) /\ WF_vars(Votes) /\ WF_vars(Embeds)
  /\ \A p \in Panel : WF_vars(Follows(p))

Spec == Init /\ [][Next]_vars /\ Fairness

-----------------------------------------------------------------------------

\* One of the agent's addresses leads to the active panel, which knows the agent.
WithinReach ==
  /\ leader \in up /\ Known /\ runs
  /\ \E u \in ToSet(Bases) : u \in up \cap (nodes \cup {leader}) /\ proxyUrl[u] \in {leader, None}
InTouch == seen

\* While the active panel stays, and one of the agent's addresses is that of a panel node, the
\* agent finds the active panel and is greeted by it, wherever it has moved in the meantime.
FindsTheActivePanel == <>[]WithinReach => <>[]InTouch
=============================================================================
