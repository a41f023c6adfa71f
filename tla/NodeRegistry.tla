---------------------------- MODULE NodeRegistry ----------------------------
(***************************************************************************)
(* Which row of the table "nodes" a device polls and reports to: the node  *)
(* id a device keeps in node_id.txt, and UpsertNode on the master, which   *)
(* refuses terminated ids, adopts the row of a known fingerprint or of a   *)
(* known hostname and LAN address, removes stale rows of the hostname and  *)
(* writes the row.  These are separate SQL statements outside of any       *)
(* transaction, so polls of different devices, reports and operators       *)
(* interleave with them.                                                   *)
(*                                                                         *)
(* A device is its hostname and LAN address: two devices may have the same *)
(* hostname but not both.  The polls of one device do not overlap, and the *)
(* agent is not restarted while the master handles one.                    *)
(***************************************************************************)
EXTENDS Naturals, FiniteSets

CONSTANTS
  Devices,
  HostOf,     \* hostname of a device
  Ids,        \* bound: node ids that are ever minted
  MaxPrints,  \* bound: fingerprints (hardware_hash) of each device
  MaxLost     \* bound: poll answers and last reports that get lost

ASSUME HostsAssumption  == HostOf \in [Devices -> STRING]
ASSUME LimitsAssumption ==
  MaxPrints \in [Devices -> Nat \ {0}] /\ MaxLost \in Nat

VARIABLES
  rows,    \* the table: id -> row
  id,      \* NODE_ID of the agent in memory, NoId while it is not installed
  file,    \* node_id.txt, NoId when there is none
  print,   \* the device's current fingerprint, as a number
  dying,   \* how far _terminate has come
  poll,    \* the poll of a device that the master is handling
  minted,  \* history: ids handed out by a device or the master
  killed,  \* history: ids of rows that were Terminated at some time
  lost     \* answers and last reports lost so far, at most MaxLost

vars == <<rows, id, file, print, dying, poll, minted, killed, lost>>

NoId == "no id"
ASSUME IdsAssumption == NoId \notin Ids

Prints == UNION {{d} \X (1..MaxPrints[d]) : d \in Devices}
\* last_seen: under 10 minutes ago, under 30 days, more.
Ages   == {"fresh", "stale", "old"}
\* "terminated" is: pipeline_status or status_message is 'Terminated'.
Row    == [hash : Prints, from : Devices, terminated : BOOLEAN, age : Ages]
NoPoll == [pc |-> "none", target |-> NoId]

Hash(d) == <<d, print[d]>>

\* Statements on the table.
Without(S)  == [i \in DOMAIN rows \ S |-> rows[i]]
With(i, r)  == [j \in DOMAIN rows \cup {i} |-> IF j = i THEN r ELSE rows[j]]
Live(i)     == i \in DOMAIN rows /\ ~rows[i].terminated

Init ==
  /\ rows = [i \in {} |-> 0]
  /\ id = [d \in Devices |-> NoId] /\ file = [d \in Devices |-> NoId]
  /\ print = [d \in Devices |-> 1]
  /\ dying = [d \in Devices |-> "no"]
  /\ poll = [d \in Devices |-> NoPoll]
  /\ minted = {} /\ killed = {} /\ lost = 0

-----------------------------------------------------------------------------
(* The device. *)

\* The agent starts: NODE_ID from node_id.txt, or a new one that is written
\* there (_load_node_id), and the fingerprint, which an agent update or other
\* hardware may have altered (get_hardware_hash).
Start(d) ==
  /\ dying[d] = "no" /\ poll[d] = NoPoll
  /\ \E i \in IF file[d] # NoId THEN {file[d]} ELSE Ids \ minted :
       /\ id' = [id EXCEPT ![d] = i]
       /\ file' = [file EXCEPT ![d] = i]
       /\ minted' = minted \cup {i}
  /\ \E p \in {print[d], print[d] + 1} \cap (1..MaxPrints[d]) :
       print' = [print EXCEPT ![d] = p]
  /\ UNCHANGED <<rows, dying, poll, killed, lost>>

\* A reinstallation removes node_id.txt.
Wipe(d) ==
  /\ id[d] # NoId /\ dying[d] = "no" /\ poll[d] = NoPoll
  /\ id' = [id EXCEPT ![d] = NoId] /\ file' = [file EXCEPT ![d] = NoId]
  /\ UNCHANGED <<rows, print, dying, poll, minted, killed, lost>>

\* ReportHandler: a status, Terminated or another, and the fingerprint.
Report(d, terminated) ==
  rows' = IF id[d] \in DOMAIN rows
          THEN [rows EXCEPT ![id[d]].terminated = terminated,
                            ![id[d]].hash = Hash(d)]
          ELSE rows

ReportStatus(d) ==
  /\ id[d] # NoId
  /\ Report(d, FALSE)
  /\ UNCHANGED <<id, file, print, dying, poll, minted, killed, lost>>

\* _terminate: report, wipe the directory, and some time later be gone.  The
\* poll and health threads run on in between.  Without a connection there is no
\* report; when only its answer is lost, the exception ends _terminate.
Terminate(d) ==
  /\ id[d] # NoId /\ dying[d] = "no"
  /\ \E reported, goesOn \in BOOLEAN :
       /\ reported \/ goesOn
       /\ IF reported
          THEN Report(d, TRUE) /\ killed' = killed \cup ({id[d]} \cap DOMAIN rows)
          ELSE UNCHANGED <<rows, killed>>
       /\ dying' = IF goesOn THEN [dying EXCEPT ![d] = "reported"] ELSE dying
       /\ IF reported /\ goesOn THEN UNCHANGED lost
                                ELSE lost < MaxLost /\ lost' = lost + 1
  /\ UNCHANGED <<id, file, print, poll, minted>>

WipeDirectory(d) ==
  /\ dying[d] = "reported"
  /\ dying' = [dying EXCEPT ![d] = "wiped"]
  /\ file' = [file EXCEPT ![d] = NoId]
  /\ UNCHANGED <<rows, id, print, poll, minted, killed, lost>>

RemoveContainer(d) ==
  /\ dying[d] = "wiped"
  /\ dying' = [dying EXCEPT ![d] = "no"]
  /\ id' = [id EXCEPT ![d] = NoId]
  /\ UNCHANGED <<rows, file, print, poll, minted, killed, lost>>

-----------------------------------------------------------------------------
(* The master: UpsertNode for a poll of device d. *)

\* Termination guard: a Terminated row's id is replaced by a fresh one.
Guard(d) ==
  /\ id[d] # NoId /\ poll[d] = NoPoll
  /\ \E i \in Ids :
       /\ IF id[d] \in DOMAIN rows /\ rows[id[d]].terminated
          THEN i \notin minted ELSE i = id[d]
       /\ poll' = [poll EXCEPT ![d] = [pc |-> "hash", target |-> i]]
       /\ minted' = minted \cup {i}
  /\ UNCHANGED <<rows, id, file, print, dying, killed, lost>>

\* Bug: the row is found and its id is not taken over.
AdoptNothing(d) ==
  /\ poll[d].pc = "hash"
  /\ \E found \in BOOLEAN :
       /\ found = \E i \in DOMAIN rows : rows[i].hash = Hash(d) /\ Live(i)
       /\ poll' = [poll EXCEPT ![d].pc = IF found THEN "cleanup" ELSE "host"]
  /\ UNCHANGED <<rows, id, file, print, dying, minted, killed, lost>>

\* Adoption by fingerprint: any live row with it, but the presented one.
SameHash(d) == {i \in DOMAIN rows : /\ rows[i].hash = Hash(d)
                                    /\ i # poll[d].target /\ Live(i)}
AdoptByHash(d) ==
  /\ poll[d].pc = "hash"
  /\ \/ \E i \in SameHash(d) :
          poll' = [poll EXCEPT ![d] = [pc |-> "cleanup", target |-> i]]
     \/ SameHash(d) = {} /\ poll' = [poll EXCEPT ![d].pc = "host"]
  /\ UNCHANGED <<rows, id, file, print, dying, minted, killed, lost>>

\* Bug: the LAN address is not compared.
SameHostname(d) == {i \in DOMAIN rows :
                      /\ HostOf[rows[i].from] = HostOf[d] /\ rows[i].age # "old"
                      /\ i # poll[d].target /\ Live(i)}

\* Adoption by hostname and LAN address: the live row seen last, not too old.
SamePlace(d) == {i \in DOMAIN rows : /\ rows[i].from = d /\ rows[i].age # "old"
                                     /\ i # poll[d].target /\ Live(i)}
LastSeen(S) == IF \E i \in S : rows[i].age = "fresh"
               THEN {i \in S : rows[i].age = "fresh"} ELSE S
AdoptByHost(d) ==
  /\ poll[d].pc = "host"
  /\ \/ \E i \in LastSeen(SamePlace(d)) :
          poll' = [poll EXCEPT ![d] = [pc |-> "cleanup", target |-> i]]
     \/ SamePlace(d) = {} /\ poll' = [poll EXCEPT ![d].pc = "cleanup"]
  /\ UNCHANGED <<rows, id, file, print, dying, minted, killed, lost>>

\* Ghost cleanup: the other rows of the hostname not seen for 10 minutes.
Ghosts(d) == {i \in DOMAIN rows : /\ HostOf[rows[i].from] = HostOf[d]
                                  /\ i # poll[d].target /\ rows[i].age # "fresh"}
Cleanup(d) ==
  /\ poll[d].pc = "cleanup"
  /\ rows' = Without(Ghosts(d))
  /\ poll' = [poll EXCEPT ![d].pc = "insert"]
  /\ UNCHANGED <<id, file, print, dying, minted, killed, lost>>

\* INSERT ... ON CONFLICT (id) DO UPDATE: the status is left alone.
Insert(d) ==
  /\ poll[d].pc = "insert"
  /\ LET i == poll[d].target IN
       rows' = With(i, [hash |-> Hash(d), from |-> d, age |-> "fresh",
                        terminated |-> i \in DOMAIN rows /\ rows[i].terminated])
  /\ poll' = [poll EXCEPT ![d].pc = "fetch"]
  /\ UNCHANGED <<id, file, print, dying, minted, killed, lost>>

\* PollHandler: with a command pending (which this module leaves open) the
\* status becomes Fetched, whatever it was.
Fetch(d) ==
  /\ poll[d].pc = "fetch"
  /\ poll' = [poll EXCEPT ![d].pc = "answer"]
  /\ \/ UNCHANGED rows
     \/ /\ poll[d].target \in DOMAIN rows
        /\ rows' = [rows EXCEPT ![poll[d].target].terminated = FALSE]
  /\ UNCHANGED <<id, file, print, dying, minted, killed, lost>>

\* Bug: the adopted id is not written to node_id.txt.
AnswerUnsaved(d) ==
  /\ poll[d].pc = "answer"
  /\ id' = [id EXCEPT ![d] = IF id[d] = NoId THEN NoId ELSE poll[d].target]
  /\ poll' = [poll EXCEPT ![d] = NoPoll]
  /\ UNCHANGED <<rows, file, print, dying, minted, killed, lost>>

\* The answer carries the canonical id, which the agent keeps and writes to
\* node_id.txt (_adopt_node_id); or it is lost, or nobody is there to read it.
Answer(d) ==
  /\ poll[d].pc = "answer"
  /\ \/ /\ id[d] # NoId
        /\ id' = [id EXCEPT ![d] = poll[d].target]
        /\ file' = IF poll[d].target = id[d] THEN file
                   ELSE [file EXCEPT ![d] = poll[d].target]
        /\ UNCHANGED lost
     \/ id[d] = NoId /\ UNCHANGED <<id, file, lost>>
     \/ /\ id[d] # NoId /\ lost < MaxLost /\ lost' = lost + 1
        /\ UNCHANGED <<id, file>>
  /\ poll' = [poll EXCEPT ![d] = NoPoll]
  /\ UNCHANGED <<rows, print, dying, minted, killed>>

Upsert(d) == Guard(d) \/ AdoptByHash(d) \/ AdoptByHost(d) \/ Cleanup(d)
               \/ Insert(d) \/ Fetch(d) \/ Answer(d)

-----------------------------------------------------------------------------
(* Operators, and time. *)

\* Bug: a command can be queued for a node that has no row.
QueueForAnyone(i) ==
  /\ i \notin DOMAIN rows /\ rows' = With(i, [terminated |-> FALSE])
  /\ UNCHANGED <<id, file, print, dying, poll, minted, killed, lost>>

\* SetPendingCommand: whatever the status was, it becomes Queued.
QueueCommand(i) ==
  /\ i \in DOMAIN rows
  /\ rows' = [rows EXCEPT ![i].terminated = FALSE]
  /\ UNCHANGED <<id, file, print, dying, poll, minted, killed, lost>>

DeleteNode(i) ==
  /\ i \in DOMAIN rows
  /\ rows' = Without({i})
  /\ UNCHANGED <<id, file, print, dying, poll, minted, killed, lost>>

\* DeleteOfflineNodes, with a threshold between a day and a month or more.
Purge ==
  /\ \E ages \in {{"old"}, {"stale", "old"}} :
       rows' = Without({i \in DOMAIN rows : rows[i].age \in ages})
  /\ UNCHANGED <<id, file, print, dying, poll, minted, killed, lost>>

Age(i) ==
  /\ i \in DOMAIN rows /\ rows[i].age # "old"
  /\ rows' = [rows EXCEPT ![i].age = IF @ = "fresh" THEN "stale" ELSE "old"]
  /\ UNCHANGED <<id, file, print, dying, poll, minted, killed, lost>>

-----------------------------------------------------------------------------
Next ==
  \/ \E d \in Devices :
       \/ Start(d) \/ Wipe(d) \/ ReportStatus(d)
       \/ Terminate(d) \/ WipeDirectory(d) \/ RemoveContainer(d) \/ Upsert(d)
  \/ \E i \in Ids : QueueCommand(i) \/ DeleteNode(i) \/ Age(i)
  \/ Purge

Spec == Init /\ [][Next]_vars

\* An installed agent polls every 30 s and the master answers.
FairSpec == Spec /\ \A d \in Devices : WF_vars(Upsert(d))

-----------------------------------------------------------------------------
(* Properties. *)

TypeOK ==
  /\ DOMAIN rows \subseteq Ids /\ \A i \in DOMAIN rows : rows[i] \in Row
  /\ id \in [Devices -> Ids \cup {NoId}]
  /\ file \in [Devices -> Ids \cup {NoId}]
  /\ print \in [Devices -> Nat]
  /\ \A d \in Devices : print[d] \in 1..MaxPrints[d]
  /\ dying \in [Devices -> {"no", "reported", "wiped"}]
  /\ poll \in [Devices -> [pc : {"none", "hash", "host", "cleanup", "insert",
                                 "fetch", "answer"}, target : Ids \cup {NoId}]]
  /\ minted \subseteq Ids /\ killed \subseteq Ids /\ lost \in 0..MaxLost

\* Two devices never work under one node id, not even two with the same
\* hostname: each adoption is of a row of its own.
NoSharedId ==
  \A d, e \in Devices : d # e /\ id[d] # NoId => id[d] # id[e]

\* A device has one row, through reinstallations, new fingerprints, deletions
\* and lost answers.  Only a row that was terminated may be a second.
OneRowPerDevice ==
  \A i, j \in DOMAIN rows :
    i # j /\ rows[i].from = rows[j].from => i \in killed \/ j \in killed

\* A device that is never terminated comes to keep one id: the ids of its polls
\* do not alternate between rows.
Settles == [](killed = {}) => <>[][UNCHANGED id]_id

\* postgres.go:458: "a self-destructed device must never resurrect", and
\* postgres.go:477: "Terminated rows are explicitly excluded: a killed device
\* registers as brand-new".  So nobody adopts a row that was terminated.
NeverResurrects ==
  [][ \A d \in Devices : id'[d] # id[d] => id'[d] \notin killed ]_vars
=============================================================================
