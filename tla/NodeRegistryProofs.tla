------------------------- MODULE NodeRegistryProofs -------------------------
(***************************************************************************)
(* Theorems about NodeRegistry: types, one id for one device, and one row  *)
(* for one device, for any number of devices, ids and fingerprints.        *)
(***************************************************************************)
EXTENDS NodeRegistry, TLAPS

\* A poll that is under way has an id to look for, so that rows get ids only.
PollOK == \A d \in Devices : poll[d].pc # "none" => poll[d].target \in Ids

\* An id is connected with a device: it is the one the agent has in memory or on
\* disk, or the one its poll is about, or that of a row the device has written.
Claims(d, i) == \/ id[d] = i \/ file[d] = i \/ poll[d].target = i
                \/ i \in DOMAIN rows /\ rows[i].from = d

\* An id is never connected with two devices.  Ids are minted once, and rows are
\* adopted only by the device that wrote them: fingerprints belong to devices.
Owned == /\ \A i \in Ids, d \in Devices :
              Claims(d, i) => /\ i \in minted
                              /\ \A e \in Devices : Claims(e, i) => e = d
         /\ \A i \in DOMAIN rows : rows[i].hash[1] = rows[i].from

\* A row that says Terminated is on record, so what is not is alive.
Marked == \A i \in DOMAIN rows : rows[i].terminated => i \in killed

\* The rows that a poll must neither have overlooked nor leave behind.
Rivals(d) == {i \in DOMAIN rows : /\ rows[i].from = d /\ i \notin killed
                                  /\ i # poll[d].target}

\* A poll that adopted nothing has seen that the device has no other row but old
\* ones, which the ghost cleanup removes before the row is written.
Alone == \A d \in Devices : poll[d].target \notin killed =>
  /\ poll[d].pc = "cleanup" => \A i \in Rivals(d) : rows[i].age # "fresh"
  /\ poll[d].pc = "insert"  => Rivals(d) = {}

-----------------------------------------------------------------------------
(* Facts about the statements on the table. *)

\* What the statements may do to the table: nothing, remove rows, write one row
\* as a whole, or change the status, the fingerprint or last_seen of one row.
Removes == \E S : rows' = Without(S)
Writes(i, r) == rows' = With(i, r)
Edits(i, r)  == i \in DOMAIN rows /\ rows' = [rows EXCEPT ![i] = r]

-----------------------------------------------------------------------------
(* Types. *)

RowsOK  == DOMAIN rows \subseteq Ids /\ \A i \in DOMAIN rows : rows[i] \in Row
Phases  == {"none", "hash", "host", "cleanup", "insert", "fetch", "answer"}
Polls   == [pc : Phases, target : Ids \cup {NoId}]
PollsOK == poll \in [Devices -> Polls] /\ PollOK
DevicesOK == /\ id \in [Devices -> Ids \cup {NoId}]
             /\ file \in [Devices -> Ids \cup {NoId}]
             /\ print \in [Devices -> Nat]
             /\ \A d \in Devices : print[d] \in 1..MaxPrints[d]
             /\ dying \in [Devices -> {"no", "reported", "wiped"}]
             /\ minted \subseteq Ids /\ killed \subseteq Ids /\ lost \in 0..MaxLost

Typed == RowsOK /\ PollsOK /\ DevicesOK

LEMMA TypedIsTypeOK == Typed <=> TypeOK /\ PollOK
BY DEF Typed, TypeOK, RowsOK, PollsOK, DevicesOK, Polls, Phases

LEMMA InitTyped == Init => Typed
BY LimitsAssumption
   DEF Init, Typed, RowsOK, PollsOK, DevicesOK, PollOK, NoPoll, Polls, Phases

LEMMA HashTyped ==
  ASSUME Typed, NEW d \in Devices
  PROVE  Hash(d) \in Prints /\ Hash(d)[1] = d
BY LimitsAssumption DEF Typed, DevicesOK, Hash, Prints

LEMMA RemovesTyped ==
  ASSUME RowsOK, Removes
  PROVE  RowsOK'
BY DEF RowsOK, Removes, Without

LEMMA WritesTyped ==
  ASSUME RowsOK, NEW i \in Ids, NEW r \in Row, Writes(i, r)
  PROVE  RowsOK'
BY DEF RowsOK, Writes, With

LEMMA EditsTyped ==
  ASSUME RowsOK, NEW i, NEW r \in Row, Edits(i, r)
  PROVE  RowsOK'
BY DEF RowsOK, Edits

\* A report changes the fingerprint and the status of the agent's own row.
LEMMA ReportEdits ==
  ASSUME Typed, NEW d \in Devices, NEW b \in BOOLEAN, Report(d, b)
  PROVE  \/ UNCHANGED rows
         \/ \E r \in Row : /\ Edits(id[d], r)
                           /\ r.from = rows[id[d]].from /\ r.hash = Hash(d)
                           /\ r.terminated = b /\ r.age = rows[id[d]].age
<1>1. CASE id[d] \notin DOMAIN rows
  BY <1>1 DEF Report
<1>2. CASE id[d] \in DOMAIN rows
  <2> DEFINE r == [rows[id[d]] EXCEPT !.terminated = b, !.hash = Hash(d)]
  <2>1. /\ r \in Row /\ r.from = rows[id[d]].from
        /\ r.hash = Hash(d) /\ r.terminated = b /\ r.age = rows[id[d]].age
    BY <1>2, HashTyped DEF Typed, RowsOK, Row
  <2>2. rows' = [rows EXCEPT ![id[d]] = r]
    BY <1>2 DEF Report, Typed, RowsOK, Row
  <2>3. QED
    BY <1>2, <2>1, <2>2 DEF Edits
<1>3. QED
  BY <1>1, <1>2

\* A command, and PollHandler, take the status of a row away.
LEMMA StatusEdits ==
  ASSUME Typed, NEW i \in DOMAIN rows,
         rows' = [rows EXCEPT ![i].terminated = FALSE]
  PROVE  \E r \in Row : /\ Edits(i, r) /\ r.from = rows[i].from
                        /\ r.hash = rows[i].hash /\ r.age = rows[i].age
                        /\ ~ r.terminated
<1> DEFINE r == [rows[i] EXCEPT !.terminated = FALSE]
<1>1. /\ r \in Row /\ r.from = rows[i].from /\ r.hash = rows[i].hash
      /\ r.age = rows[i].age /\ ~ r.terminated
  BY DEF Typed, RowsOK, Row
<1>2. QED
  BY <1>1 DEF Edits

\* One step of a device keeps the types.
LEMMA DeviceTyped ==
  ASSUME Typed, NEW d \in Devices,
         \/ Start(d) \/ Wipe(d) \/ ReportStatus(d)
         \/ Terminate(d) \/ WipeDirectory(d) \/ RemoveContainer(d)
  PROVE  Typed'
<1>1. RowsOK'
  <2>1. CASE ReportStatus(d)
    BY <2>1, ReportEdits, EditsTyped DEF ReportStatus, Typed, RowsOK
  <2>2. CASE Terminate(d)
    BY <2>2, ReportEdits, EditsTyped DEF Terminate, Typed, RowsOK
  <2>3. CASE UNCHANGED rows
    BY <2>3 DEF Typed, RowsOK
  <2>4. QED
    BY <2>1, <2>2, <2>3 DEF Start, Wipe, WipeDirectory, RemoveContainer
<1>2. PollsOK'
  <2>1. UNCHANGED poll
    BY DEF Start, Wipe, ReportStatus, Terminate, WipeDirectory, RemoveContainer
  <2>2. QED
    BY <2>1 DEF Typed, PollsOK, PollOK
<1>3. DevicesOK'
  <2> USE LimitsAssumption, IdsAssumption DEF Typed, DevicesOK
  <2>1. CASE Start(d)
    BY <2>1 DEF Start
  <2>2. CASE Wipe(d)
    BY <2>2 DEF Wipe
  <2>3. CASE ReportStatus(d)
    BY <2>3 DEF ReportStatus
  <2>4. CASE Terminate(d)
    <3>1. killed' \subseteq killed \cup {id[d]}
      BY <2>4 DEF Terminate
    <3>2. id[d] \in Ids
      BY <2>4 DEF Terminate
    <3>3. dying' \in [Devices -> {"no", "reported", "wiped"}]
      BY <2>4 DEF Terminate
    <3>4. lost' \in 0..MaxLost
      BY <2>4 DEF Terminate
    <3>5. QED
      BY <2>4, <3>1, <3>2, <3>3, <3>4 DEF Terminate
  <2>5. CASE WipeDirectory(d)
    BY <2>5 DEF WipeDirectory
  <2>6. CASE RemoveContainer(d)
    BY <2>6 DEF RemoveContainer
  <2>7. QED
    BY <2>1, <2>2, <2>3, <2>4, <2>5, <2>6
<1>4. QED
  BY <1>1, <1>2, <1>3 DEF Typed

\* One statement of the master keeps the types.
LEMMA UpsertTyped ==
  ASSUME Typed, NEW d \in Devices, Upsert(d)
  PROVE  Typed'
<1>1. RowsOK'
  <2>1. CASE Cleanup(d)
    BY <2>1, RemovesTyped DEF Cleanup, Removes, Typed
  <2>2. CASE Insert(d)
    <3> DEFINE i == poll[d].target
               r == [hash |-> Hash(d), from |-> d, age |-> "fresh",
                     terminated |-> i \in DOMAIN rows /\ rows[i].terminated]
    <3>1. i \in Ids
      BY <2>2 DEF Insert, Typed, PollsOK, PollOK
    <3>2. (i \in DOMAIN rows /\ rows[i].terminated) \in BOOLEAN
      OBVIOUS
    <3>3. r \in Row
      BY <3>2, HashTyped DEF Row, Ages
    <3>4. Writes(i, r)
      BY <2>2 DEF Insert, Writes
    <3>5. QED
      BY <3>1, <3>3, <3>4, WritesTyped DEF Typed
  <2>3. CASE Fetch(d)
    BY <2>3, StatusEdits, EditsTyped DEF Fetch, Typed, RowsOK
  <2>4. CASE UNCHANGED rows
    BY <2>4 DEF Typed, RowsOK
  <2>5. QED
    BY <2>1, <2>2, <2>3, <2>4 DEF Upsert, Guard, AdoptByHash, AdoptByHost, Answer
<1>2. PollsOK'
  <2> USE DEF Typed, PollsOK, PollOK, Polls, Phases
  <2>1. CASE Guard(d)
    BY <2>1 DEF Guard
  <2>2. CASE AdoptByHash(d)
    BY <2>2 DEF AdoptByHash, SameHash, RowsOK
  <2>3. CASE AdoptByHost(d)
    BY <2>3 DEF AdoptByHost, SamePlace, LastSeen, RowsOK
  <2>4. CASE Cleanup(d)
    BY <2>4 DEF Cleanup
  <2>5. CASE Insert(d)
    BY <2>5 DEF Insert
  <2>6. CASE Fetch(d)
    BY <2>6 DEF Fetch
  <2>7. CASE Answer(d)
    BY <2>7 DEF Answer, NoPoll
  <2>8. QED
    BY <2>1, <2>2, <2>3, <2>4, <2>5, <2>6, <2>7 DEF Upsert
<1>3. DevicesOK'
  <2>1. CASE Guard(d)
    BY <2>1 DEF Guard, Typed, DevicesOK
  <2>2. CASE Answer(d)
    <3>1. poll[d].target \in Ids
      BY <2>2 DEF Answer, Typed, PollsOK, PollOK
    <3>2. QED
      BY <2>2, <3>1, LimitsAssumption DEF Answer, Typed, DevicesOK
  <2>3. CASE UNCHANGED <<id, file, print, dying, minted, killed, lost>>
    BY <2>3 DEF Typed, DevicesOK
  <2>4. QED
    BY <2>1, <2>2, <2>3
       DEF Upsert, AdoptByHash, AdoptByHost, Cleanup, Insert, Fetch
<1>4. QED
  BY <1>1, <1>2, <1>3 DEF Typed

\* Operators and time keep the types.
LEMMA OthersTyped ==
  ASSUME Typed,
         (\E i \in Ids : QueueCommand(i) \/ DeleteNode(i) \/ Age(i)) \/ Purge
  PROVE  Typed'
<1>1. RowsOK'
  <2>1. CASE \E i \in Ids : QueueCommand(i)
    BY <2>1, StatusEdits, EditsTyped DEF QueueCommand, Typed
  <2>2. CASE \E i \in Ids : DeleteNode(i)
    BY <2>2, RemovesTyped DEF DeleteNode, Removes, Typed
  <2>3. CASE \E i \in Ids : Age(i)
    BY <2>3 DEF Age, Typed, RowsOK, Row, Ages
  <2>4. CASE Purge
    BY <2>4, RemovesTyped DEF Purge, Removes, Typed
  <2>5. QED
    BY <2>1, <2>2, <2>3, <2>4
<1>2. UNCHANGED <<id, file, print, dying, poll, minted, killed, lost>>
  BY DEF QueueCommand, DeleteNode, Age, Purge
<1>3. QED
  BY <1>1, <1>2 DEF Typed, PollsOK, PollOK, DevicesOK

LEMMA StepTyped == Typed /\ [Next]_vars => Typed'
<1> SUFFICES ASSUME Typed, [Next]_vars PROVE Typed'
  OBVIOUS
<1>1. CASE UNCHANGED vars
  BY <1>1 DEF vars, Typed, RowsOK, PollsOK, PollOK, DevicesOK
<1>2. QED
  BY <1>1, DeviceTyped, UpsertTyped, OthersTyped DEF Next

\* Each column, id and counter keeps its range, and rows have node ids for keys
\* (UpsertNode, _load_node_id, _adopt_node_id).
THEOREM RegistryTypes == Spec => []TypeOK
<1>1. Typed => TypeOK
  BY TypedIsTypeOK
<1>2. QED
  BY <1>1, InitTyped, StepTyped, PTL DEF Spec

-----------------------------------------------------------------------------
(* Rows keep their device. *)

\* Whatever happens to a row but the upsert's last statement, it stays that of
\* its device, no younger than it was, and it is on record when it says
\* Terminated.
Later == \A i \in DOMAIN rows' :
  /\ i \in DOMAIN rows
  /\ rows'[i].from = rows[i].from
  /\ rows[i].age # "fresh" => rows'[i].age # "fresh"
  /\ rows'[i].terminated => rows[i].terminated \/ i \in killed'
  /\ \/ rows'[i].hash = rows[i].hash
     \/ \E d \in Devices : i = id[d] /\ rows'[i].hash[1] = d

LEMMA SameLater == UNCHANGED rows => Later
BY DEF Later

LEMMA RemovesLater == Removes => Later
BY DEF Later, Removes, Without

LEMMA EditsLater ==
  ASSUME NEW i, NEW r \in Row, Edits(i, r), r.from = rows[i].from,
         r.age = rows[i].age \/ r.age # "fresh",
         r.terminated => i \in killed',
         r.hash = rows[i].hash \/ \E d \in Devices : i = id[d] /\ r.hash[1] = d
  PROVE  Later
BY DEF Later, Edits

LEMMA DeviceLater ==
  ASSUME Typed, NEW d \in Devices,
         \/ Start(d) \/ Wipe(d) \/ ReportStatus(d)
         \/ Terminate(d) \/ WipeDirectory(d) \/ RemoveContainer(d)
  PROVE  Later /\ killed \subseteq killed'
<1>1. ASSUME NEW b \in BOOLEAN, Report(d, b), b => {id[d]} \cap DOMAIN rows \subseteq killed'
      PROVE  Later
  <2>1. CASE UNCHANGED rows
    BY <2>1, SameLater
  <2>2. CASE ~ UNCHANGED rows
    <3>1. PICK r \in Row : /\ Edits(id[d], r)
                           /\ r.from = rows[id[d]].from /\ r.hash = Hash(d)
                           /\ r.terminated = b /\ r.age = rows[id[d]].age
      BY <1>1, <2>2, ReportEdits
    <3>2. r.hash[1] = d /\ (r.terminated => id[d] \in killed')
      BY <1>1, <3>1, HashTyped DEF Edits
    <3>3. QED
      BY <3>1, <3>2, EditsLater
  <2>3. QED
    BY <2>1, <2>2
<1>2. CASE ReportStatus(d)
  BY <1>1, <1>2 DEF ReportStatus
<1>3. CASE Terminate(d)
  <2>1. CASE UNCHANGED <<rows, killed>>
    BY <2>1, SameLater
  <2>2. CASE Report(d, TRUE) /\ killed' = killed \cup ({id[d]} \cap DOMAIN rows)
    BY <1>1, <2>2
  <2>3. QED
    BY <1>3, <2>1, <2>2 DEF Terminate
<1>4. CASE UNCHANGED <<rows, killed>>
  BY <1>4, SameLater
<1>5. QED
  BY <1>2, <1>3, <1>4 DEF Start, Wipe, WipeDirectory, RemoveContainer

LEMMA UpsertLater ==
  ASSUME Typed, NEW d \in Devices, Upsert(d), ~ Insert(d)
  PROVE  Later /\ killed' = killed
<1>1. killed' = killed
  BY DEF Upsert, Guard, AdoptByHash, AdoptByHost, Cleanup, Insert, Fetch, Answer
<1>2. CASE UNCHANGED rows
  BY <1>1, <1>2, SameLater
<1>3. CASE Cleanup(d)
  BY <1>1, <1>3, RemovesLater DEF Cleanup, Removes
<1>4. CASE Fetch(d) /\ ~ UNCHANGED rows
  BY <1>1, <1>4, StatusEdits, EditsLater DEF Fetch
<1>5. QED
  BY <1>2, <1>3, <1>4 DEF Upsert, Guard, AdoptByHash, AdoptByHost, Answer

LEMMA OthersLater ==
  ASSUME Typed,
         (\E i \in Ids : QueueCommand(i) \/ DeleteNode(i) \/ Age(i)) \/ Purge
  PROVE  Later /\ killed' = killed
<1>1. killed' = killed
  BY DEF QueueCommand, DeleteNode, Age, Purge
<1>2. CASE \E i \in Ids : QueueCommand(i)
  BY <1>1, <1>2, StatusEdits, EditsLater DEF QueueCommand
<1>3. CASE \E i \in Ids : DeleteNode(i)
  BY <1>1, <1>3, RemovesLater DEF DeleteNode, Removes
<1>4. CASE \E i \in Ids : Age(i)
  BY <1>1, <1>4 DEF Age, Later, Typed, RowsOK, Row, Ages
<1>5. CASE Purge
  BY <1>1, <1>5, RemovesLater DEF Purge, Removes
<1>6. QED
  BY <1>2, <1>3, <1>4, <1>5

-----------------------------------------------------------------------------
(* One id, one device. *)

Mints(d) == /\ minted \subseteq minted'
            /\ \A i \in Ids, e \in Devices :
                 Claims(e, i)' => \/ Claims(e, i)
                                  \/ e = d /\ i \notin minted /\ i \in minted'

\* Devices get new claims only to ids that nobody had.
LEMMA OwnedKept ==
  ASSUME Owned, NEW d \in Devices, Mints(d),
         \A i \in DOMAIN rows' : rows'[i].hash[1] = rows'[i].from
  PROVE  Owned'
<1>1. ASSUME NEW i \in Ids, NEW e \in Devices, Claims(e, i)'
      PROVE  /\ i \in minted'
             /\ \A f \in Devices : Claims(f, i)' => f = e
  BY <1>1 DEF Owned, Mints
<1>2. QED
  BY <1>1 DEF Owned

\* Without an upsert rows stay with their device, and so do their fingerprints.
LEMMA HashesKept ==
  ASSUME Typed, Owned, Later
  PROVE  \A i \in DOMAIN rows' : rows'[i].hash[1] = rows'[i].from
<1>1. ASSUME NEW i \in DOMAIN rows', rows'[i].hash # rows[i].hash
      PROVE  rows'[i].hash[1] = rows'[i].from
  <2>1. PICK d \in Devices : i = id[d] /\ rows'[i].hash[1] = d
    BY <1>1 DEF Later
  <2>2. i \in Ids /\ rows[i].from \in Devices
    BY <1>1 DEF Typed, RowsOK, Row, Later
  <2>3. Claims(d, i) /\ Claims(rows[i].from, i)
    BY <1>1, <2>1 DEF Claims, Later
  <2>4. QED
    BY <1>1, <2>1, <2>2, <2>3 DEF Owned, Later
<1>2. QED
  BY <1>1 DEF Owned, Later

LEMMA InitOwned == Init => Owned
BY IdsAssumption DEF Init, Owned, Claims, NoPoll

LEMMA DeviceOwned ==
  ASSUME Typed, Owned, NEW d \in Devices,
         \/ Start(d) \/ Wipe(d) \/ ReportStatus(d)
         \/ Terminate(d) \/ WipeDirectory(d) \/ RemoveContainer(d)
  PROVE  Owned'
<1>1. Later
  BY DeviceLater
<1>2. Mints(d)
  <2> USE IdsAssumption DEF Typed, DevicesOK, Mints, Claims
  <2>1. CASE Start(d)
    BY <1>1, <2>1 DEF Start, Later
  <2>2. CASE Wipe(d)
    BY <1>1, <2>2 DEF Wipe, Later
  <2>3. CASE ReportStatus(d)
    BY <1>1, <2>3 DEF ReportStatus, Later
  <2>4. CASE Terminate(d)
    BY <1>1, <2>4 DEF Terminate, Later
  <2>5. CASE WipeDirectory(d)
    BY <1>1, <2>5 DEF WipeDirectory, Later
  <2>6. CASE RemoveContainer(d)
    BY <1>1, <2>6 DEF RemoveContainer, Later
  <2>7. QED
    BY <2>1, <2>2, <2>3, <2>4, <2>5, <2>6
<1>3. QED
  BY <1>1, <1>2, HashesKept, OwnedKept

LEMMA InsertOwned ==
  ASSUME Typed, Owned, NEW d \in Devices, Insert(d)
  PROVE  Owned'
<1> DEFINE i == poll[d].target
           r == [hash |-> Hash(d), from |-> d, age |-> "fresh",
                 terminated |-> i \in DOMAIN rows /\ rows[i].terminated]
<1>1. i \in Ids /\ rows' = With(i, r)
  BY DEF Insert, Typed, PollsOK, PollOK
<1>2. /\ DOMAIN rows' = DOMAIN rows \cup {i} /\ rows'[i] = r
      /\ \A j \in DOMAIN rows : j # i => rows'[j] = rows[j]
  BY <1>1 DEF With
<1>3. /\ \A e \in Devices : poll'[e].target = poll[e].target
      /\ UNCHANGED <<id, file, minted>>
  BY DEF Insert, Typed, PollsOK, Polls
<1>4. Claims(d, i)
  BY DEF Claims
<1>5. Mints(d)
  BY <1>2, <1>3, <1>4 DEF Mints, Claims
<1>6. \A j \in DOMAIN rows' : rows'[j].hash[1] = rows'[j].from
  BY <1>2, HashTyped DEF Owned
<1>7. QED
  BY <1>5, <1>6, OwnedKept

LEMMA UpsertOwned ==
  ASSUME Typed, Owned, NEW d \in Devices, Upsert(d)
  PROVE  Owned'
<1>1. CASE Insert(d)
  BY <1>1, InsertOwned
<1>2. CASE ~ Insert(d)
  <2>1. Later
    BY <1>2, UpsertLater
  <2>2. Mints(d)
    <3> USE IdsAssumption DEF Typed, PollsOK, PollOK, Polls, Mints, Claims
    <3>1. CASE Guard(d)
      BY <2>1, <3>1 DEF Guard, Later
    <3>2. CASE AdoptByHash(d)
      <4>1. \A i \in SameHash(d) : rows[i].from = d
        BY HashTyped DEF SameHash, Owned
      <4>2. QED
        BY <2>1, <3>2, <4>1 DEF AdoptByHash, SameHash, Later
    <3>3. CASE AdoptByHost(d)
      BY <2>1, <3>3 DEF AdoptByHost, SamePlace, LastSeen, Later
    <3>4. CASE Cleanup(d)
      BY <2>1, <3>4 DEF Cleanup, Later
    <3>5. CASE Fetch(d)
      BY <2>1, <3>5 DEF Fetch, Later
    <3>6. CASE Answer(d)
      BY <2>1, <3>6 DEF Answer, NoPoll, Later, DevicesOK
    <3>7. QED
      BY <1>2, <3>1, <3>2, <3>3, <3>4, <3>5, <3>6 DEF Upsert
  <2>3. QED
    BY <2>1, <2>2, HashesKept, OwnedKept
<1>3. QED
  BY <1>1, <1>2

LEMMA OthersOwned ==
  ASSUME Typed, Owned,
         (\E i \in Ids : QueueCommand(i) \/ DeleteNode(i) \/ Age(i)) \/ Purge
  PROVE  Owned'
<1>1. Later
  BY OthersLater
<1>2. UNCHANGED <<id, file, poll, minted>>
  BY DEF QueueCommand, DeleteNode, Age, Purge
<1>3. QED
  BY <1>1, <1>2, HashesKept DEF Owned, Claims, Later

LEMMA StepOwned == Typed /\ Owned /\ [Next]_vars => Owned'
<1> SUFFICES ASSUME Typed, Owned, [Next]_vars PROVE Owned'
  OBVIOUS
<1>1. CASE UNCHANGED vars
  BY <1>1 DEF vars, Owned, Claims
<1>2. QED
  BY <1>1, DeviceOwned, UpsertOwned, OthersOwned DEF Next

\* Two devices never work under one node id: whatever is adopted was written by
\* the device itself (UpsertNode, _adopt_node_id).
THEOREM IdsAreApart == Spec => []NoSharedId
<1>1. Typed /\ Owned => NoSharedId
  BY DEF Typed, DevicesOK, Owned, Claims, NoSharedId
<1>2. QED
  BY <1>1, InitTyped, StepTyped, InitOwned, StepOwned, PTL DEF Spec

-----------------------------------------------------------------------------
(* One device, one row. *)

Single == Marked /\ Alone /\ OneRowPerDevice

LEMMA InitSingle == Init => Single
BY DEF Init, Single, Marked, Alone, OneRowPerDevice, NoPoll

\* Rows that only age and go leave nothing behind that was not there.
LEMMA LaterSingle ==
  ASSUME Single, Later, killed \subseteq killed'
  PROVE  /\ Marked' /\ OneRowPerDevice'
         /\ \A d \in Devices : poll'[d] = poll[d] =>
              /\ Rivals(d)' \subseteq Rivals(d)
              /\ poll[d].target \in killed => poll'[d].target \in killed'
<1>1. Marked'
  BY DEF Single, Marked, Later
<1>2. OneRowPerDevice'
  BY DEF Single, OneRowPerDevice, Later
<1>3. QED
  BY <1>1, <1>2 DEF Rivals, Later

LEMMA IdleSingle ==
  ASSUME Single, Later, killed \subseteq killed', UNCHANGED poll
  PROVE  Single'
<1>1. Alone'
  BY LaterSingle DEF Single, Alone, Later, Rivals
<1>2. QED
  BY <1>1, LaterSingle DEF Single

LEMMA InsertSingle ==
  ASSUME Typed, Owned, Single, NEW d \in Devices, Insert(d)
  PROVE  Single'
<1> DEFINE i == poll[d].target
           r == [hash |-> Hash(d), from |-> d, age |-> "fresh",
                 terminated |-> i \in DOMAIN rows /\ rows[i].terminated]
<1>1. /\ poll[d].pc = "insert" /\ i \in Ids /\ rows' = With(i, r)
      /\ killed' = killed
  BY DEF Insert, Typed, PollsOK, PollOK
<1>2. /\ DOMAIN rows' = DOMAIN rows \cup {i} /\ rows'[i] = r
      /\ \A j \in DOMAIN rows : j # i => rows'[j] = rows[j]
  BY <1>1 DEF With
<1>3. poll' = [poll EXCEPT ![d].pc = "fetch"]
  BY DEF Insert
<1>4. Marked'
  <2>1. ASSUME NEW j \in DOMAIN rows', rows'[j].terminated
        PROVE  j \in DOMAIN rows /\ rows[j].terminated
    <3>1. r.terminated <=> i \in DOMAIN rows /\ rows[i].terminated
      BY Zenon
    <3> HIDE DEF r
    <3>2. QED
      BY <1>2, <2>1, <3>1
  <2>2. QED
    BY <1>1, <2>1 DEF Single, Marked
<1>5. OneRowPerDevice'
  <2>1. ASSUME NEW j \in DOMAIN rows, j # i, rows[j].from = d
        PROVE  i \in killed \/ j \in killed
    BY <1>1, <2>1 DEF Single, Alone, Rivals
  <2>2. rows'[i].from = d
    BY <1>2
  <2> HIDE DEF r
  <2>3. ASSUME NEW j \in DOMAIN rows', NEW k \in DOMAIN rows', j # k,
               rows'[j].from = rows'[k].from
        PROVE  j \in killed \/ k \in killed
    <3>1. CASE j = i
      <4>1. k \in DOMAIN rows /\ rows[k].from = d /\ k # i
        BY <1>2, <2>2, <2>3, <3>1
      <4>2. QED
        BY <2>1, <3>1, <4>1
    <3>2. CASE k = i
      <4>1. j \in DOMAIN rows /\ rows[j].from = d /\ j # i
        BY <1>2, <2>2, <2>3, <3>2
      <4>2. QED
        BY <2>1, <3>2, <4>1
    <3>3. CASE j # i /\ k # i
      <4>1. /\ j \in DOMAIN rows /\ k \in DOMAIN rows
            /\ rows[j].from = rows[k].from
        BY <1>2, <2>3, <3>3
      <4>2. QED
        BY <2>3, <4>1 DEF Single, OneRowPerDevice
    <3>4. QED
      BY <3>1, <3>2, <3>3
  <2>4. QED
    BY <1>1, <2>3 DEF OneRowPerDevice
<1>6. Alone'
  <2>1. ASSUME NEW e \in Devices, e # d
        PROVE  poll'[e] = poll[e] /\ Rivals(e)' \subseteq Rivals(e)
    <3>1. poll'[e] = poll[e]
      BY <1>3, <2>1 DEF Typed, PollsOK
    <3>2. ASSUME NEW j \in DOMAIN rows', rows'[j].from = e
          PROVE  j \in DOMAIN rows /\ rows[j].from = e
      <4>1. r.from = d
        OBVIOUS
      <4> HIDE DEF r
      <4>2. QED
        BY <1>2, <2>1, <3>2, <4>1
    <3>3. Rivals(e)' \subseteq Rivals(e)
      BY <1>1, <3>1, <3>2 DEF Rivals
    <3>4. QED
      BY <3>1, <3>3
  <2>2. ASSUME NEW e \in Devices, e # d, NEW j \in Rivals(e)'
        PROVE  rows'[j] = rows[j]
    BY <1>2, <2>2 DEF Rivals
  <2>3. poll'[d].pc = "fetch"
    BY <1>3 DEF Typed, PollsOK, Polls
  <2>4. QED
    BY <1>1, <2>1, <2>2, <2>3 DEF Single, Alone
<1>7. QED
  BY <1>4, <1>5, <1>6 DEF Single

\* What adoption leaves behind.
LEMMA AdoptSingle ==
  ASSUME Typed, Owned, Single, NEW d \in Devices, AdoptByHash(d) \/ AdoptByHost(d)
  PROVE  Single'
<1>1. UNCHANGED <<rows, killed>>
  BY DEF AdoptByHash, AdoptByHost
<1>2. \A e \in Devices : e # d => poll'[e] = poll[e]
  BY DEF AdoptByHash, AdoptByHost, Typed, PollsOK
<1>3. /\ poll'[d].pc \in {"host", "cleanup"}
      /\ poll'[d].pc = "cleanup" =>
           \/ poll'[d].target \in DOMAIN rows /\ rows[poll'[d].target].from = d
           \/ SamePlace(d) = {} /\ poll'[d].target = poll[d].target
  <2>1. CASE AdoptByHash(d)
    <3>1. \A i \in SameHash(d) : i \in DOMAIN rows /\ rows[i].from = d
      BY HashTyped DEF SameHash, Owned
    <3>2. QED
      BY <2>1, <3>1 DEF AdoptByHash, Typed, PollsOK, Polls
  <2>2. CASE AdoptByHost(d)
    BY <2>2 DEF AdoptByHost, SamePlace, LastSeen, Typed, PollsOK, Polls
  <2>3. QED
    BY <2>1, <2>2
<1>4. ASSUME poll'[d].pc = "cleanup", poll'[d].target \notin killed',
             NEW j \in Rivals(d)'
      PROVE  rows[j].age # "fresh"
  <2>1. /\ j \in DOMAIN rows /\ rows[j].from = d /\ j \notin killed
        /\ j # poll'[d].target
    BY <1>1, <1>4 DEF Rivals
  <2>2. Live(j)
    BY <2>1 DEF Single, Marked, Live
  <2>3. QED
    BY <1>1, <1>3, <1>4, <2>1, <2>2 DEF Single, OneRowPerDevice, SamePlace
<1>5. Alone'
  BY <1>1, <1>2, <1>3, <1>4 DEF Single, Alone, Rivals
<1>6. QED
  BY <1>1, <1>5 DEF Single, Marked, OneRowPerDevice

LEMMA CleanupSingle ==
  ASSUME Typed, Single, NEW d \in Devices, Cleanup(d)
  PROVE  Single'
<1>1. rows' = Without(Ghosts(d)) /\ killed' = killed /\ poll[d].pc = "cleanup"
  BY DEF Cleanup
<1>2. Later
  BY <1>1, RemovesLater DEF Removes
<1>3. /\ \A e \in Devices : e # d => poll'[e] = poll[e]
      /\ poll'[d] = [pc |-> "insert", target |-> poll[d].target]
  BY DEF Cleanup, Typed, PollsOK, Polls
<1>4. ASSUME poll[d].target \notin killed, NEW j \in Rivals(d)'
      PROVE  FALSE
  <2>1. /\ j \in DOMAIN rows /\ rows[j].from = d /\ j \notin killed
        /\ j # poll[d].target /\ j \notin Ghosts(d)
    BY <1>1, <1>3, <1>4 DEF Rivals, Without
  <2>2. rows[j].age # "fresh"
    BY <1>1, <1>4, <2>1 DEF Single, Alone, Rivals
  <2>3. QED
    BY <2>1, <2>2 DEF Ghosts
<1>5. Alone'
  BY <1>1, <1>2, <1>3, <1>4, LaterSingle DEF Single, Alone, Later, Rivals
<1>6. QED
  BY <1>1, <1>2, <1>5, LaterSingle DEF Single

LEMMA UpsertSingle ==
  ASSUME Typed, Owned, Single, NEW d \in Devices, Upsert(d)
  PROVE  Single'
<1>1. CASE Guard(d) \/ Fetch(d) \/ Answer(d)
  <2>1. /\ \A e \in Devices : e # d => poll'[e] = poll[e]
        /\ poll'[d].pc \notin {"cleanup", "insert"}
    BY <1>1 DEF Guard, Fetch, Answer, NoPoll, Typed, PollsOK, Polls
  <2>2. Later /\ killed' = killed
    <3>1. ~ Insert(d) /\ Upsert(d)
      BY <1>1 DEF Upsert, Guard, Fetch, Answer, Insert, NoPoll
    <3>2. QED
      BY <3>1, UpsertLater
  <2>3. Alone'
    BY <2>1, <2>2, LaterSingle DEF Single, Alone, Later, Rivals
  <2>4. QED
    BY <2>2, <2>3, LaterSingle DEF Single
<1>2. QED
  BY <1>1, InsertSingle, AdoptSingle, CleanupSingle DEF Upsert

LEMMA StepSingle == Typed /\ Owned /\ Single /\ [Next]_vars => Single'
<1> SUFFICES ASSUME Typed, Owned, Single, [Next]_vars PROVE Single'
  OBVIOUS
<1>1. CASE UNCHANGED vars
  BY <1>1, SameLater, IdleSingle DEF vars
<1>2. ASSUME NEW d \in Devices,
             \/ Start(d) \/ Wipe(d) \/ ReportStatus(d)
             \/ Terminate(d) \/ WipeDirectory(d) \/ RemoveContainer(d)
      PROVE  Single'
  <2>1. UNCHANGED poll
    BY <1>2 DEF Start, Wipe, ReportStatus, Terminate, WipeDirectory, RemoveContainer
  <2>2. QED
    BY <1>2, <2>1, DeviceLater, IdleSingle
<1>3. ASSUME (\E i \in Ids : QueueCommand(i) \/ DeleteNode(i) \/ Age(i)) \/ Purge
      PROVE  Single'
  <2>1. UNCHANGED poll
    BY <1>3 DEF QueueCommand, DeleteNode, Age, Purge
  <2>2. QED
    BY <1>3, <2>1, OthersLater, IdleSingle
<1>4. QED
  BY <1>1, <1>2, <1>3, UpsertSingle DEF Next

\* A device has one row, however often it was reinstalled, changed its fingerprint
\* or lost an answer; only a row that was terminated may be a second (UpsertNode:
\* both adoptions, the ghost cleanup and the upsert, with anything in between).
THEOREM RowsAreSingle == Spec => []OneRowPerDevice
<1>1. Single => OneRowPerDevice
  BY DEF Single
<1>2. QED
  BY <1>1, InitTyped, StepTyped, InitOwned, StepOwned, InitSingle, StepSingle, PTL
     DEF Spec
=============================================================================
