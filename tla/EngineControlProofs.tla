------------------------- MODULE EngineControlProofs -------------------------
(***************************************************************************)
(* What is proved of EngineControl for any servers, lists and bounds.      *)
(***************************************************************************)
EXTENDS EngineControl, SequenceTheorems, WellFoundedInduction, TLAPS

-----------------------------------------------------------------------------
(* Steps by their kind. *)

\* The steps of update_subscription that use what was fetched.
Late == {"load", "apply_new", "apply_current", "save_loaded"}
Verifies == {"verify", "verify_or_roll_back"}
Guarded  == {"lock", "flock", "funlock", "stop", "start", "start_once", "restart",
             "write", "save_engine", "save_rollback"}
Decides  == {"check", "choose", "reselect", "reselect_if_applied", "keep",
             "fall_back", "see", "applied_anyway", "ensure_defaults",
             "defaults_if_failed", "clean", "restart_agent", "threads"}
Deeds    == Guarded \cup Verifies \cup Late \cup Decides
              \cup {"unlock", "save_manual", "save_smart", "fetch"}
Steps == {s \in [do : Deeds, engine : Engines, config : Files] :
            s.do \in Verifies \cup {"save_manual", "save_smart"} =>
              s.config \in Servers /\ EngineOf(s.config) = s.engine}
Timely   == {s \in Steps : s.do \notin Late \cup {"fetch"}}
\* Those that use a copy of the state that was made when they were planned.
Recalls  == {"keep", "see"}
Ordinary == {s \in Timely : s.do \notin Recalls}
\* What the watchdog does.
Near  == {"write", "stop", "start", "restart"}
Cures == {s \in Steps : s.do \in {"check", "unlock"} \cup Near}

\* There is one fetch at most, the steps that need what it yields follow it
\* closely, and when it is done they have something to work on.
Orderly(q, list) ==
  /\ \A i, j \in 1..Len(q) : q[i].do = "fetch" /\ q[j].do = "fetch" => i = j
  /\ \A i, j \in 1..Len(q) :
       q[i].do = "fetch" /\ q[j].do \in Late => i < j /\ j <= i + 4
  /\ \A j \in 1..Len(q) : q[j].do \in Late =>
       list # <<>> \/ \E i \in 1..Len(q) : q[i].do = "fetch"

\* Who is going to save a copy has it, and does nothing to it before.
Recalled(q, copy) == \A k \in 1..Len(q) : q[k].do \in Recalls =>
  copy # Unread /\ \A j \in 1..Len(q) : j < k => q[j].do \in Near

Forgetful(q) == \A k \in 1..Len(q) : q[k].do \notin Recalls

Listed == /\ todo \in [Threads -> Seq(Steps)] /\ todo["health"] \in Seq(Cures)
          /\ \A t \in Threads : Orderly(todo[t], fetched[t])
Copied == \A t \in Threads : Recalled(todo[t], seen[t])
Typed  == TypeOK /\ loaded \in [Threads -> States] /\ Listed /\ Copied

-----------------------------------------------------------------------------
(* Lemmas about lists. *)

\* Steps put in front of the rest of a list.
LEMMA Spliced ==
  ASSUME NEW S, NEW p \in Seq(S), NEW q \in Seq(S), q # <<>>
  PROVE  /\ p \o Tail(q) \in Seq(S)
         /\ Len(q) \in Nat \ {0} /\ Len(p) \in Nat /\ q[1] \in S
         /\ Len(p \o Tail(q)) = Len(p) + Len(q) - 1
         /\ \A i \in 1..Len(p) : (p \o Tail(q))[i] = p[i]
         /\ \A i \in 2..Len(q) : (p \o Tail(q))[Len(p) + i - 1] = q[i]
         /\ \A i \in (Len(p) + 1)..(Len(p) + Len(q) - 1) :
              (p \o Tail(q))[i] = q[i - Len(p) + 1]
<1>1. Len(q) \in Nat \ {0} /\ Len(p) \in Nat /\ q[1] \in S
  OBVIOUS
<1>2. /\ Tail(q) \in Seq(S) /\ Len(Tail(q)) = Len(q) - 1
      /\ \A i \in 1..(Len(q) - 1) : Tail(q)[i] = q[i + 1]
  OBVIOUS
<1>3. /\ p \o Tail(q) \in Seq(S) /\ Len(p \o Tail(q)) = Len(p) + Len(q) - 1
      /\ \A i \in 1..Len(p) : (p \o Tail(q))[i] = p[i]
      /\ \A i \in (Len(p) + 1)..(Len(p) + Len(q) - 1) :
           (p \o Tail(q))[i] = Tail(q)[i - Len(p)]
  BY <1>1, <1>2
<1>4. ASSUME NEW i \in (Len(p) + 1)..(Len(p) + Len(q) - 1)
      PROVE  (p \o Tail(q))[i] = q[i - Len(p) + 1]
  BY <1>1, <1>2, <1>3
<1>5. ASSUME NEW i \in 2..Len(q) PROVE (p \o Tail(q))[Len(p) + i - 1] = q[i]
  BY <1>1, <1>2, <1>3
<1> QED BY <1>1, <1>3, <1>4, <1>5

LEMMA Joined ==
  ASSUME NEW S, NEW p \in Seq(S), NEW q \in Seq(S)
  PROVE  /\ p \o q \in Seq(S) /\ Len(p \o q) = Len(p) + Len(q)
         /\ \A i \in 1..Len(p) : (p \o q)[i] = p[i]
         /\ \A i \in (Len(p) + 1)..(Len(p) + Len(q)) : (p \o q)[i] = q[i - Len(p)]
OBVIOUS

LEMMA EngineIsOne == \A s : EngineOf(s) \in Engines
BY DEF EngineOf, Engines

LEMMA OtherIsOne == \A e \in Engines : Other(e) \in Engines
BY DEF Other, Engines

Less == {pair \in Nat \X Nat : pair[1] < pair[2]}

LEMMA LessIsWellFounded == IsWellFoundedOn(Less, Nat)
BY NatLessThanWellFounded, Zenon DEF OpToRel, Less

\* The lists that restart a container are made of ordinary steps.
LEMMA PartsAreOrdinary ==
  ASSUME NEW e \in Engines, NEW c \in Files
  PROVE  /\ DockerRestart(e) \in Seq(Ordinary)
         /\ WriteAndRestart(e, c) \in Seq(Ordinary)
         /\ EnsureDefaults(e) \in Seq(Ordinary)
<1>1. /\ "xray" \in Engines /\ "singbox" \in Engines /\ Other(e) \in Engines
      /\ "none" \in Files /\ "dummy" \in Files
  BY OtherIsOne DEF Engines, Files, Configs
<1>2. EnsureDummy \in Seq(Ordinary)
  <2>1. /\ Step("write", "xray", "dummy") \in Ordinary
        /\ \A x \in Engines : On("stop", x) \in Ordinary
        /\ On("start", "xray") \in Ordinary
    BY <1>1, SMT DEF On, Step, Steps, Ordinary, Timely, Recalls, Deeds, Guarded, Decides, Verifies, Late
  <2> QED BY <2>1, <1>1 DEF EnsureDummy
<1>3. DockerRestart(e) \in Seq(Ordinary)
  <2>1. On("restart", e) \in Ordinary
    BY <1>1, SMT DEF On, Step, Steps, Ordinary, Timely, Recalls, Deeds, Guarded, Decides, Verifies, Late
  <2> QED BY <2>1, <1>2 DEF DockerRestart
<1>4. WriteAndRestart(e, c) \in Seq(Ordinary)
  <2>1. /\ Simply("lock") \in Ordinary /\ Simply("flock") \in Ordinary
        /\ On("stop", Other(e)) \in Ordinary /\ Step("write", e, c) \in Ordinary
    BY <1>1, SMT DEF On, Simply, Step, Steps, Ordinary, Timely, Recalls, Deeds, Guarded, Decides, Verifies, Late
  <2> QED BY <2>1, <1>3 DEF WriteAndRestart
<1>5. EnsureDefaults(e) \in Seq(Ordinary)
  <2>1. /\ On("start", "singbox") \in Ordinary /\ On("stop", "singbox") \in Ordinary
        /\ On("start_once", "xray") \in Ordinary
    BY <1>1, SMT DEF On, Step, Steps, Ordinary, Timely, Recalls, Deeds, Guarded, Decides, Verifies, Late
  <2> QED BY <2>1, <1>2 DEF EnsureDefaults
<1> QED BY <1>3, <1>4, <1>5

LEMMA RestartCures ==
  ASSUME NEW e \in Engines
  PROVE  DockerRestart(e) \in Seq(Cures)
<1>1. /\ Step("write", "xray", "dummy") \in Cures
      /\ \A x \in Engines : \A do \in {"stop", "start", "restart"} : On(do, x) \in Cures
  BY SMT DEF On, Step, Steps, Cures, Near, Deeds, Guarded, Decides, Verifies, Late, Engines,
             Files, Configs, Near
<1>2. EnsureDummy \in Seq(Cures)
  BY <1>1 DEF EnsureDummy, Engines
<1> QED BY <1>1, <1>2 DEF DockerRestart

\* The first of the list that belongs to an engine.
LEMMA FirstIs ==
  ASSUME Typed, NEW t \in Threads, NEW e \in Engines
  PROVE  /\ First(t, e) \in Servers \cup {"none"}
         /\ First(t, e) # "none" => EngineOf(First(t, e)) = e
         /\ First(t, e) = "none" =>
              \A i \in 1..Len(fetched[t]) : EngineOf(fetched[t][i]) # e
<1> DEFINE list == fetched[t]
           own  == {i \in 1..Len(list) : EngineOf(list[i]) = e}
<1>1. list \in Seq(Servers) /\ "none" \notin Servers
  BY ServersAssumption DEF Typed, TypeOK
<1>2. ASSUME own # {}
      PROVE  \E i \in own : \A j \in own : i <= j
  <2>1. own \subseteq Nat
    BY <1>1
  <2>2. \E i \in own : \A j \in own : ~ (<<j, i>> \in Less)
    BY <2>1, <1>2, LessIsWellFounded, WFMin, Zenon
  <2>3. PICK i \in own : \A j \in own : ~ (<<j, i>> \in Less)
    BY <2>2
  <2>4. ASSUME NEW j \in own PROVE i <= j
    <3>1. ~ (<<j, i>> \in Less) /\ i \in Nat /\ j \in Nat
      BY <2>1, <2>3
    <3> HIDE DEF own
    <3> QED BY <3>1 DEF Less
  <2> QED BY <2>4
<1>3. CASE own = {}
  BY <1>1, <1>3 DEF First
<1>4. CASE own # {}
  <2>1. PICK i \in own : First(t, e) = list[i]
    BY <1>2, <1>4 DEF First
  <2> QED BY <1>1, <2>1
<1> QED BY <1>3, <1>4

\* The lists that apply a configuration or choose a server.
LEMMA PlaysAreOrdinary ==
  ASSUME NEW s \in Servers, NEW save \in {"save_manual", "save_smart"}
  PROVE  /\ ApplyEngine(EngineOf(s), s) \in Seq(Ordinary)
         /\ SelectServer(s, save) \in Seq(Ordinary)
<1> DEFINE e == EngineOf(s)
<1>1. e \in Engines /\ s \in Files /\ "none" \in Files /\ "xray" \in Engines
  BY EngineIsOne DEF Engines, Files, Configs
<1>2. WriteAndRestart(e, s) \in Seq(Ordinary)
  BY <1>1, PartsAreOrdinary
<1>3. /\ On("save_rollback", e) \in Ordinary /\ On("save_engine", e) \in Ordinary
      /\ Simply("funlock") \in Ordinary /\ Simply("unlock") \in Ordinary
  BY <1>1, SMT DEF On, Simply, Step, Steps, Ordinary, Timely, Recalls, Deeds, Guarded, Decides, Verifies, Late
<1>4. /\ Step("verify", e, s) \in Ordinary /\ Step("verify_or_roll_back", e, s) \in Ordinary
      /\ Step(save, e, s) \in Ordinary
  BY <1>1, SMT DEF On, Simply, Step, Steps, Ordinary, Timely, Recalls, Deeds, Guarded, Decides, Verifies, Late
<1> HIDE DEF e
<1>5. ApplyConfigs(e, s) \in Seq(Ordinary)
  BY <1>2, <1>3, <1>4 DEF ApplyConfigs
<1>6. ApplyOutbound(e, s) \in Seq(Ordinary)
  BY <1>2, <1>3, <1>4 DEF ApplyOutbound
<1>7. ApplyEngine(e, s) \in Seq(Ordinary)
  BY <1>3, <1>5 DEF ApplyEngine
<1>8. SelectServer(s, save) \in Seq(Ordinary)
  BY <1>3, <1>4, <1>6 DEF SelectServer, e
<1> QED BY <1>7, <1>8 DEF e

LEMMA OrdinaryIsStep == /\ Ordinary \subseteq Timely /\ Timely \subseteq Steps
                        /\ Seq(Ordinary) \subseteq Seq(Timely)
                        /\ Seq(Timely) \subseteq Seq(Steps)
<1>1. Ordinary \subseteq Timely /\ Timely \subseteq Steps
  BY DEF Ordinary, Timely
<1> QED BY <1>1

\* Such steps in front of the rest of a list, in the place of a step that does
\* not fetch.
LEMMA SplicedInOrder ==
  ASSUME NEW p \in Seq(Timely), NEW q \in Seq(Steps), q # <<>>, NEW list,
         Orderly(q, list), q[1].do # "fetch"
  PROVE  p \o Tail(q) \in Seq(Steps) /\ Orderly(p \o Tail(q), list)
<1> DEFINE r == p \o Tail(q)
<1>1. /\ r \in Seq(Steps) /\ Len(q) \in Nat \ {0} /\ Len(p) \in Nat
      /\ Len(r) = Len(p) + Len(q) - 1
      /\ \A i \in 1..Len(p) : r[i] = p[i]
      /\ \A i \in (Len(p) + 1)..(Len(p) + Len(q) - 1) : r[i] = q[i - Len(p) + 1]
  BY OrdinaryIsStep, Spliced
<1>2. \A i \in 1..Len(p) : p[i].do \notin Late \cup {"fetch"}
  <2>1. \A i \in 1..Len(p) : p[i] \in Timely
    OBVIOUS
  <2> QED BY <2>1 DEF Timely
<1> HIDE DEF r
<1>3. ASSUME NEW i \in 1..Len(r), r[i].do \in Late \cup {"fetch"}
      PROVE  /\ i - Len(p) + 1 \in 2..Len(q) /\ r[i] = q[i - Len(p) + 1]
  <2>1. ~ (i <= Len(p))
    BY <1>1, <1>2, <1>3
  <2>2. i \in (Len(p) + 1)..(Len(p) + Len(q) - 1) /\ i - Len(p) + 1 \in 2..Len(q)
    BY <1>1, <2>1
  <2> QED BY <1>1, <2>2
<1>4. ASSUME NEW i \in 1..Len(r), NEW j \in 1..Len(r), r[i].do = "fetch"
      PROVE  /\ r[j].do = "fetch" => i = j
             /\ r[j].do \in Late => i < j /\ j <= i + 4
  <2>0. Len(q) \in Nat
    BY <1>1
  <2>1. i - Len(p) + 1 \in 1..Len(q) /\ q[i - Len(p) + 1].do = "fetch"
    <3>1. i - Len(p) + 1 \in 2..Len(q) /\ r[i] = q[i - Len(p) + 1]
      BY <1>3, <1>4
    <3> QED BY <3>1, <2>0, <1>4
  <2>2. ASSUME r[j].do \in Late \cup {"fetch"}
        PROVE  j - Len(p) + 1 \in 1..Len(q) /\ r[j] = q[j - Len(p) + 1]
    <3>1. j - Len(p) + 1 \in 2..Len(q) /\ r[j] = q[j - Len(p) + 1]
      BY <1>3, <2>2
    <3> QED BY <3>1, <2>0
  <2>3. ASSUME r[j].do = "fetch" PROVE i = j
    <3>1. i - Len(p) + 1 = j - Len(p) + 1
      BY <2>1, <2>2, <2>3 DEF Orderly
    <3> QED BY <3>1, <1>1
  <2>4. ASSUME r[j].do \in Late PROVE i < j /\ j <= i + 4
    <3>1. /\ i - Len(p) + 1 < j - Len(p) + 1
          /\ j - Len(p) + 1 <= i - Len(p) + 1 + 4
      BY <2>1, <2>2, <2>4 DEF Orderly
    <3> QED BY <3>1, <1>1
  <2> QED BY <2>3, <2>4
<1>6. ASSUME NEW j \in 1..Len(r), r[j].do \in Late, list = <<>>
      PROVE  \E i \in 1..Len(r) : r[i].do = "fetch"
  <2>1. j - Len(p) + 1 \in 1..Len(q) /\ q[j - Len(p) + 1].do \in Late
    <3>1. j - Len(p) + 1 \in 2..Len(q) /\ r[j] = q[j - Len(p) + 1]
      BY <1>3, <1>6
    <3>2. Len(q) \in Nat
      BY <1>1
    <3> QED BY <3>1, <3>2, <1>6
  <2>2. PICK i \in 1..Len(q) : q[i].do = "fetch"
    BY <2>1, <1>6 DEF Orderly
  <2>3. i \in 2..Len(q)
    BY <2>2, <1>1
  <2>4. Len(p) + i - 1 \in 1..Len(r) /\ r[Len(p) + i - 1].do = "fetch"
    <3>1. /\ Len(p) + i - 1 \in (Len(p) + 1)..(Len(p) + Len(q) - 1)
          /\ (Len(p) + i - 1) - Len(p) + 1 = i /\ Len(p) + i - 1 \in 1..Len(r)
      BY <2>3, <1>1
    <3>2. r[Len(p) + i - 1] = q[i]
      BY <3>1, <1>1
    <3> QED BY <3>1, <3>2, <2>2
  <2> QED BY <2>4
<1>7. Orderly(r, list)
  BY <1>4, <1>6 DEF Orderly
<1> QED BY <1>1, <1>7 DEF r

\* What a fetch leaves of its list.
LEMMA FetchedInOrder ==
  ASSUME NEW q \in Seq(Steps), q # <<>>, NEW old, NEW list,
         Orderly(q, old), q[1].do = "fetch"
  PROVE  /\ Tail(q) \in Seq(Steps)
         /\ list # <<>> => Orderly(Tail(q), list)
         /\ SubSeq(q, 6, Len(q)) \in Seq(Steps)
         /\ Orderly(SubSeq(q, 6, Len(q)), list)
<1>1. /\ Len(q) \in Nat \ {0} /\ Tail(q) \in Seq(Steps)
      /\ Len(Tail(q)) = Len(q) - 1 /\ \A i \in 1..(Len(q) - 1) : Tail(q)[i] = q[i + 1]
  OBVIOUS
<1>2. list # <<>> => Orderly(Tail(q), list)
  BY <1>1 DEF Orderly
<1> DEFINE r == SubSeq(q, 6, Len(q))
<1>3. /\ r \in Seq(Steps) /\ Len(r) \in Nat /\ Len(r) <= Len(q)
      /\ \A i \in 1..Len(r) : i + 5 \in 1..Len(q) /\ r[i] = q[i + 5]
  <2>1. \A i \in 6..Len(q) : q[i] \in Steps
    BY <1>1
  <2> QED BY <2>1, <1>1
<1> HIDE DEF r
<1>4. \A i \in 1..Len(r) : r[i].do \notin Late \cup {"fetch"}
  BY <1>1, <1>3 DEF Orderly
<1>5. Orderly(r, list)
  BY <1>4, <1>3 DEF Orderly
<1> QED BY <1>1, <1>2, <1>3, <1>5 DEF r

LEMMA UpdateIsSteps ==
  /\ UpdateSubscription \in Seq(Steps) /\ Len(UpdateSubscription) = 5
  /\ UpdateSubscription[1].do = "fetch"
  /\ \A i \in 2..5 : UpdateSubscription[i].do \in Late
<1>1. \A do \in Late \cup {"fetch"} : Simply(do) \in Steps /\ Simply(do).do = do
  BY SMT DEF Simply, Step, Steps, Late, Deeds, Guarded, Decides, Verifies, Files,
             Configs, Engines
<1> QED BY <1>1 DEF UpdateSubscription, Late

\* An update between ordinary steps.
LEMMA PlansAreInOrder ==
  ASSUME NEW p \in Seq(Ordinary), NEW r \in Seq(Ordinary), NEW list
  PROVE  /\ p \in Seq(Steps) /\ Orderly(p, list) /\ Forgetful(p)
         /\ p \o (UpdateSubscription \o r) \in Seq(Steps)
         /\ Orderly(p \o (UpdateSubscription \o r), list)
         /\ Forgetful(p \o (UpdateSubscription \o r))
<1>1. /\ \A i \in 1..Len(p) : p[i].do \notin Late \cup {"fetch"} \cup Recalls
      /\ \A i \in 1..Len(r) : r[i].do \notin Late \cup {"fetch"} \cup Recalls
  <2>1. /\ \A i \in 1..Len(p) : p[i] \in Ordinary
        /\ \A i \in 1..Len(r) : r[i] \in Ordinary
    OBVIOUS
  <2> QED BY <2>1 DEF Ordinary, Timely
<1>2. p \in Seq(Steps) /\ r \in Seq(Steps) /\ Len(p) \in Nat /\ Len(r) \in Nat
  BY OrdinaryIsStep
<1> DEFINE u == UpdateSubscription
<1>3. /\ u \in Seq(Steps) /\ Len(u) = 5
      /\ u[1].do = "fetch" /\ \A i \in 2..5 : u[i].do \in Late
  BY UpdateIsSteps
<1> HIDE DEF u
<1> DEFINE w == p \o (u \o r)
<1>4. /\ w \in Seq(Steps) /\ Len(w) = Len(p) + 5 + Len(r)
      /\ \A i \in 1..Len(p) : w[i] = p[i]
      /\ \A i \in 1..5 : w[Len(p) + i] = u[i]
      /\ \A i \in (Len(p) + 6)..Len(w) : w[i] = r[i - Len(p) - 5]
  <2>1. /\ u \o r \in Seq(Steps) /\ Len(u \o r) = 5 + Len(r)
        /\ \A i \in 1..5 : (u \o r)[i] = u[i]
        /\ \A i \in 6..(5 + Len(r)) : (u \o r)[i] = r[i - 5]
    <3>1. /\ u \o r \in Seq(Steps) /\ Len(u \o r) = Len(u) + Len(r)
          /\ \A i \in 1..Len(u) : (u \o r)[i] = u[i]
          /\ \A i \in (Len(u) + 1)..(Len(u) + Len(r)) : (u \o r)[i] = r[i - Len(u)]
      BY <1>2, <1>3, Joined, Zenon
    <3> QED BY <1>2, <1>3, <3>1
  <2>2. /\ w \in Seq(Steps) /\ Len(w) = Len(p) + 5 + Len(r)
        /\ \A i \in 1..Len(p) : w[i] = p[i]
        /\ \A i \in (Len(p) + 1)..Len(w) : w[i] = (u \o r)[i - Len(p)]
    <3> DEFINE z == u \o r
    <3>1. z \in Seq(Steps) /\ Len(z) = 5 + Len(r)
      BY <2>1
    <3> HIDE DEF z
    <3>2. /\ p \o z \in Seq(Steps) /\ Len(p \o z) = Len(p) + Len(z)
          /\ \A i \in 1..Len(p) : (p \o z)[i] = p[i]
          /\ \A i \in (Len(p) + 1)..(Len(p) + Len(z)) : (p \o z)[i] = z[i - Len(p)]
      <4> HIDE DEF w
      <4>1. p \in Seq(Steps)
        BY <1>2
      <4> QED BY <4>1, <3>1
    <3> QED BY <1>2, <3>1, <3>2 DEF z, w
  <2> HIDE DEF w
  <2>3. ASSUME NEW i \in 1..5 PROVE w[Len(p) + i] = u[i]
    <3> DEFINE k == Len(p) + i
    <3>1. k \in (Len(p) + 1)..Len(w) /\ k - Len(p) = i
      BY <1>2, <2>2
    <3> HIDE DEF k
    <3>2. w[k] = (u \o r)[i]
      BY <2>2, <3>1
    <3> QED BY <2>1, <3>2 DEF k
  <2>4. ASSUME NEW i \in (Len(p) + 6)..Len(w) PROVE w[i] = r[i - Len(p) - 5]
    <3>1. /\ i \in (Len(p) + 1)..Len(w) /\ i - Len(p) \in 6..(5 + Len(r))
          /\ i - Len(p) - 5 = (i - Len(p)) - 5
      BY <1>2, <2>2
    <3>2. w[i] = (u \o r)[i - Len(p)]
      BY <2>2, <3>1
    <3> QED BY <2>1, <3>1, <3>2
  <2> QED BY <2>2, <2>3, <2>4
<1> HIDE DEF w
<1>5. ASSUME NEW i \in 1..Len(w)
      PROVE  /\ w[i].do = "fetch" <=> i = Len(p) + 1
             /\ w[i].do \in Late => i \in (Len(p) + 2)..(Len(p) + 5)
             /\ w[i].do \notin Recalls
  <2>0. "fetch" \notin Late /\ "fetch" \notin Recalls /\ Late \cap Recalls = {}
    BY DEF Late, Recalls
  <2>1. CASE i \in 1..Len(p)
    <3>1. w[i] = p[i] /\ i # Len(p) + 1
      BY <2>1, <1>2, <1>4
    <3>2. w[i].do \notin Late \cup {"fetch"} \cup Recalls
      BY <2>1, <3>1, <1>1
    <3> QED BY <3>1, <3>2
  <2>2. CASE i \in (Len(p) + 1)..(Len(p) + 5)
    <3>1. i - Len(p) \in 1..5 /\ w[i] = u[i - Len(p)]
      BY SMTT(30), <2>2, <1>2, <1>4
    <3>2. CASE i = Len(p) + 1
      BY <3>1, <3>2, <2>0, <1>2, <1>3
    <3>3. CASE i # Len(p) + 1
      BY SMTT(30), <3>1, <3>3, <2>0, <2>2, <1>2, <1>3
    <3> QED BY <3>2, <3>3
  <2>3. CASE i \in (Len(p) + 6)..Len(w)
    <3>1. i - Len(p) - 5 \in 1..Len(r) /\ w[i] = r[i - Len(p) - 5] /\ i # Len(p) + 1
      BY <2>3, <1>2, <1>4
    <3>2. w[i].do \notin Late \cup {"fetch"} \cup Recalls
      BY <3>1, <1>1
    <3> QED BY <3>1, <3>2
  <2> QED BY <2>1, <2>2, <2>3, <1>2, <1>4
<1>6. Orderly(w, list)
  <2>1. Len(p) + 1 \in 1..Len(w) /\ w[Len(p) + 1].do = "fetch"
    BY <1>2, <1>4, <1>5
  <2>2. ASSUME NEW i \in 1..Len(w), NEW j \in 1..Len(w), w[i].do = "fetch"
        PROVE  /\ w[j].do = "fetch" => i = j
               /\ w[j].do \in Late => i < j /\ j <= i + 4
    <3>1. i = Len(p) + 1
      BY <2>2, <1>5
    <3> QED BY <3>1, <1>2, <1>5
  <2> QED BY <2>1, <2>2 DEF Orderly
<1>7. Orderly(p, list) /\ Forgetful(p) /\ Forgetful(w)
  BY <1>1, <1>5 DEF Orderly, Forgetful
<1> QED BY <1>2, <1>4, <1>6, <1>7 DEF w, u

-----------------------------------------------------------------------------
(* Types. *)

\* The step at the head of a list.
LEMMA Heads ==
  ASSUME Typed, NEW t \in Threads, todo[t] # <<>>
  PROVE  /\ todo[t] \in Seq(Steps) /\ todo[t][1] \in Steps
         /\ t = "health" => todo[t][1] \in Cures
         /\ todo[t][1].do \in Deeds /\ todo[t][1].engine \in Engines
         /\ todo[t][1].config \in Files
         /\ todo[t][1].do \in Late => fetched[t] # <<>>
<1>1. todo[t] \in Seq(Steps) /\ Orderly(todo[t], fetched[t])
  BY DEF Typed, Listed
<1>2. todo[t][1] \in Steps /\ Len(todo[t]) \in Nat \ {0}
  BY <1>1
<1>3. t = "health" => todo[t][1] \in Cures
  BY DEF Typed, Listed
<1>4. todo[t][1].do \in Late => fetched[t] # <<>>
  BY <1>1, <1>2 DEF Orderly
<1> QED BY <1>1, <1>2, <1>3, <1>4 DEF Steps

\* A step is done and its branch put in front.
LEMMA Moving ==
  ASSUME Typed, NEW t \in Threads, NEW p \in Seq(Timely), todo[t] # <<>>,
         todo[t][1].do # "fetch", Then(t, p), UNCHANGED fetched,
         t = "health" => p \in Seq(Cures)
  PROVE  Listed'
<1>1. todo[t] \in Seq(Steps) /\ Orderly(todo[t], fetched[t])
  BY DEF Typed, Listed
<1>2. p \o Tail(todo[t]) \in Seq(Steps) /\ Orderly(p \o Tail(todo[t]), fetched[t])
  BY <1>1, SplicedInOrder
<1>3. /\ todo \in [Threads -> Seq(Steps)] /\ "health" \in Threads
      /\ todo' = [todo EXCEPT ![t] = p \o Tail(todo[t])]
  BY DEF Typed, Listed, Then, Threads
<1>4. todo' \in [Threads -> Seq(Steps)]
  BY <1>2, <1>3
<1>5. todo'["health"] \in Seq(Cures)
  <2>1. CASE t = "health"
    <3>1. todo[t] \in Seq(Cures) /\ Tail(todo[t]) \in Seq(Cures)
      BY <2>1 DEF Typed, Listed
    <3>2. p \o Tail(todo[t]) \in Seq(Cures)
      BY <2>1, <3>1
    <3> QED BY <2>1, <1>3, <3>2
  <2>2. CASE t # "health"
    BY <2>2, <1>3 DEF Typed, Listed
  <2> QED BY <2>1, <2>2
<1>6. \A u \in Threads : Orderly(todo'[u], fetched[u])
  BY <1>2, <1>3 DEF Typed, Listed
<1>7. \A u \in Threads : Orderly(todo'[u], fetched'[u])
  BY <1>6
<1> QED BY <1>4, <1>5, <1>7 DEF Listed

\* A step that has no branch.
LEMMA Passing ==
  ASSUME Typed, NEW t \in Threads, todo[t] # <<>>, todo[t][1].do # "fetch",
         Done(t), UNCHANGED fetched
  PROVE  Listed'
<1>1. <<>> \in Seq(Timely) /\ <<>> \in Seq(Cures)
  OBVIOUS
<1> QED BY <1>1, Moving DEF Done

\* Who recalls nothing may have any copy; and nothing is recalled behind a step
\* that does not come near.
LEMMA Recalling ==
  ASSUME NEW p \in Seq(Ordinary), NEW q \in Seq(Steps), q # <<>>, NEW copy,
         Recalled(q, copy), NEW new,
         q[1].do \in Near => p = <<>> /\ new = copy
  PROVE  Recalled(p \o Tail(q), new)
<1> DEFINE r == p \o Tail(q)
<1>1. /\ Len(q) \in Nat \ {0} /\ Len(p) \in Nat
      /\ Len(r) = Len(p) + Len(q) - 1
      /\ \A i \in 1..Len(p) : r[i] = p[i]
      /\ \A i \in (Len(p) + 1)..(Len(p) + Len(q) - 1) : r[i] = q[i - Len(p) + 1]
  BY OrdinaryIsStep, Spliced
<1>2. \A i \in 1..Len(p) : p[i].do \notin Recalls
  <2>1. \A i \in 1..Len(p) : p[i] \in Ordinary
    OBVIOUS
  <2> QED BY <2>1 DEF Ordinary
<1>3. p = <<>> => Len(p) = 0
  OBVIOUS
<1> HIDE DEF r
<1>4. ASSUME NEW k \in 1..Len(r), r[k].do \in Recalls
      PROVE  new # Unread /\ \A j \in 1..Len(r) : j < k => r[j].do \in Near
  <2>1. k \in (Len(p) + 1)..(Len(p) + Len(q) - 1)
    BY <1>1, <1>2, <1>4
  <2> DEFINE m == k - Len(p) + 1
  <2>2. m \in 1..Len(q) /\ 1 < m /\ r[k] = q[m]
    BY <2>1, <1>1
  <2>3. copy # Unread /\ \A j \in 1..Len(q) : j < m => q[j].do \in Near
    <3> HIDE DEF m
    <3>1. q[m].do \in Recalls
      BY <2>2, <1>4
    <3> QED BY <3>1, <2>2 DEF Recalled
  <2>4. q[1].do \in Near
    BY <2>2, <2>3, <1>1
  <2>5. ASSUME NEW j \in 1..Len(r), j < k PROVE r[j].do \in Near
    <3>1. Len(p) = 0 /\ Len(r) = Len(q) - 1
      BY <2>4, <1>1, <1>3
    <3>2. r[j] = q[j + 1]
      <4>1. j \in (Len(p) + 1)..(Len(p) + Len(q) - 1) /\ j - Len(p) + 1 = j + 1
        BY <3>1, <1>1
      <4> QED BY <4>1, <1>1
    <3>3. j + 1 \in 1..Len(q) /\ j + 1 < m
      BY <3>1, <2>5, <1>1
    <3> QED BY <3>2, <3>3, <2>3
  <2> QED BY <2>3, <2>4, <2>5
<1>5. Recalled(r, new)
  BY <1>4 DEF Recalled
<1> QED BY <1>5 DEF r

\* The same of the list of a thread.
LEMMA Copying ==
  ASSUME Typed, NEW t \in Threads, todo[t] # <<>>, NEW p \in Seq(Ordinary), Then(t, p),
         \A u \in Threads : u # t => seen'[u] = seen[u],
         todo[t][1].do \in Near => p = <<>> /\ seen'[t] = seen[t]
  PROVE  Copied'
<1>1. /\ todo \in [Threads -> Seq(Steps)]
      /\ \A u \in Threads : Recalled(todo[u], seen[u])
  BY DEF Typed, Listed, Copied
<1>2. todo' = [todo EXCEPT ![t] = p \o Tail(todo[t])]
  BY DEF Then
<1>3. Recalled(p \o Tail(todo[t]), seen'[t])
  BY <1>1, Recalling
<1>4. ASSUME NEW u \in Threads PROVE Recalled(todo'[u], seen'[u])
  <2>1. CASE u = t
    <3>1. todo'[u] = p \o Tail(todo[t])
      BY <2>1, <1>1, <1>2
    <3> QED BY <3>1, <2>1, <1>3
  <2>2. CASE u # t
    <3>1. todo'[u] = todo[u] /\ seen'[u] = seen[u]
      BY <2>2, <1>1, <1>2
    <3> QED BY <3>1, <1>1
  <2> QED BY <2>1, <2>2
<1> QED BY <1>4 DEF Copied

\* The same of a thread that takes no branch.
LEMMA CopyingOn ==
  ASSUME Typed, NEW t \in Threads, todo[t] # <<>>, Done(t),
         \A u \in Threads : u # t => seen'[u] = seen[u],
         todo[t][1].do \in Near => seen'[t] = seen[t]
  PROVE  Copied'
<1>1. <<>> \in Seq(Ordinary)
  OBVIOUS
<1> QED BY <1>1, Copying DEF Done

\* What is read of the state file, and what is left there.
LEMMA ViewsAre ==
  ASSUME NEW s \in States, NEW t
  PROVE  OrBlank(t, s) \subseteq States
BY DEF OrBlank, Blank, States, Engines

LEMMA Lost ==
  ASSUME lost \in BOOLEAN
  PROVE  /\ \A found : View(found) => lost' \in BOOLEAN
         /\ \A t, new, stale : Save(t, new, stale) => lost' \in BOOLEAN
BY Zenon DEF View, Save

LEMMA Saved ==
  ASSUME NEW t, NEW new \in States, NEW stale, Save(t, new, stale)
  PROVE  state' \in States
BY ViewsAre DEF Save

LEMMA UnreadIsNone == Unread \notin States
BY DEF Unread, States, Engines

\* A thread that recalls has a copy.
LEMMA CopyIs ==
  ASSUME Typed, NEW t \in Threads, todo[t] # <<>>,
         todo[t][1].do \in Recalls \/ seen[t] # Unread
  PROVE  seen[t] \in States
<1>1. /\ todo[t] \in Seq(Steps) /\ Recalled(todo[t], seen[t])
      /\ seen[t] \in States \cup {Unread}
  BY DEF Typed, TypeOK, Listed, Copied, Savers
<1>2. 1 \in 1..Len(todo[t])
  BY <1>1
<1> QED BY <1>1, <1>2 DEF Recalled

\* Who takes a copy or drops it leaves the others theirs.
LEMMA CopiesOf ==
  ASSUME Typed, NEW u \in Savers, NEW copy \in States \cup {Unread},
         seen' = [seen EXCEPT ![u] = copy]
  PROVE  /\ seen' \in [Savers -> States \cup {Unread}]
         /\ seen'[u] = copy /\ \A v \in Threads : v # u => seen'[v] = seen[v]
BY DEF Typed, TypeOK, Savers

\* What the containers may be found in.
LEMMA BoxesStay ==
  ASSUME Typed, NEW e \in Engines, NEW how \in {"stopped", "crashed"}
  PROVE  Down(e, how) \in [Engines -> Boxes] /\ Up(e) \in [Engines -> Boxes]
<1>1. /\ box \in [Engines -> Boxes] /\ disk \in [Engines -> Files]
      /\ Engines = {"xray", "singbox"} /\ {"stopped", "crashed"} \subseteq Boxes
  BY DEF Typed, TypeOK, Engines, Boxes
<1>2. \A h \in {"stopped", "crashed"} : Down(e, h) \in [Engines -> Boxes]
  BY <1>1 DEF Down
<1>3. Runnable(e, disk[e]) => disk[e] \in Boxes
  BY <1>1 DEF Runnable, Boxes, Configs
<1> QED BY <1>1, <1>2, <1>3 DEF Up

\* The programs of main and of an OTA.
LEMMA BootIsInOrder ==
  /\ StartAgent \o Boot \in Seq(Steps) /\ Refresh \in Seq(Steps)
  /\ \A list : Orderly(StartAgent \o Boot, list) /\ Orderly(Refresh, list)
  /\ Forgetful(StartAgent \o Boot) /\ Forgetful(Refresh)
<1>1. /\ On("stop", "singbox") \in Ordinary /\ On("stop", "xray") \in Ordinary
      /\ \A do \in Decides \ Recalls : Simply(do) \in Ordinary
  BY SMT DEF On, Simply, Step, Steps, Ordinary, Timely, Recalls, Deeds, Guarded, Decides, Verifies, Late,
             Engines, Files, Configs
<1>2. StartAgent \in Seq(Ordinary)
  BY <1>1 DEF StartAgent, Decides, Recalls
<1>3. <<Simply("reselect"), Simply("fall_back"), Simply("defaults_if_failed")>>
        \in Seq(Ordinary)
  BY <1>1 DEF Decides, Recalls
<1>4. /\ <<Simply("clean")>> \in Seq(Ordinary)
      /\ <<Simply("defaults_if_failed"), Simply("reselect_if_applied"),
           Simply("restart_agent")>> \in Seq(Ordinary)
  BY <1>1 DEF Decides, Recalls
<1>5. /\ StartAgent \o Boot \in Seq(Steps) /\ Forgetful(StartAgent \o Boot)
      /\ \A list : Orderly(StartAgent \o Boot, list)
  BY <1>2, <1>3, PlansAreInOrder DEF Boot
<1>6. Refresh \in Seq(Steps) /\ Forgetful(Refresh) /\ \A list : Orderly(Refresh, list)
  <2> DEFINE p == <<Simply("clean")>>
             r == <<Simply("defaults_if_failed"), Simply("reselect_if_applied"),
                    Simply("restart_agent")>>
  <2>1. p \in Seq(Ordinary) /\ r \in Seq(Ordinary)
    BY <1>4
  <2>2. Refresh = (p \o UpdateSubscription) \o r
    BY DEF Refresh
  <2> HIDE DEF p, r
  <2>3. p \in Seq(Steps) /\ r \in Seq(Steps) /\ UpdateSubscription \in Seq(Steps)
    BY <2>1, OrdinaryIsStep, UpdateIsSteps
  <2>4. Refresh = p \o (UpdateSubscription \o r)
    <3>1. ASSUME NEW a \in Seq(Steps), NEW b \in Seq(Steps), NEW c \in Seq(Steps)
          PROVE  (a \o b) \o c = a \o (b \o c)
      BY ConcatAssociative
    <3>2. \A a, b, c \in Seq(Steps) : (a \o b) \o c = a \o (b \o c)
      BY <3>1
    <3> QED BY <2>2, <2>3, <3>2
  <2> QED BY <2>1, <2>4, PlansAreInOrder
<1> QED BY <1>5, <1>6

LEMMA TypedInit == Init => Typed
<1> SUFFICES ASSUME Init PROVE Typed
  OBVIOUS
<1>1. /\ Engines = {"xray", "singbox"} /\ {"worker", "health"} \subseteq Threads
      /\ \A e \in Engines : e \in Engines
      /\ {"none", "default"} \subseteq Files /\ {"default", "stopped"} \subseteq Boxes
  BY DEF Engines, Threads, Files, Boxes, Configs
<1>2. <<>> \in Lists /\ Len(<<>>) = 0
  BY ServersAssumption
<1>3. state \in States /\ seen \in [Savers -> States \cup {Unread}]
  BY <1>1 DEF Init, States, Blank
<1>4. TypeOK
  <2>1. ops \in 0..MaxOps /\ incidents \in 0..MaxIncidents
    BY BoundsAssumption DEF Init
  <2>2. bench \in {Len(l) : l \in Lists}
    BY <1>2 DEF Init
  <2>3. disk \in [Engines -> Files] /\ rollback \in [Engines -> Files]
        /\ box \in [Engines -> Boxes]
    BY <1>1 DEF Init
  <2> QED BY <1>1, <1>2, <1>3, <2>1, <2>2, <2>3 DEF Init, TypeOK
<1>5. /\ StartAgent \o Boot \in Seq(Steps) /\ Forgetful(StartAgent \o Boot)
      /\ \A l : Orderly(StartAgent \o Boot, l)
  BY BootIsInOrder
<1>6. Listed
  <2>1. <<>> \in Seq(Steps) /\ <<>> \in Seq(Cures) /\ \A l : Orderly(<<>>, l)
    BY DEF Orderly
  <2> QED BY <1>1, <1>5, <2>1 DEF Init, Listed
<1>7. loaded \in [Threads -> States]
  BY <1>3 DEF Init
<1>8. Copied
  BY <1>5 DEF Init, Copied, Recalled, Forgetful
<1> QED BY <1>4, <1>6, <1>7, <1>8 DEF Typed

\* The steps that may belong to any thread and need nothing but their types.
LEMMA TypedWork ==
  ASSUME Typed, NEW t \in Threads,
         \/ LockEngine(t) \/ LockFile(t) \/ UnlockFile(t) \/ UnlockEngine(t)
         \/ StopContainer(t) \/ RunContainer(t) \/ FailDocker(t) \/ WriteConfig(t)
         \/ SaveServer(t) \/ SaveRollback(t) \/ Verify(t)
         \/ AppliedAnyway(t) \/ AlreadyApplied(t) \/ Clean(t) \/ StartThreads(t)
  PROVE  Typed'
<1> DEFINE now == todo[t][1]
<1>1. /\ todo[t] # <<>> /\ now.do # "fetch" /\ Done(t) /\ UNCHANGED <<fetched, seen>>
  BY DEF LockEngine, LockFile, UnlockFile, UnlockEngine, StopContainer, RunContainer,
         FailDocker, WriteConfig, SaveServer, SaveRollback, Verify, AppliedAnyway,
         AlreadyApplied, Clean, StartThreads, Does, local, update, past, count, files,
         others
<1>2. Listed' /\ Copied'
  BY <1>1, Passing, CopyingOn
<1>3. /\ now \in Steps /\ now.engine \in Engines /\ now.config \in Files
      /\ t = "health" => now \in Cures
  BY <1>1, Heads
<1>4. CASE LockEngine(t)
  <2>1. lock' \in {"free", "worker", "health"}
    BY <1>4 DEF LockEngine, Threads, Typed, TypeOK
  <2> QED BY <1>2, <1>4, <2>1
          DEF LockEngine, Typed, TypeOK, files, others, local, update, past, count
<1>5. CASE LockFile(t)
  <2>1. t # "health"
    BY <1>3, <1>5 DEF LockFile, Does, Cures, Near
  <2>2. flock' \in {"free", "worker"} \cup Outsiders
    BY <1>5, <2>1 DEF LockFile, Threads, Typed, TypeOK
  <2>3. incidents' \in 0..MaxIncidents
    BY <1>5, BoundsAssumption DEF LockFile, Incident, Typed, TypeOK
  <2> QED BY <1>2, <1>5, <2>2, <2>3
          DEF LockFile, Typed, TypeOK, files, others, local, update
<1>6. CASE UnlockFile(t)
  <2>1. flock' \in {"free", "worker"} \cup Outsiders
    BY <1>6 DEF UnlockFile, Typed, TypeOK
  <2> QED BY <1>2, <1>6, <2>1
          DEF UnlockFile, Typed, TypeOK, files, others, local, update, past, count
<1>7. CASE UnlockEngine(t)
  <2>1. lock' \in {"free", "worker", "health"}
    BY <1>7 DEF UnlockEngine, Typed, TypeOK
  <2> QED BY <1>2, <1>7, <2>1
          DEF UnlockEngine, Typed, TypeOK, files, others, local, update, past, count
<1>8. CASE StopContainer(t)
  <2>1. box' \in [Engines -> Boxes]
    BY <1>3, <1>8, BoxesStay DEF StopContainer, Now
  <2> QED BY <1>2, <1>8, <2>1
          DEF StopContainer, Typed, TypeOK, files, others, locks, local, update, past, count
<1>9. CASE RunContainer(t) \/ FailDocker(t)
  <2>1. box' \in [Engines -> Boxes]
    <3>1. /\ box \in [Engines -> Boxes] /\ Up(now.engine) \in [Engines -> Boxes]
          /\ \A how \in {"stopped", "crashed"} : Down(now.engine, how) \in [Engines -> Boxes]
      BY <1>3, BoxesStay DEF Typed, TypeOK
    <3>2. \/ box' = box \/ box' = Up(now.engine)
          \/ \E how \in {"stopped", "crashed"} : box' = Down(now.engine, how)
      BY <1>9 DEF RunContainer, FailDocker, Now
    <3> QED BY <3>1, <3>2
  <2>2. incidents' \in 0..MaxIncidents /\ failed' \in BOOLEAN
    <3>1. UNCHANGED incidents \/ Incident
      BY <1>9 DEF RunContainer, FailDocker
    <3>2. failed' \in {failed, TRUE}
      BY <1>9 DEF RunContainer, FailDocker
    <3>3. incidents' \in 0..MaxIncidents
      BY <3>1, BoundsAssumption DEF Incident, Typed, TypeOK
    <3> QED BY <3>2, <3>3 DEF Typed, TypeOK
  <2> QED BY <1>2, <1>9, <2>1, <2>2
          DEF RunContainer, FailDocker, Typed, TypeOK, files, others, locks, local, update
<1>10. CASE WriteConfig(t)
  <2>1. disk' \in [Engines -> Files]
    BY <1>3, <1>10 DEF WriteConfig, Now, Typed, TypeOK
  <2> QED BY <1>2, <1>10, <2>1
          DEF WriteConfig, Typed, TypeOK, locks, local, update, past, count
<1>11. CASE SaveServer(t)
  <2> DEFINE new == [engine |-> now.engine, server |-> now.config,
                     mode |-> IF Does(t, "save_smart") THEN "smart" ELSE "manual"]
  <2>1. now.config \in Servers
    BY <1>3, <1>11 DEF SaveServer, Does, Steps
  <2>2. new \in States
    BY <1>3, <2>1 DEF States
  <2>3. Save(t, new, FALSE)
    BY <1>11 DEF SaveServer, Now
  <2>4. state' \in States /\ lost' \in BOOLEAN
    <3> HIDE DEF new
    <3> QED BY <2>2, <2>3, Saved, Lost DEF Typed, TypeOK
  <2> QED BY <1>2, <1>11, <2>4
          DEF SaveServer, Typed, TypeOK, others, locks, local, update, count
<1>12. CASE SaveRollback(t)
  <2>1. rollback' \in [Engines -> Files]
    BY <1>3, <1>12 DEF SaveRollback, Now, Typed, TypeOK
  <2> QED BY <1>2, <1>12, <2>1
          DEF SaveRollback, Typed, TypeOK, locks, local, update, past, count
<1>13. CASE Verify(t)
  <2>1. now.config \in Servers
    BY <1>3, <1>13 DEF Verify, Does, Steps, Verifies
  <2>2. lkg' \in Servers \cup {"none"}
    BY <1>13, <2>1 DEF Verify, Now, Typed, TypeOK
  <2>3. lost' \in BOOLEAN
    BY <1>13, Lost DEF Verify, Typed, TypeOK
  <2> QED BY <1>2, <1>13, <2>2, <2>3
          DEF Verify, Typed, TypeOK, locks, local, update, count
<1>14. CASE AppliedAnyway(t)
  BY <1>2, <1>14 DEF AppliedAnyway, Typed, TypeOK, files, others, locks, past, count
<1>15. CASE AlreadyApplied(t)
  BY <1>2, <1>15
     DEF AlreadyApplied, Typed, TypeOK, files, others, locks, local, update, past, count
<1>16. CASE Clean(t)
  <2>1. <<>> \in Lists /\ Len(<<>>) = 0
    BY ServersAssumption
  <2>2. "none" \in Files
    BY DEF Files
  <2> QED BY <1>2, <1>16, <2>1, <2>2
          DEF Clean, Typed, TypeOK, local, update, past, count
<1>17. CASE StartThreads(t)
  BY <1>2, <1>17
     DEF StartThreads, Typed, TypeOK, files, others, locks, local, update, past, count
<1> QED BY <1>4, <1>5, <1>6, <1>7, <1>8, <1>9, <1>10, <1>11, <1>12, <1>13, <1>14,
           <1>15, <1>16, <1>17

\* The steps that save a copy of the state, or see whether it was worth it.
LEMMA TypedCopies ==
  ASSUME Typed, NEW t \in Threads,
         SaveEngine(t) \/ KeepServer(t) \/ SeeFallBack(t)
  PROVE  Typed'
<1> DEFINE now == todo[t][1]
<1>1. /\ todo[t] # <<>> /\ now.do # "fetch" /\ now.do \notin Near
      /\ Done(t) /\ UNCHANGED fetched /\ Forget(t)
      /\ now.do \in Recalls \/ seen[t] # Unread
  BY DEF SaveEngine, KeepServer, SeeFallBack, Does, local, update, Near, Recalls
<1>2. /\ now.engine \in Engines /\ seen[t] \in States /\ state \in States
      /\ lost \in BOOLEAN /\ t \in Savers
  BY <1>1, Heads, CopyIs DEF Typed, TypeOK, Savers
<1>3. /\ seen' \in [Savers -> States \cup {Unread}]
      /\ \A u \in Threads : u # t => seen'[u] = seen[u]
  BY <1>1, <1>2, CopiesOf DEF Forget
<1>4. Listed' /\ Copied'
  BY <1>1, <1>3, Passing, CopyingOn
<1>5. ASSUME NEW new \in States, NEW stale, Save(t, new, stale)
      PROVE  state' \in States /\ lost' \in BOOLEAN
  BY <1>2, <1>5, Saved, Lost
<1>6. CASE SaveEngine(t)
  <2> DEFINE new == [seen[t] EXCEPT !.engine = now.engine]
  <2>1. new \in States /\ Save(t, new, seen[t] # state)
    BY <1>2, <1>6 DEF SaveEngine, Now, States
  <2>2. state' \in States /\ lost' \in BOOLEAN
    <3> HIDE DEF new
    <3> QED BY <2>1, <1>5
  <2> QED BY <1>3, <1>4, <1>6, <2>2
          DEF SaveEngine, Typed, TypeOK, others, locks, update, count
<1>7. CASE KeepServer(t)
  <2> DEFINE new == [seen[t] EXCEPT !.mode = "smart"]
  <2>1. new \in States /\ Save(t, new, seen[t] # state)
    BY <1>2, <1>7 DEF KeepServer, States
  <2>2. state' \in States /\ lost' \in BOOLEAN
    <3> HIDE DEF new
    <3> QED BY <2>1, <1>5
  <2> QED BY <1>3, <1>4, <1>7, <2>2
          DEF KeepServer, Typed, TypeOK, others, locks, update, count
<1>8. CASE SeeFallBack(t)
  <2> DEFINE new == [seen[t] EXCEPT !.engine = now.engine]
  <2>1. PICK found : /\ applied' = [applied EXCEPT ![t] = Healthy(found)]
                     /\ IF Healthy(found)
                          THEN Save(t, new, found # state \/ seen[t] # state)
                          ELSE View(found) /\ UNCHANGED state
    BY <1>8 DEF SeeFallBack, Now
  <2>2. new \in States /\ Healthy(found) \in BOOLEAN
    BY <1>2 DEF States, Healthy
  <2> HIDE DEF new, now
  <2>3. state' \in States /\ lost' \in BOOLEAN
    BY <2>1, <2>2, <1>2, <1>5, Lost
  <2>4. applied' \in [Threads -> BOOLEAN]
    BY <2>1, <2>2, Zenon DEF Typed, TypeOK
  <2> QED BY <1>3, <1>4, <1>8, <2>3, <2>4
          DEF SeeFallBack, Typed, TypeOK, others, locks, count
<1> QED BY <1>6, <1>7, <1>8

\* Nothing is recalled behind a step that takes a copy.
LEMMA TypedLoad ==
  ASSUME Typed, NEW t \in Threads, LoadState(t)
  PROVE  Typed'
<1>1. /\ todo[t] # <<>> /\ todo[t][1].do \in Loads /\ UNCHANGED <<todo, fetched>>
  BY DEF LoadState, Does, update
<1>2. PICK found \in Views(t) : seen' = [seen EXCEPT ![t] = found] /\ View(found)
  BY DEF LoadState
<1>3. found \in States /\ lost' \in BOOLEAN
  <2>1. state \in States /\ lost \in BOOLEAN
    BY DEF Typed, TypeOK
  <2> QED BY <2>1, <1>2, ViewsAre, Lost DEF Views
<1>4. /\ seen' \in [Savers -> States \cup {Unread}]
      /\ \A u \in Threads : u # t => seen'[u] = seen[u]
  <2>1. t \in Savers
    BY DEF Savers
  <2> QED BY <2>1, <1>2, <1>3, CopiesOf
<1>5. Listed'
  BY <1>1 DEF Typed, Listed
<1>6. Copied'
  <2>1. ASSUME NEW k \in 1..Len(todo[t]) PROVE todo[t][k].do \notin Recalls
    <3>1. todo[t] \in Seq(Steps) /\ Recalled(todo[t], seen[t]) /\ 1 \in 1..Len(todo[t])
      BY <1>1 DEF Typed, Listed, Copied
    <3>2. Loads \cap Recalls = {} /\ Loads \cap Near = {}
      BY DEF Loads, Recalls, Near
    <3>3. 1 < k \/ k = 1
      BY <3>1
    <3> QED BY <1>1, <3>1, <3>2, <3>3 DEF Recalled
  <2>2. Recalled(todo[t], seen'[t])
    BY <2>1 DEF Recalled
  <2> QED BY <2>2, <1>1, <1>4 DEF Typed, Copied
<1> QED BY <1>3, <1>4, <1>5, <1>6
        DEF LoadState, Typed, TypeOK, files, others, locks, update, count

\* What an update works on.
LEMMA WhatIsFetched ==
  ASSUME Typed, NEW t \in Threads
  PROVE  /\ fetched[t] \in Seq(Servers) /\ "none" \notin Servers
         /\ fetched[t] # <<>> => 1 \in 1..Len(fetched[t]) /\ fetched[t][1] \in Servers
         /\ loaded[t] \in States
BY ServersAssumption DEF Typed, TypeOK

LEMMA TypedUpdate ==
  ASSUME Typed, NEW t \in Threads,
         \/ VerifyOrRollBack(t) \/ Fetch(t) \/ Load(t) \/ ApplyNew(t)
         \/ ApplyCurrent(t) \/ ChangeEngine(t) \/ SaveLoaded(t)
  PROVE  Typed'
<1> DEFINE now  == todo[t][1]
           list == fetched[t]
<1>1. todo[t] # <<>>
  BY DEF VerifyOrRollBack, Fetch, Load, ApplyNew, ApplyCurrent, ChangeEngine, SaveLoaded,
         Does
<1>2. /\ now \in Steps /\ now.engine \in Engines /\ now.config \in Files
      /\ t = "health" => now \in Cures
      /\ now.do \in Late => list # <<>>
  BY <1>1, Heads
<1>3. /\ list \in Seq(Servers) /\ "none" \notin Servers
      /\ list # <<>> => 1 \in 1..Len(list) /\ list[1] \in Servers
      /\ loaded[t] \in States
  BY WhatIsFetched
<1>0. ASSUME UNCHANGED seen, NEW p \in Seq(Ordinary), Then(t, p), now.do \notin Near
      PROVE  Copied'
  BY <1>0, <1>1, Copying
<1> HIDE DEF list, now
<1>4. CASE VerifyOrRollBack(t)
  <2>0. PICK found \in Views(t) :
          /\ applied' = [applied EXCEPT ![t] = Healthy(found)]
          /\ lkg' = IF Healthy(found) THEN Now(t).config ELSE lkg
          /\ Then(t, IF Healthy(found) \/ rollback[Now(t).engine] = "none" THEN <<>>
                     ELSE <<Step("write", Now(t).engine, rollback[Now(t).engine])>>
                            \o DockerRestart(Now(t).engine))
          /\ View(found)
    BY <1>4 DEF VerifyOrRollBack
  <2> DEFINE e == now.engine
             p == IF Healthy(found) \/ rollback[e] = "none" THEN <<>>
                    ELSE <<Step("write", e, rollback[e])>> \o DockerRestart(e)
  <2>1. now.do = "verify_or_roll_back" /\ now.config \in Servers /\ t # "health"
    BY <1>2, <1>4 DEF VerifyOrRollBack, Does, Steps, Verifies, Cures, Near, now
  <2>2. rollback[e] \in Files
    BY <1>2 DEF Typed, TypeOK
  <2>3. p \in Seq(Ordinary)
    <3>1. Step("write", e, rollback[e]) \in Ordinary
      BY <1>2, <2>2, SMT DEF Step, Steps, Ordinary, Timely, Recalls, Deeds, Guarded, Decides, Verifies, Late
    <3>2. DockerRestart(e) \in Seq(Ordinary)
      BY <1>2, <2>2, PartsAreOrdinary
    <3> HIDE DEF e
    <3> QED BY <3>1, <3>2
  <2>4. Then(t, p) /\ UNCHANGED fetched
    BY <1>4, <2>0 DEF VerifyOrRollBack, Now, now
  <2>5. Listed' /\ Copied'
    <3>1. UNCHANGED seen /\ now.do \notin Near
      BY <1>4, <2>1 DEF VerifyOrRollBack, Near
    <3> HIDE DEF p
    <3> QED BY <1>0, <1>1, <2>1, <2>3, <2>4, <3>1, Moving, OrdinaryIsStep DEF now
  <2>6. lkg' \in Servers \cup {"none"}
    BY <2>0, <2>1 DEF Now, Typed, TypeOK, now
  <2>7. Healthy(found) \in BOOLEAN
    BY DEF Healthy
  <2>8. applied' \in [Threads -> BOOLEAN]
    BY <2>0, <2>7, Zenon DEF Typed, TypeOK
  <2>9. lost' \in BOOLEAN
    BY <2>0, Lost DEF Typed, TypeOK
  <2> QED BY <1>4, <2>5, <2>6, <2>8, <2>9
          DEF VerifyOrRollBack, Typed, TypeOK, locks, count
<1>5. CASE Fetch(t)
  <2>1. PICK l \in Lists :
          /\ cache' \in {cache, l} /\ fetched' = [fetched EXCEPT ![t] = l]
          /\ todo' = [todo EXCEPT ![t] =
               IF l = <<>> THEN SubSeq(@, Len(UpdateSubscription) + 1, Len(@))
                           ELSE Tail(@)]
    BY <1>5 DEF Fetch
  <2> DEFINE q == todo[t]
             r == IF l = <<>> THEN SubSeq(q, 6, Len(q)) ELSE Tail(q)
  <2>2. q \in Seq(Steps) /\ Orderly(q, fetched[t]) /\ q[1].do = "fetch" /\ t # "health"
    BY <1>2, <1>5 DEF Typed, Listed, Fetch, Does, now, Cures, Near
  <2>3. r \in Seq(Steps) /\ Orderly(r, l)
    <3> HIDE DEF q
    <3>1. /\ Tail(q) \in Seq(Steps)
          /\ l # <<>> => Orderly(Tail(q), l)
          /\ SubSeq(q, 6, Len(q)) \in Seq(Steps) /\ Orderly(SubSeq(q, 6, Len(q)), l)
      BY <1>1, <2>2, FetchedInOrder DEF q
    <3>2. r = SubSeq(q, 6, Len(q)) \/ (l # <<>> /\ r = Tail(q))
      OBVIOUS
    <3> HIDE DEF r
    <3> QED BY <3>1, <3>2
  <2>4. todo' = [todo EXCEPT ![t] = r]
    BY <2>1, UpdateIsSteps
  <2>8. Recalled(r, seen[t])
    <3>1. /\ Recalled(q, seen[t]) /\ q \in Seq(Steps)
          /\ q[1].do \notin Recalls /\ q[1].do \notin Near
      BY <2>2 DEF Typed, Copied, Recalls, Near
    <3>2. /\ Len(q) \in Nat \ {0} /\ Len(Tail(q)) = Len(q) - 1
          /\ \A i \in 1..Len(Tail(q)) : Tail(q)[i] = q[i + 1]
      BY <1>1, <3>1
    <3>3. ASSUME NEW k \in 1..Len(q) PROVE q[k].do \notin Recalls
      <4>1. k = 1 \/ (1 < k /\ 1 \in 1..Len(q))
        BY <3>2
      <4> QED BY <4>1, <3>1, <3>3 DEF Recalled
    <3>4. /\ Len(SubSeq(q, 6, Len(q))) \in Nat
          /\ \A i \in 1..Len(SubSeq(q, 6, Len(q))) :
               i + 5 \in 1..Len(q) /\ SubSeq(q, 6, Len(q))[i] = q[i + 5]
      BY <3>1, <3>2
    <3>5. \A k \in 1..Len(Tail(q)) : k + 1 \in 1..Len(q)
      BY <3>2
    <3> HIDE DEF q
    <3>6. r = SubSeq(q, 6, Len(q)) \/ r = Tail(q)
      OBVIOUS
    <3> HIDE DEF r
    <3>7. CASE r = SubSeq(q, 6, Len(q))
      BY <3>3, <3>4, <3>7 DEF Recalled
    <3>8. CASE r = Tail(q)
      BY <3>2, <3>3, <3>5, <3>8 DEF Recalled
    <3> QED BY <3>6, <3>7, <3>8
  <2> HIDE DEF r
  <2>5. Listed'
    <3>1. /\ todo \in [Threads -> Seq(Steps)] /\ todo["health"] \in Seq(Cures)
          /\ \A u \in Threads : Orderly(todo[u], fetched[u])
          /\ fetched \in [Threads -> Lists] /\ "health" \in Threads
      BY DEF Typed, TypeOK, Listed, Threads
    <3>2. todo' \in [Threads -> Seq(Steps)] /\ todo'["health"] \in Seq(Cures)
      BY <3>1, <2>2, <2>3, <2>4
    <3>3. ASSUME NEW u \in Threads PROVE Orderly(todo'[u], fetched'[u])
      <4>1. CASE u = t
        <5>1. todo'[u] = r /\ fetched'[u] = l
          BY <4>1, <3>1, <2>1, <2>4
        <5> QED BY <5>1, <2>3
      <4>2. CASE u # t
        <5>1. todo'[u] = todo[u] /\ fetched'[u] = fetched[u]
          BY <4>2, <3>1, <2>1, <2>4
        <5> QED BY <5>1, <3>1
      <4> QED BY <4>1, <4>2
    <3> QED BY <3>2, <3>3 DEF Listed
  <2>6. applied' \in [Threads -> BOOLEAN]
    BY <1>5 DEF Fetch, Typed, TypeOK
  <2>7. cache' \in Lists /\ fetched' \in [Threads -> Lists]
    BY <2>1 DEF Typed, TypeOK
  <2>9. Copied'
    <3>1. todo \in [Threads -> Seq(Steps)] /\ UNCHANGED seen
      BY <1>5 DEF Fetch, Typed, Listed
    <3> QED BY <2>4, <2>8, <3>1 DEF Typed, Copied
  <2> QED BY <1>5, <2>5, <2>6, <2>7, <2>9 DEF Fetch, Typed, TypeOK, locks, past, count
<1>6. CASE Load(t)
  <2>1. /\ seen[t] \in States /\ t \in Savers /\ Forget(t) /\ Done(t)
        /\ now.do # "fetch" /\ now.do \notin Near /\ UNCHANGED fetched
    BY <1>1, <1>6, CopyIs DEF Load, Does, Savers, Near, now
  <2>2. /\ seen' \in [Savers -> States \cup {Unread}]
        /\ \A u \in Threads : u # t => seen'[u] = seen[u]
    BY <2>1, CopiesOf DEF Forget
  <2>3. Listed' /\ Copied'
    BY <1>1, <2>1, <2>2, Passing, CopyingOn DEF now
  <2>4. list # <<>>
    BY <1>2, <1>6 DEF Load, Does, Late, now
  <2> DEFINE s == IF seen[t].server = "none" \/ Fetched(t, seen[t].server)
                    THEN seen[t].server ELSE fetched[t][1]
             new == [seen[t] EXCEPT !.server = s]
  <2>5. new \in States
    BY <1>3, <2>1, <2>4 DEF States, list
  <2>6. /\ loaded' = [loaded EXCEPT ![t] = new]
        /\ \/ View(seen[t]) /\ UNCHANGED state
           \/ Save(t, new, seen[t] # state)
    BY <1>6 DEF Load
  <2> HIDE DEF new
  <2>7. state' \in States /\ lost' \in BOOLEAN
    BY <2>5, <2>6, Saved, Lost DEF Typed, TypeOK
  <2>8. loaded' \in [Threads -> States]
    BY <2>5, <2>6 DEF Typed
  <2> QED BY <1>6, <2>2, <2>3, <2>7, <2>8
          DEF Load, Typed, TypeOK, others, locks, count
<1>7. CASE ApplyNew(t)
  <2> DEFINE s == loaded[t].server
             p == IF s = "none" \/ EngineOf(s) = loaded[t].engine THEN <<>>
                    ELSE ApplyEngine(EngineOf(s), s)
  <2>1. now.do = "apply_new" /\ t # "health"
    BY <1>2, <1>7 DEF ApplyNew, Does, Cures, Near, now
  <2>2. p \in Seq(Ordinary)
    <3>1. s # "none" => s \in Servers
      BY <1>3 DEF States
    <3>2. s # "none" => ApplyEngine(EngineOf(s), s) \in Seq(Ordinary)
      BY <3>1, PlaysAreOrdinary
    <3> QED BY <3>2
  <2>3. Then(t, p) /\ UNCHANGED fetched
    BY <1>7 DEF ApplyNew, local, update
  <2>4. Listed' /\ Copied'
    <3>1. UNCHANGED seen /\ now.do \notin Near
      BY <1>7, <2>1 DEF ApplyNew, local, Near
    <3> HIDE DEF p
    <3> QED BY <1>0, <1>1, <2>1, <2>2, <2>3, <3>1, Moving, OrdinaryIsStep DEF now
  <2> QED BY <1>7, <2>4 DEF ApplyNew, Typed, TypeOK, files, others, locks, local, update, past, count
<1>8. CASE ApplyCurrent(t)
  <2> DEFINE e   == loaded[t].engine
             s   == Own(t, e)
             new == [loaded[t] EXCEPT !.server = IF @ = "none" THEN @ ELSE Own(t, e)]
  <2>1. /\ now.do = "apply_current" /\ t # "health"
        /\ e \in Engines /\ First(t, e) # "none"
    BY <1>2, <1>3, <1>8 DEF ApplyCurrent, Does, Cures, Near, now, States
  <2>2. s \in Servers /\ EngineOf(s) = e
    BY <1>3, <2>1, FirstIs DEF Own, States
  <2>3. ApplyEngine(e, s) \in Seq(Ordinary)
    BY <2>2, PlaysAreOrdinary
  <2>4. Then(t, ApplyEngine(e, s)) /\ UNCHANGED fetched
    BY <1>8 DEF ApplyCurrent
  <2>5. Listed' /\ Copied'
    <3>1. UNCHANGED seen /\ now.do \notin Near
      BY <1>8, <2>1 DEF ApplyCurrent, Near
    <3> QED BY <1>0, <1>1, <2>1, <2>3, <2>4, <3>1, Moving, OrdinaryIsStep DEF now
  <2>6. new \in States
    BY <1>3, <2>2 DEF States
  <2>7. /\ loaded' = [loaded EXCEPT ![t] = new]
        /\ UNCHANGED <<state, lost>> \/ Save(t, new, FALSE)
    BY <1>8 DEF ApplyCurrent
  <2> HIDE DEF new
  <2>8. /\ state' \in States /\ lost' \in BOOLEAN
        /\ loaded' \in [Threads -> States]
    BY <2>6, <2>7, Saved, Lost DEF Typed, TypeOK
  <2> QED BY <1>8, <2>5, <2>8
          DEF ApplyCurrent, Typed, TypeOK, others, locks, count
<1>9. CASE ChangeEngine(t)
  <2> DEFINE e == Other(loaded[t].engine)
             s == First(t, e)
             p == ApplyEngine(e, s) \o <<Simply("applied_anyway")>>
  <2>1. /\ now.do = "apply_current" /\ t # "health"
        /\ loaded[t].engine \in Engines /\ e \in Engines /\ Other(e) = loaded[t].engine
        /\ First(t, Other(e)) = "none"
    BY <1>2, <1>3, <1>9, OtherIsOne
       DEF ChangeEngine, Does, Cures, Near, now, States, Other, Engines
  <2>2. list # <<>>
    BY <1>2, <2>1 DEF Late
  <2>3. EngineOf(list[1]) = e
    <3>1. EngineOf(list[1]) # Other(e)
      BY <1>3, <2>1, <2>2, FirstIs DEF list
    <3> QED BY <3>1, <2>1, EngineIsOne DEF Other, Engines
  <2>4. s \in Servers /\ EngineOf(s) = e
    BY <1>3, <2>1, <2>2, <2>3, FirstIs DEF list
  <2>5. p \in Seq(Ordinary)
    <3>1. ApplyEngine(e, s) \in Seq(Ordinary)
      BY <2>4, PlaysAreOrdinary
    <3>2. Simply("applied_anyway") \in Ordinary
      BY SMT DEF Simply, Step, Steps, Ordinary, Timely, Recalls, Deeds, Guarded, Decides, Verifies, Late,
                 Engines, Files
    <3> QED BY <3>1, <3>2
  <2>6. Then(t, p) /\ UNCHANGED fetched
    BY <1>9 DEF ChangeEngine
  <2>7. Listed' /\ Copied'
    <3>1. UNCHANGED seen /\ now.do \notin Near
      BY <1>9, <2>1 DEF ChangeEngine, Near
    <3> HIDE DEF p
    <3> QED BY <1>0, <1>1, <2>1, <2>5, <2>6, <3>1, Moving, OrdinaryIsStep DEF now
  <2>8. loaded' \in [Threads -> States]
    BY <1>3, <1>9, <2>1 DEF ChangeEngine, Typed, States
  <2> QED BY <1>9, <2>7, <2>8 DEF ChangeEngine, Typed, TypeOK, files, others, locks, past, count
<1>10. CASE SaveLoaded(t)
  <2>1. Listed' /\ Copied'
    BY <1>1, <1>10, Passing, CopyingOn DEF SaveLoaded, Does, local, update
  <2>2. list # <<>>
    BY <1>2, <1>10 DEF SaveLoaded, Does, Late, now
  <2> DEFINE new == [loaded[t] EXCEPT !.server = IF @ = "none" THEN fetched[t][1] ELSE @]
  <2>3. new \in States /\ Save(t, new, FALSE)
    BY <1>3, <1>10, <2>2 DEF SaveLoaded, States, list
  <2>4. state' \in States /\ lost' \in BOOLEAN
    <3> HIDE DEF new
    <3> QED BY <2>3, Saved, Lost DEF Typed, TypeOK
  <2> QED BY <1>10, <2>1, <2>4
          DEF SaveLoaded, Typed, TypeOK, others, locks, local, update, count
<1> QED BY <1>4, <1>5, <1>6, <1>7, <1>8, <1>9, <1>10

\* A thread that starts over, or ends, with a list of its own.
LEMMA Starting ==
  ASSUME Typed, NEW t \in Threads, t # "health", NEW p \in Seq(Steps),
         \A list : Orderly(p, list), Forgetful(p),
         todo' = [todo EXCEPT ![t] = p], UNCHANGED <<fetched, seen>>
  PROVE  Listed' /\ Copied'
<1>1. /\ todo \in [Threads -> Seq(Steps)] /\ todo["health"] \in Seq(Cures)
      /\ \A u \in Threads : Orderly(todo[u], fetched[u])
      /\ "health" \in Threads
  BY DEF Typed, Listed, Threads
<1>2. todo' \in [Threads -> Seq(Steps)] /\ todo'["health"] \in Seq(Cures)
  BY <1>1
<1>3. ASSUME NEW u \in Threads PROVE Orderly(todo'[u], fetched'[u])
  BY <1>1
<1>4. Copied'
  BY <1>1 DEF Typed, Copied, Recalled, Forgetful
<1> QED BY <1>2, <1>3, <1>4 DEF Listed

LEMMA TypedChoice ==
  ASSUME Typed, NEW t \in Threads, Choose(t)
  PROVE  Typed'
<1>1. /\ todo[t] # <<>> /\ todo[t][1].do # "fetch" /\ UNCHANGED fetched
      /\ todo[t][1].do \in {"choose", "reselect", "reselect_if_applied"}
      /\ todo[t][1].do \notin Near
  BY DEF Choose, Does, update, Near
<1>2. t # "health" /\ t \in Savers
  BY <1>1, Heads DEF Cures, Near, Savers
<1>3. cache \in Seq(Servers) /\ cache \in Lists
  BY ServersAssumption DEF Typed, TypeOK
<1>4. PICK found \in Views(t) :
        /\ View(found)
        /\ \/ Unasked(t, found) /\ Done(t) /\ UNCHANGED <<bench, seen>>
           \/ /\ ~ Unasked(t, found) /\ bench' \in {bench, Len(cache)} \ {0}
              /\ \/ /\ \E i \in 1..Len(cache) : i <= bench' /\ cache[i] = found.server
                    /\ seen' = [seen EXCEPT ![t] = found] /\ Then(t, <<Simply("keep")>>)
                 \/ /\ UNCHANGED seen
                    /\ \E i \in 1..bench' :
                         IF i <= Len(cache)
                           THEN Done(t) \/ Then(t, SelectServer(cache[i], "save_smart"))
                           ELSE Raise(t)
  BY DEF Choose
<1>5. found \in States /\ lost' \in BOOLEAN /\ bench' \in {bench, Len(cache)}
  <2>1. state \in States /\ lost \in BOOLEAN
    BY DEF Typed, TypeOK
  <2> QED BY <2>1, <1>4, ViewsAre, Lost DEF Views
<1>6. \/ Done(t) /\ UNCHANGED seen
      \/ Raise(t) /\ UNCHANGED seen
      \/ seen' = [seen EXCEPT ![t] = found] /\ Then(t, <<Simply("keep")>>)
      \/ \E i \in 1..Len(cache) : /\ Then(t, SelectServer(cache[i], "save_smart"))
                                  /\ UNCHANGED seen
  <2>1. Len(cache) \in Nat /\ bench' \in Nat
    BY <1>3, <1>5, ServersAssumption DEF Typed, TypeOK
  <2> QED BY <1>4, <2>1
<1>7. Listed' /\ Copied' /\ seen' \in [Savers -> States \cup {Unread}]
  <2>0. UNCHANGED seen => seen' \in [Savers -> States \cup {Unread}]
    BY DEF Typed, TypeOK
  <2>1. CASE Done(t) /\ UNCHANGED seen
    BY <1>1, <2>0, <2>1, Passing, CopyingOn
  <2>2. CASE seen' = [seen EXCEPT ![t] = found] /\ Then(t, <<Simply("keep")>>)
    <3>1. <<Simply("keep")>> \in Seq(Timely) /\ Simply("keep").do = "keep"
      BY SMT DEF Simply, Step, Steps, Timely, Deeds, Guarded, Decides, Verifies, Late,
                 Engines, Files
    <3>2. /\ seen' \in [Savers -> States \cup {Unread}] /\ seen'[t] = found
          /\ \A u \in Threads : u # t => seen'[u] = seen[u]
      BY <1>2, <1>5, <2>2, CopiesOf
    <3>3. Listed'
      BY <1>1, <1>2, <2>2, <3>1, Moving
    <3>4. /\ todo \in [Threads -> Seq(Steps)] /\ todo[t] \in Seq(Steps)
          /\ Recalled(todo[t], seen[t])
      BY DEF Typed, Listed, Copied
    <3>5. ASSUME NEW k \in 2..Len(todo[t]) PROVE todo[t][k].do \notin Recalls
      <4>1. 1 \in 1..Len(todo[t]) /\ k \in 1..Len(todo[t]) /\ 1 < k
        BY <3>4
      <4> QED BY <4>1, <3>4, <1>1 DEF Recalled
    <3>6. Recalled(<<Simply("keep")>> \o Tail(todo[t]), found)
      <4> DEFINE q == todo[t]
                 w == <<Simply("keep")>> \o Tail(q)
      <4>1. /\ Len(w) = Len(q) /\ Len(q) \in Nat
            /\ \A k \in 2..Len(q) : w[k] = q[k]
        BY <3>4, <1>1
      <4>2. found # Unread
        BY <1>5, UnreadIsNone
      <4> HIDE DEF w
      <4>3. ASSUME NEW k \in 1..Len(w), w[k].do \in Recalls PROVE k = 1
        BY <4>1, <4>3, <3>5
      <4>4. Recalled(w, found)
        BY <4>1, <4>2, <4>3 DEF Recalled
      <4> QED BY <4>4 DEF w
    <3>7. ASSUME NEW u \in Threads PROVE Recalled(todo'[u], seen'[u])
      <4>1. todo' = [todo EXCEPT ![t] = <<Simply("keep")>> \o Tail(todo[t])]
        BY <2>2 DEF Then
      <4>2. CASE u = t
        <5>1. todo'[u] = <<Simply("keep")>> \o Tail(todo[t])
          BY <4>1, <4>2, <3>4
        <5> QED BY <5>1, <4>2, <3>2, <3>6
      <4>3. CASE u # t
        <5>1. todo'[u] = todo[u] /\ seen'[u] = seen[u]
          BY <4>1, <4>3, <3>2, <3>4
        <5> QED BY <5>1 DEF Typed, Copied
      <4> QED BY <4>2, <4>3
    <3> QED BY <3>2, <3>3, <3>7 DEF Copied
  <2>3. ASSUME NEW i \in 1..Len(cache), UNCHANGED seen,
               Then(t, SelectServer(cache[i], "save_smart"))
        PROVE  Listed' /\ Copied'
    <3>1. SelectServer(cache[i], "save_smart") \in Seq(Ordinary)
      BY <1>3, PlaysAreOrdinary
    <3> QED BY <1>1, <1>2, <2>3, <3>1, Moving, Copying, OrdinaryIsStep
  <2>4. CASE Raise(t) /\ UNCHANGED seen
    <3> DEFINE p == IF Tail(todo[t]) = <<Simply("restart_agent")>>
                      THEN <<Simply("ensure_defaults"), Simply("restart_agent")>> ELSE <<>>
    <3>1. Simply("ensure_defaults") \in Ordinary /\ Simply("restart_agent") \in Ordinary
      BY SMT DEF Simply, Step, Steps, Ordinary, Timely, Recalls, Deeds, Guarded, Decides,
                 Verifies, Late, Engines, Files
    <3>2. p \in Seq(Ordinary)
      BY <3>1
    <3>3. todo' = [todo EXCEPT ![t] = p]
      BY <2>4 DEF Raise
    <3> HIDE DEF p
    <3>4. p \in Seq(Steps) /\ Forgetful(p) /\ \A list : Orderly(p, list)
      BY <3>2, PlansAreInOrder
    <3> QED BY <1>1, <1>2, <2>0, <2>4, <3>3, <3>4, Starting
  <2> QED BY <1>6, <2>0, <2>1, <2>2, <2>3, <2>4
<1>8. bench' \in {Len(l) : l \in Lists}
  BY <1>3, <1>5 DEF Typed, TypeOK
<1> QED BY <1>5, <1>7, <1>8 DEF Choose, Typed, TypeOK, locks, update, count

LEMMA TypedFallBack ==
  ASSUME Typed, NEW t \in Threads, FallBack(t)
  PROVE  Typed'
<1>1. /\ todo[t] # <<>> /\ todo[t][1].do = "fall_back" /\ UNCHANGED fetched
      /\ todo[t][1].do \notin Near
  BY DEF FallBack, Does, update, Near
<1>2. t # "health" /\ t \in Savers /\ lkg \in Files /\ state \in States
      /\ lost \in BOOLEAN
  BY <1>1, Heads DEF Cures, Near, Savers, Typed, TypeOK, Files, Configs
<1>3. CASE applied[t] \/ lkg = "none"
  <2>1. Done(t) /\ UNCHANGED <<seen, lost>>
    BY <1>3 DEF FallBack
  <2>2. Listed' /\ Copied'
    BY <1>1, <2>1, Passing, CopyingOn
  <2> QED BY <2>1, <2>2
          DEF FallBack, Typed, TypeOK, files, others, locks, update, count
<1>4. CASE ~ (applied[t] \/ lkg = "none")
  <2>1. PICK found \in Views(t) :
          /\ seen' = [seen EXCEPT ![t] = found] /\ View(found)
          /\ Then(t, <<Step("write", found.engine, lkg)>> \o DockerRestart(found.engine)
                       \o <<On("see", found.engine)>>)
    BY <1>4 DEF FallBack
  <2>2. found \in States /\ found # Unread /\ lost' \in BOOLEAN
    BY <1>2, <2>1, ViewsAre, Lost, UnreadIsNone DEF Views
  <2>3. /\ seen' \in [Savers -> States \cup {Unread}] /\ seen'[t] = found
        /\ \A u \in Threads : u # t => seen'[u] = seen[u]
    BY <1>2, <2>1, <2>2, CopiesOf
  <2> DEFINE e == found.engine
             p == <<Step("write", e, lkg)>> \o DockerRestart(e)
             w == p \o <<On("see", e)>>
  <2>4. e \in Engines
    BY <2>2 DEF States
  <2>5. p \in Seq(Timely) /\ \A k \in 1..Len(p) : p[k].do \in Near
    <3>1. Step("write", e, lkg) \in Cures /\ Step("write", e, lkg) \in Timely
      BY <1>2, <2>4, SMT DEF Step, Steps, Timely, Deeds, Guarded, Decides, Verifies, Late,
                             Cures, Near
    <3>2. Step("write", e, lkg).do \in Near
      BY DEF Step, Near
    <3> HIDE DEF e
    <3>3. DockerRestart(e) \in Seq(Timely)
      BY <2>4, <1>2, PartsAreOrdinary, OrdinaryIsStep
    <3>4. \A k \in 1..Len(DockerRestart(e)) : DockerRestart(e)[k].do \in Near
      BY <2>4 DEF DockerRestart, EnsureDummy, On, Step, Near, Engines
    <3>5. /\ Len(<<Step("write", e, lkg)>>) = 1 /\ <<Step("write", e, lkg)>> \in Seq(Timely)
          /\ <<Step("write", e, lkg)>>[1] = Step("write", e, lkg)
      BY <3>1
    <3> DEFINE d == DockerRestart(e)
    <3>6. d \in Seq(Timely) /\ \A k \in 1..Len(d) : d[k].do \in Near
      BY <3>3, <3>4
    <3> HIDE DEF d
    <3> DEFINE one == <<Step("write", e, lkg)>>
    <3>7. p = one \o d /\ one \in Seq(Timely) /\ Len(one) = 1
      BY <3>5 DEF d
    <3>8. /\ p \in Seq(Timely) /\ Len(p) = 1 + Len(d)
          /\ p[1] = Step("write", e, lkg) /\ \A k \in 2..Len(p) : p[k] = d[k - 1]
      <4> HIDE DEF one, p
      <4>1. /\ p \in Seq(Timely) /\ Len(p) = Len(one) + Len(d)
            /\ \A i \in 1..Len(one) : p[i] = one[i]
            /\ \A i \in (Len(one) + 1)..(Len(one) + Len(d)) : p[i] = d[i - Len(one)]
        BY <3>6, <3>7, Joined
      <4>2. Len(d) \in Nat
        BY <3>6
      <4> QED BY <4>1, <4>2, <3>5, <3>7 DEF one
    <3> HIDE DEF p
    <3>9. ASSUME NEW k \in 1..Len(p) PROVE p[k].do \in Near
      <4>1. CASE k = 1
        BY <4>1, <3>2, <3>8
      <4>2. CASE k # 1
        <5>1. k - 1 \in 1..Len(d) /\ p[k] = d[k - 1]
          BY <4>2, <3>6, <3>8
        <5> QED BY <5>1, <3>6
      <4> QED BY <4>1, <4>2
    <3> QED BY <3>8, <3>9
  <2>6. On("see", e) \in Timely /\ On("see", e).do \in Recalls
    BY <1>2, <2>4, SMT DEF On, Step, Steps, Timely, Recalls, Deeds, Guarded, Decides,
                           Verifies, Late, Files
  <2>7. Then(t, w)
    BY <2>1
  <2> HIDE DEF p, e
  <2>8. /\ w \in Seq(Timely) /\ Len(w) = Len(p) + 1 /\ Len(p) \in Nat
        /\ \A k \in 1..Len(p) : w[k] = p[k]
    BY <2>5, <2>6
  <2> HIDE DEF w
  <2>9. Listed'
    BY <1>1, <1>2, <2>7, <2>8, Moving
  <2>10. /\ todo \in [Threads -> Seq(Steps)] /\ todo[t] \in Seq(Steps)
         /\ Recalled(todo[t], seen[t])
    BY DEF Typed, Listed, Copied
  <2>11. Recalled(w \o Tail(todo[t]), found)
    <3> DEFINE q == todo[t]
               z == w \o Tail(q)
    <3>1. /\ Len(q) \in Nat \ {0} /\ Len(w) \in Nat
          /\ Len(z) = Len(w) + Len(q) - 1
          /\ \A k \in 1..Len(w) : z[k] = w[k]
          /\ \A k \in (Len(w) + 1)..(Len(w) + Len(q) - 1) : z[k] = q[k - Len(w) + 1]
      <4>1. w \in Seq(Steps) /\ q \in Seq(Steps) /\ q # <<>>
        BY <2>8, <2>10, <1>1, OrdinaryIsStep
      <4> HIDE DEF q
      <4> QED BY <4>1, Spliced
    <3>2. ASSUME NEW k \in 2..Len(q) PROVE q[k].do \notin Recalls
      <4>1. 1 \in 1..Len(q) /\ k \in 1..Len(q) /\ 1 < k
        BY <3>1
      <4> QED BY <4>1, <2>10, <1>1 DEF Recalled
    <3> HIDE DEF q, z
    <3>3. ASSUME NEW k \in 1..Len(z), z[k].do \in Recalls PROVE k <= Len(w)
      <4>1. SUFFICES ASSUME ~ (k <= Len(w)) PROVE FALSE
        OBVIOUS
      <4> DEFINE m == k - Len(w) + 1
      <4>2. m \in 2..Len(q) /\ z[k] = q[m]
        <5>1. k \in (Len(w) + 1)..(Len(w) + Len(q) - 1) /\ m \in 2..Len(q)
          BY <4>1, <3>1
        <5> QED BY <5>1, <3>1
      <4> HIDE DEF m
      <4> QED BY <4>2, <3>2, <3>3
    <3>4. ASSUME NEW k \in 1..Len(z), z[k].do \in Recalls, NEW j \in 1..Len(z), j < k
          PROVE  z[j].do \in Near
      <4>1. j \in 1..Len(p) /\ z[j] = p[j]
        BY <3>1, <3>3, <3>4, <2>8
      <4> QED BY <4>1, <2>5
    <3>5. Recalled(z, found)
      BY <3>4, <2>2 DEF Recalled
    <3> QED BY <3>5 DEF z, q
  <2>12. Copied'
    <3>1. todo' = [todo EXCEPT ![t] = w \o Tail(todo[t])]
      BY <2>7 DEF Then
    <3>2. ASSUME NEW u \in Threads PROVE Recalled(todo'[u], seen'[u])
      <4>1. CASE u = t
        <5>1. todo'[u] = w \o Tail(todo[t])
          BY <3>1, <4>1, <2>10
        <5> QED BY <5>1, <4>1, <2>3, <2>11
      <4>2. CASE u # t
        <5>1. todo'[u] = todo[u] /\ seen'[u] = seen[u]
          BY <3>1, <4>2, <2>3, <2>10
        <5> QED BY <5>1 DEF Typed, Copied
      <4> QED BY <4>1, <4>2
    <3> QED BY <3>2 DEF Copied
  <2> QED BY <1>4, <2>2, <2>3, <2>9, <2>12
          DEF FallBack, Typed, TypeOK, files, others, locks, update, count
<1> QED BY <1>3, <1>4

LEMMA TypedDefaults ==
  ASSUME Typed, NEW t \in Threads, StartDefaults(t)
  PROVE  Typed'
<1>1. /\ todo[t] # <<>> /\ todo[t][1].do # "fetch" /\ UNCHANGED <<fetched, seen>>
      /\ todo[t][1].do \in {"ensure_defaults", "defaults_if_failed"}
      /\ todo[t][1].do \notin Near
  BY DEF StartDefaults, Does, local, update, Near
<1>2. t # "health" /\ state \in States /\ lost \in BOOLEAN
  BY <1>1, Heads DEF Cures, Near, Typed, TypeOK
<1> DEFINE needed == Does(t, "ensure_defaults") \/ ~ applied[t]
<1>3. PICK found \in Views(t) :
        Then(t, IF needed THEN EnsureDefaults(found.engine) ELSE <<>>) /\ View(found)
  BY DEF StartDefaults
<1>4. found.engine \in Engines /\ lost' \in BOOLEAN
  <2>1. found \in States /\ lost' \in BOOLEAN
    BY <1>2, <1>3, ViewsAre, Lost DEF Views
  <2> QED BY <2>1 DEF States
<1> DEFINE p == IF needed THEN EnsureDefaults(found.engine) ELSE <<>>
<1>5. p \in Seq(Ordinary)
  <2>1. "none" \in Files
    BY DEF Files
  <2> HIDE DEF needed
  <2> QED BY <1>4, <2>1, PartsAreOrdinary
<1>6. Then(t, p)
  BY <1>3
<1>7. Listed' /\ Copied'
  <2> HIDE DEF p
  <2> QED BY <1>1, <1>2, <1>5, <1>6, Moving, Copying, OrdinaryIsStep
<1>8. disk' \in [Engines -> Files]
  BY DEF StartDefaults, Typed, TypeOK, Files, Configs
<1> QED BY <1>4, <1>7, <1>8
        DEF StartDefaults, Typed, TypeOK, locks, local, update, count

\* The agent starts over.
LEMMA TypedRestart ==
  ASSUME Typed, NEW incident \in BOOLEAN, RestartAgent(incident)
  PROVE  Typed'
<1>1. Listed'
  <2>1. /\ \A list : Orderly(<<>>, list)
        /\ <<>> \in Seq(Steps) /\ <<>> \in Seq(Cures)
    BY DEF Orderly
  <2> QED BY <2>1, BootIsInOrder DEF RestartAgent, Listed, Threads
<1>2. Copied'
  <2>1. Forgetful(<<>>)
    BY DEF Forgetful
  <2>2. \A t \in Threads : Forgetful(todo'[t])
    BY <2>1, BootIsInOrder DEF RestartAgent
  <2> QED BY <2>2 DEF Copied, Recalled, Forgetful
<1>3. incidents' \in 0..MaxIncidents
  BY BoundsAssumption DEF RestartAgent, Incident, Typed, TypeOK
<1>4. state' \in States
  <2>1. Blank \in States /\ state \in States
    BY DEF Blank, States, Engines, Typed, TypeOK
  <2> QED BY <2>1 DEF RestartAgent
<1>5. seen' \in [Savers -> States \cup {Unread}]
  BY DEF RestartAgent
<1> QED BY <1>1, <1>2, <1>3, <1>4, <1>5
        DEF RestartAgent, Typed, TypeOK, others, update

LEMMA TypedBegin ==
  ASSUME Typed, NEW t \in Threads, Begin(t)
  PROVE  Typed'
<1>1. cache \in Seq(Servers)
  BY ServersAssumption DEF Typed, TypeOK
<1>2. PICK p : /\ todo' = [todo EXCEPT ![t] = p]
               /\ \/ p = Refresh \/ p = <<Simply("choose")>> \/ p = RestartBoth
                  \/ \E i \in 1..Len(cache) : p = SelectServer(cache[i], "save_manual")
                  \/ \E do \in {"reselect", "reselect_if_applied"} :
                       p = UpdateSubscription \o <<Simply(do)>>
  BY DEF Begin
<1>3. \A do \in {"reselect", "reselect_if_applied", "choose"} : Simply(do) \in Ordinary
  BY SMT DEF Simply, Step, Steps, Ordinary, Timely, Recalls, Deeds, Guarded, Decides,
             Verifies, Late, Engines, Files
<1>4. p \in Seq(Steps) /\ Forgetful(p) /\ \A list : Orderly(p, list)
  <2>1. CASE p = Refresh
    BY <2>1, BootIsInOrder
  <2>2. CASE p = <<Simply("choose")>>
    <3>1. p \in Seq(Ordinary)
      BY <1>3, <2>2
    <3> QED BY <3>1, PlansAreInOrder
  <2>3. ASSUME NEW i \in 1..Len(cache), p = SelectServer(cache[i], "save_manual")
        PROVE  p \in Seq(Steps) /\ Forgetful(p) /\ \A list : Orderly(p, list)
    <3>1. p \in Seq(Ordinary)
      BY <1>1, <2>3, PlaysAreOrdinary
    <3> QED BY <3>1, PlansAreInOrder
  <2>4. ASSUME NEW do \in {"reselect", "reselect_if_applied"},
               p = UpdateSubscription \o <<Simply(do)>>
        PROVE  p \in Seq(Steps) /\ Forgetful(p) /\ \A list : Orderly(p, list)
    <3>1. <<Simply(do)>> \in Seq(Ordinary) /\ <<>> \in Seq(Ordinary)
      BY <1>3
    <3>2. /\ <<>> \o p \in Seq(Steps) /\ Forgetful(<<>> \o p)
          /\ \A list : Orderly(<<>> \o p, list)
      BY <2>4, <3>1, PlansAreInOrder
    <3>3. <<>> \o p = p
      <4>1. UpdateSubscription \in Seq(Steps) /\ <<Simply(do)>> \in Seq(Steps)
        BY <3>1, OrdinaryIsStep, UpdateIsSteps
      <4>2. p \in Seq(Steps)
        BY <4>1, <2>4
      <4> QED BY <4>2
    <3> QED BY <3>2, <3>3
  <2>5. CASE p = RestartBoth
    <3>1. /\ DockerRestart("xray") \in Seq(Ordinary)
          /\ DockerRestart("singbox") \in Seq(Ordinary)
      <4>1. "xray" \in Engines /\ "singbox" \in Engines /\ "none" \in Files
        BY DEF Engines, Files
      <4> QED BY <4>1, PartsAreOrdinary
    <3>2. p \in Seq(Ordinary)
      BY <2>5, <3>1 DEF RestartBoth
    <3> QED BY <3>2, PlansAreInOrder
  <2> QED BY <1>2, <2>1, <2>2, <2>3, <2>4, <2>5
<1>5. Listed' /\ Copied'
  <2>1. t # "health" /\ UNCHANGED <<fetched, seen>>
    BY DEF Begin, local, update
  <2> QED BY <1>2, <1>4, <2>1, Starting
<1>6. ops' \in 0..MaxOps
  BY BoundsAssumption DEF Begin, Typed, TypeOK
<1> QED BY <1>5, <1>6 DEF Begin, Typed, TypeOK, files, others, locks, local, update

LEMMA TypedWatch ==
  ASSUME Typed, HealthTryLock \/ HealthCheck
  PROVE  Typed'
<1>1. /\ "health" \in Threads /\ state \in States /\ lost \in BOOLEAN
      /\ todo \in [Threads -> Seq(Steps)]
      /\ \A t \in Threads : Orderly(todo[t], fetched[t])
  BY DEF Typed, TypeOK, Listed, Threads
<1>2. \A do \in {"check", "unlock"} : Simply(do) \in Ordinary /\ Simply(do) \in Cures
  BY SMT DEF Simply, Step, Steps, Ordinary, Timely, Recalls, Deeds, Guarded, Decides,
             Verifies, Late, Engines, Files, Cures, Near
<1>3. CASE HealthTryLock
  <2> DEFINE p == <<Simply("check")>>
  <2>1. p \in Seq(Ordinary) /\ p \in Seq(Cures)
    BY <1>2
  <2>2. todo' = [todo EXCEPT !["health"] = p] /\ UNCHANGED <<fetched, seen>>
    BY <1>3 DEF HealthTryLock, local, update
  <2> HIDE DEF p
  <2>3. p \in Seq(Steps) /\ Forgetful(p) /\ \A list : Orderly(p, list)
    BY <2>1, PlansAreInOrder
  <2>4. Listed'
    BY <1>1, <2>1, <2>2, <2>3 DEF Listed
  <2>5. Copied'
    BY <1>1, <2>2, <2>3 DEF Typed, Copied, Recalled, Forgetful
  <2> QED BY <1>3, <2>4, <2>5
          DEF HealthTryLock, Typed, TypeOK, files, others, local, update, past, count
<1>4. CASE HealthCheck
  <2>1. PICK restart \in BOOLEAN, found \in Views("health") :
          /\ Then("health", (IF restart THEN DockerRestart(found.engine) ELSE <<>>)
                              \o <<Simply("unlock")>>)
          /\ View(found)
    BY <1>4 DEF HealthCheck
  <2>0. found.engine \in Engines /\ lost' \in BOOLEAN
    <3>1. found \in States /\ lost' \in BOOLEAN
      BY <1>1, <2>1, ViewsAre, Lost DEF Views
    <3> QED BY <3>1 DEF States
  <2> DEFINE p == IF restart THEN DockerRestart(found.engine) ELSE <<>>
  <2>2. p \in Seq(Ordinary) /\ p \in Seq(Cures)
    <3>1. /\ DockerRestart(found.engine) \in Seq(Ordinary)
          /\ DockerRestart(found.engine) \in Seq(Cures)
          /\ <<>> \in Seq(Ordinary) /\ <<>> \in Seq(Cures)
      <4>1. "none" \in Files
        BY DEF Files
      <4> QED BY <2>0, <4>1, PartsAreOrdinary, RestartCures
    <3> QED BY <3>1
  <2> HIDE DEF p
  <2>3. p \o <<Simply("unlock")>> \in Seq(Ordinary) /\ p \o <<Simply("unlock")>> \in Seq(Cures)
    BY <1>2, <2>2
  <2>4. Then("health", p \o <<Simply("unlock")>>)
    BY <2>1 DEF p
  <2>5. /\ todo["health"] # <<>> /\ todo["health"][1].do # "fetch"
        /\ todo["health"][1].do \notin Near /\ UNCHANGED <<fetched, seen>>
    BY <1>4 DEF HealthCheck, Does, local, update, Near
  <2>6. Listed' /\ Copied'
    <3> DEFINE w == p \o <<Simply("unlock")>>
    <3>1. w \in Seq(Ordinary) /\ w \in Seq(Cures) /\ w \in Seq(Timely) /\ Then("health", w)
      BY <2>3, <2>4, OrdinaryIsStep
    <3> HIDE DEF w
    <3> QED BY <1>1, <2>5, <3>1, Moving, Copying
  <2> QED BY <1>4, <2>0, <2>6
          DEF HealthCheck, Typed, TypeOK, files, others, locks, local, update, count
<1> QED BY <1>3, <1>4

\* The poll thread has no list; what it saves is what it has loaded.
LEMMA TypedPoll ==
  ASSUME Typed, PollLoad \/ PollSave
  PROVE  Typed'
<1>1. /\ "poll" \in Savers /\ "poll" \notin Threads /\ state \in States
      /\ lost \in BOOLEAN
  BY BoundsAssumption DEF Savers, Threads, Typed, TypeOK
<1>2. UNCHANGED <<todo, fetched>>
  BY DEF PollLoad, PollSave, update
<1>3. ASSUME NEW copy \in States \cup {Unread}, seen' = [seen EXCEPT !["poll"] = copy]
      PROVE  Listed' /\ Copied' /\ seen' \in [Savers -> States \cup {Unread}]
  <2>1. /\ seen' \in [Savers -> States \cup {Unread}]
        /\ \A u \in Threads : u # "poll" => seen'[u] = seen[u]
    BY <1>1, <1>3, CopiesOf
  <2>2. \A u \in Threads : seen'[u] = seen[u]
    BY <1>1, <2>1
  <2> QED BY <1>2, <2>1, <2>2 DEF Typed, Listed, Copied
<1>4. CASE PollLoad
  <2>1. PICK found \in Views("poll") :
          seen' = [seen EXCEPT !["poll"] = found] /\ View(found)
    BY <1>4 DEF PollLoad
  <2>2. found \in States /\ lost' \in BOOLEAN
    BY <1>1, <2>1, ViewsAre, Lost DEF Views
  <2>3. Listed' /\ Copied' /\ seen' \in [Savers -> States \cup {Unread}]
    BY <2>1, <2>2, <1>3
  <2>4. incidents' \in 0..MaxIncidents
    BY <1>4, BoundsAssumption DEF PollLoad, Incident, Typed, TypeOK
  <2> QED BY <1>4, <2>2, <2>3, <2>4
          DEF PollLoad, Typed, TypeOK, files, others, locks, update
<1>5. CASE PollSave
  <2>1. /\ seen["poll"] \in States
        /\ Save("poll", seen["poll"], seen["poll"] # state)
    BY <1>1, <1>5 DEF PollSave, Typed, TypeOK
  <2>2. state' \in States /\ lost' \in BOOLEAN
    BY <1>1, <2>1, Saved, Lost
  <2>3. Listed' /\ Copied' /\ seen' \in [Savers -> States \cup {Unread}]
    BY <1>3, <1>5 DEF PollSave, Forget
  <2> QED BY <1>5, <2>2, <2>3
          DEF PollSave, Typed, TypeOK, others, locks, update, count
<1> QED BY <1>4, <1>5

LEMMA TypedDocker ==
  ASSUME Typed, NEW e \in Engines, CrashContainer(e) \/ Revive(e)
  PROVE  Typed'
<1>1. box' \in [Engines -> Boxes]
  BY BoxesStay DEF CrashContainer, Revive
<1>2. incidents' \in 0..MaxIncidents
  BY BoundsAssumption DEF CrashContainer, Revive, Incident, past, count, Typed, TypeOK
<1>3. Listed' /\ Copied'
  BY DEF CrashContainer, Revive, Typed, Listed, Copied, local, update
<1> QED BY <1>1, <1>2, <1>3
       DEF CrashContainer, Revive, Typed, TypeOK, files, others, locks, local, update,
           past, count

LEMMA TypedNext == Typed /\ [Next]_vars => Typed'
<1> SUFFICES ASSUME Typed, [Next]_vars PROVE Typed'
  OBVIOUS
<1>1. ASSUME NEW t \in Threads, Run(t) PROVE Typed'
  <2>1. CASE RestartAfterUpdate(t)
    BY <2>1, TypedRestart DEF RestartAfterUpdate
  <2> QED BY <1>1, <2>1, TypedWork, TypedCopies, TypedLoad, TypedUpdate, TypedChoice,
             TypedFallBack, TypedDefaults DEF Run
<1>2. ASSUME NEW t \in Threads, Begin(t) PROVE Typed'
  BY <1>2, TypedBegin
<1>3. CASE HealthTryLock \/ HealthCheck
  BY <1>3, TypedWatch
<1>4. CASE PollLoad \/ PollSave
  BY <1>4, TypedPoll
<1>5. ASSUME NEW e \in Engines, CrashContainer(e) \/ Revive(e) PROVE Typed'
  BY <1>5, TypedDocker
<1>6. CASE RestartAgent(TRUE)
  BY <1>6, TypedRestart
<1>7. CASE UNCHANGED vars
  BY <1>7 DEF vars, files, others, locks, local, update, past, count, Typed, TypeOK,
              Listed, Copied
<1> QED BY <1>1, <1>2, <1>3, <1>4, <1>5, <1>6, <1>7 DEF Next

LEMMA TypedAlways == Spec => []Typed
BY TypedInit, TypedNext, PTL DEF Spec

\* State, files, others, containers and lists keep to their types, whatever servers,
\* lists of servers and outsiders there are: an update never takes the first
\* of no servers (update_subscription).
THEOREM EngineTypes == Spec => []TypeOK
<1>1. Typed => TypeOK
  BY DEF Typed
<1> QED BY <1>1, TypedAlways, PTL
=============================================================================
