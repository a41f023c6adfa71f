------------------------- MODULE EngineSafetyProofs -------------------------
(***************************************************************************)
(* That only what its container runs becomes the last known good           *)
(* configuration, and that xray and sing-box never both listen once the    *)
(* agent is done, for any servers, lists and bounds, when nobody uses the  *)
(* fleet-cli, as long as no docker command has failed and, for the second, *)
(* no save of the state has been undone since the agent started.           *)
(***************************************************************************)
EXTENDS EngineControlProofs

-----------------------------------------------------------------------------
(* Lists of the worker.  What a decision puts in front of its list are     *)
(* steps of the hands; nothing is decided before they are done.            *)

Records == {"save_manual", "save_smart", "see"}
Hands   == Guarded \cup Verifies \cup Records \cup {"unlock"}

\* The list by which a server is applied, and where in it the container is
\* restarted and the outcome verified.
Play(e, s, how) ==
  <<On("save_rollback", e)>> \o (IF how = "verify" THEN ApplyOutbound(e, s)
                                                   ELSE ApplyConfigs(e, s))
Restarted(e) == IF e = "xray" THEN 6 ELSE 10
End(e, how)  == Restarted(e) + (IF how = "verify" THEN 2 ELSE 3)

Fronted(q) == \A k \in 1..Len(q) :
  q[k].do \in Hands => \A i \in 1..k : q[i].do \in Hands
OneUnlock(q) == \A i, j \in 1..Len(q) :
  q[i].do = "unlock" /\ q[j].do = "unlock" => i = j
\* A verification is ahead of what it verifies: the list up to it is the rest
\* of a play.
Played(q) == \A v \in 1..Len(q) : q[v].do \in Verifies =>
  LET n == End(q[v].engine, q[v].do) IN
  /\ v <= n
  /\ \A i \in 1..v : q[i] = Play(q[v].engine, q[v].config, q[v].do)[n - v + i]
Shaped(q) == Fronted(q) /\ OneUnlock(q) /\ Played(q)

\* A list of which nothing has been done.
Fresh(p) ==
  /\ \A v \in 1..Len(p) : p[v].do \in Verifies => v = End(p[v].engine, p[v].do)
  /\ \A u \in 1..Len(p) : p[u].do = "unlock" => \E k \in 1..u : p[k].do = "lock"

-----------------------------------------------------------------------------
(* Shapes are kept. *)

\* Every step of a list has its place.
LEMMA TailIs ==
  ASSUME NEW q \in Seq(Steps), q # <<>>
  PROVE  /\ Tail(q) \in Seq(Steps) /\ Len(q) \in Nat \ {0} /\ Len(Tail(q)) = Len(q) - 1
         /\ \A i \in 1..Len(Tail(q)) : i + 1 \in 1..Len(q) /\ Tail(q)[i] = q[i + 1]
OBVIOUS

LEMMA EndIs ==
  ASSUME NEW e, NEW how
  PROVE  End(e, how) \in Nat /\ Restarted(e) \in {6, 10}
         /\ End(e, how) \in {Restarted(e) + 2, Restarted(e) + 3}
BY DEF End, Restarted

\* The head of a list is done.
LEMMA ShapedTail ==
  ASSUME NEW q \in Seq(Steps), q # <<>>, Shaped(q)
  PROVE  Shaped(Tail(q))
<1> DEFINE r == Tail(q)
<1>1. /\ r \in Seq(Steps) /\ Len(q) \in Nat \ {0} /\ Len(r) = Len(q) - 1
      /\ \A i \in 1..Len(r) : i + 1 \in 1..Len(q) /\ r[i] = q[i + 1]
  BY TailIs
<1> HIDE DEF r
<1>2. ASSUME NEW k \in 1..Len(r), r[k].do \in Hands, NEW i \in 1..k
      PROVE  r[i].do \in Hands
  <2>1. /\ k + 1 \in 1..Len(q) /\ q[k + 1].do \in Hands
        /\ i + 1 \in 1..(k + 1) /\ r[i] = q[i + 1]
    BY <1>1, <1>2
  <2> QED BY <2>1 DEF Shaped, Fronted
<1>3. ASSUME NEW i \in 1..Len(r), NEW j \in 1..Len(r),
             r[i].do = "unlock" /\ r[j].do = "unlock"
      PROVE  i = j
  <2>1. i + 1 = j + 1
    BY <1>1, <1>3 DEF Shaped, OneUnlock
  <2> QED BY <2>1
<1>4. ASSUME NEW v \in 1..Len(r), r[v].do \in Verifies
      PROVE  LET n == End(r[v].engine, r[v].do) IN
             /\ v <= n
             /\ \A i \in 1..v : r[i] = Play(r[v].engine, r[v].config, r[v].do)[n - v + i]
  <2> DEFINE n == End(r[v].engine, r[v].do)
             b == Play(r[v].engine, r[v].config, r[v].do)
  <2>1. n \in Nat
    BY EndIs
  <2>2. v + 1 \in 1..Len(q) /\ q[v + 1] = r[v]
    BY <1>1
  <2>3. v + 1 <= n /\ \A i \in 1..(v + 1) : q[i] = b[n - (v + 1) + i]
    BY <1>4, <2>2 DEF Shaped, Played
  <2> HIDE DEF n, b
  <2>4. ASSUME NEW i \in 1..v PROVE r[i] = b[n - v + i]
    <3>1. i + 1 \in 1..(v + 1) /\ r[i] = q[i + 1] /\ n - (v + 1) + (i + 1) = n - v + i
      BY <1>1, <2>1
    <3> QED BY <2>3, <3>1
  <2>5. v <= n
    BY <2>1, <2>3
  <2> QED BY <2>4, <2>5 DEF n, b
<1> QED BY <1>2, <1>3, <1>4 DEF Shaped, Fronted, OneUnlock, Played, r

\* A decision is taken when the hands have nothing to do, and puts its branch
\* in front.
LEMMA ShapedBranch ==
  ASSUME NEW p \in Seq(Steps), Shaped(p), NEW q \in Seq(Steps), q # <<>>,
         Fronted(q), q[1].do \notin Hands
  PROVE  /\ \A k \in 1..Len(q) : q[k].do \notin Hands
         /\ Shaped(p \o Tail(q))
         /\ Fresh(p) => Fresh(p \o Tail(q))
<1> DEFINE r == p \o Tail(q)
<1>1. /\ r \in Seq(Steps) /\ Len(q) \in Nat \ {0} /\ Len(p) \in Nat
      /\ Len(r) = Len(p) + Len(q) - 1
      /\ \A i \in 1..Len(p) : r[i] = p[i]
      /\ \A i \in (Len(p) + 1)..(Len(p) + Len(q) - 1) : r[i] = q[i - Len(p) + 1]
  BY Spliced
<1> HIDE DEF r
<1>2. ASSUME NEW k \in 1..Len(q) PROVE q[k].do \notin Hands
  <2>1. 1 \in 1..k
    BY <1>1
  <2> QED BY <2>1 DEF Fronted
<1>3. ASSUME NEW k \in 1..Len(r), r[k].do \in Hands
      PROVE  k \in 1..Len(p) /\ r[k] = p[k] /\ \A i \in 1..k : i \in 1..Len(p) /\ r[i] = p[i]
  <2>1. CASE k <= Len(p)
    BY <2>1, <1>1
  <2>2. CASE k > Len(p)
    <3>1. k - Len(p) + 1 \in 1..Len(q) /\ r[k] = q[k - Len(p) + 1]
      BY <1>1, <2>2
    <3> QED BY <3>1, <1>2, <1>3
  <2> QED BY <2>1, <2>2, <1>1
<1>4. "unlock" \in Hands /\ Verifies \subseteq Hands
  BY DEF Hands
<1>5. Fronted(r)
  BY <1>3 DEF Shaped, Fronted
<1>6. OneUnlock(r)
  BY <1>3, <1>4 DEF Shaped, OneUnlock
<1>7. Played(r)
  BY <1>3, <1>4 DEF Shaped, Played
<1>8. ASSUME Fresh(p) PROVE Fresh(r)
  BY SMTT(30), <1>3, <1>4, <1>8 DEF Fresh
<1> QED BY <1>2, <1>5, <1>6, <1>7, <1>8 DEF Shaped, r

\* A list without steps of the hands.
LEMMA ShapedPlan ==
  ASSUME NEW p, \A k \in 1..Len(p) : p[k].do \notin Hands
  PROVE  Shaped(p) /\ Fresh(p)
<1>1. "unlock" \in Hands /\ Verifies \subseteq Hands
  BY DEF Hands
<1> QED BY <1>1 DEF Shaped, Fronted, OneUnlock, Played, Fresh

\* A list that verifies and unlocks nothing, between the steps of the hands.
LEMMA ShapedWork ==
  ASSUME NEW p, \A k \in 1..Len(p) : p[k].do \in Hands \ (Verifies \cup {"unlock"})
  PROVE  Shaped(p) /\ Fresh(p)
<1>1. ASSUME NEW k \in 1..Len(p), NEW i \in 1..k PROVE p[i].do \in Hands
  <2>1. i \in 1..Len(p)
    OBVIOUS
  <2> QED BY <2>1
<1> QED BY <1>1 DEF Shaped, Fronted, OneUnlock, Played, Fresh

-----------------------------------------------------------------------------
(* The plays. *)

\* sing-box is started; xray is given something that proxies or listens.
Sings(step)  == /\ step.do \in {"start", "start_once", "restart"}
                /\ step.engine = "singbox"
Voices(step) == step.do = "write" /\ step.engine = "xray" /\ step.config # "dummy"

\* A play at a glance: what its steps do.
PlayedOut(p, e, s, how) ==
  LET r == Restarted(e)
      n == End(e, how) IN
  /\ Len(p) = IF how = "verify" THEN n + 2 ELSE n + 1
  /\ p[2].do = "lock" /\ p[5] = Step("write", e, s) /\ p[r] = On("restart", e)
  /\ p[n - 1] = On("save_engine", e) /\ p[n] = Step(how, e, s)
  /\ \A i \in 1..(n - 1) : p[i].do \in Guarded
  /\ \A i \in 1..Len(p) : i > n => p[i].do \in {"funlock", "unlock"}
  /\ \A i \in 1..Len(p) : p[i].do = "unlock" <=> i = Len(p)
  /\ \A i \in 6..(n - 1) : p[i].do = "write" => p[i].engine # e
  /\ \A i \in (r + 1)..(n - 1) : p[i].do \in {"funlock", "save_engine"}
  /\ \A i \in 1..n : p[i].do = how <=> i = n
  /\ p[1].do = "save_rollback" /\ p[4] = On("stop", Other(e))
  /\ \A i \in 1..Len(p) : p[i].do = "save_engine" <=> i = n - 1
  /\ \A i \in 1..Len(p) : Sings(p[i]) => i = 10 /\ e = "singbox"
  /\ \A i \in 1..Len(p) : Voices(p[i]) => i = 5 /\ e = "xray"
  /\ e = "singbox" => /\ p[6] = Step("write", "xray", "dummy")
                      /\ p[7] = On("stop", "singbox") /\ p[8] = On("stop", "xray")
                      /\ p[9] = On("start", "xray")

LEMMA XrayPlayVerified ==
  ASSUME NEW s \in Servers
  PROVE  PlayedOut(Play("xray", s, "verify"), "xray", s, "verify")
<1> DEFINE p == Play("xray", s, "verify")
<1>1. /\ Len(p) = 10 /\ p[1] = On("save_rollback", "xray") /\ p[2] = Simply("lock")
      /\ p[3] = Simply("flock") /\ p[4] = On("stop", "singbox")
      /\ p[5] = Step("write", "xray", s) /\ p[6] = On("restart", "xray")
      /\ p[7] = On("save_engine", "xray") /\ p[8] = Step("verify", "xray", s)
      /\ p[9] = Simply("funlock") /\ p[10] = Simply("unlock")
  BY SMT DEF Play, ApplyOutbound, WriteAndRestart, DockerRestart, EnsureDummy, Other
<1> HIDE DEF p
<1>2. /\ p[1].do = "save_rollback" /\ p[2].do = "lock" /\ p[3].do = "flock"
      /\ p[4].do = "stop" /\ p[5].do = "write" /\ p[6].do = "restart"
      /\ p[7].do = "save_engine" /\ p[8].do = "verify" /\ p[9].do = "funlock"
      /\ p[10].do = "unlock" /\ p[5].engine = "xray" /\ p[6].engine = "xray"
  BY <1>1, SMT DEF On, Simply, Step
<1>3. Restarted("xray") = 6 /\ End("xray", "verify") = 8
  BY DEF Restarted, End
<1>4. ASSUME NEW i \in 1..10
      PROVE  /\ i < 8 => p[i].do \in Guarded
             /\ i > 8 => p[i].do \in {"funlock", "unlock"}
             /\ p[i].do = "unlock" <=> i = 10
             /\ i >= 6 /\ p[i].do = "write" => p[i].engine # "xray"
             /\ i > 6 /\ i < 8 => p[i].do \in {"funlock", "save_engine"}
             /\ p[i].do = "verify" <=> i = 8
             /\ p[i].do = "save_engine" <=> i = 7
             /\ ~ Sings(p[i])
             /\ ~ Voices(p[i]) \/ i = 5
  <2>1. i \in {1, 2, 3, 4, 5, 6, 7, 8, 9, 10}
    OBVIOUS
  <2>2. i < 8 => p[i].do \in Guarded
    BY <1>2, <2>1, SMT DEF Guarded
  <2>3. i > 8 => p[i].do \in {"funlock", "unlock"}
    BY <1>2, <2>1, SMT
  <2>4. p[i].do = "unlock" <=> i = 10
    BY <1>2, <2>1, SMT
  <2>5. i >= 6 /\ p[i].do = "write" => p[i].engine # "xray"
    BY <1>2, <2>1, SMT
  <2>6. i > 6 /\ i < 8 => p[i].do \in {"funlock", "save_engine"}
    BY <1>2, <2>1, SMT
  <2>7. p[i].do = "verify" <=> i = 8
    BY <1>2, <2>1, SMT
  <2>8. p[i].do = "save_engine" <=> i = 7
    BY <1>2, <2>1, SMT
  <2>9. ~ Sings(p[i])
    BY <1>2, <2>1, SMT DEF Sings
  <2>10. ~ Voices(p[i]) \/ i = 5
    BY <1>2, <2>1, SMT DEF Voices
  <2> QED BY <2>2, <2>3, <2>4, <2>5, <2>6, <2>7, <2>8, <2>9, <2>10
<1>5. /\ \A i \in 1..(8 - 1) : p[i].do \in Guarded
      /\ \A i \in 1..Len(p) : i > 8 => p[i].do \in {"funlock", "unlock"}
      /\ \A i \in 1..Len(p) : p[i].do = "unlock" <=> i = Len(p)
      /\ \A i \in 6..(8 - 1) : p[i].do = "write" => p[i].engine # "xray"
      /\ \A i \in (6 + 1)..(8 - 1) : p[i].do \in {"funlock", "save_engine"}
      /\ \A i \in 1..8 : p[i].do = "verify" <=> i = 8
      /\ \A i \in 1..Len(p) : p[i].do = "save_engine" <=> i = 8 - 1
      /\ \A i \in 1..Len(p) : Sings(p[i]) => i = 10 /\ "xray" = "singbox"
      /\ \A i \in 1..Len(p) : Voices(p[i]) => i = 5 /\ "xray" = "xray"
  BY <1>1, <1>4
<1>6. /\ Len(p) = (IF "verify" = "verify" THEN 8 + 2 ELSE 8 + 1)
      /\ p[2].do = "lock" /\ p[5] = Step("write", "xray", s) /\ p[6] = On("restart", "xray")
      /\ p[8 - 1] = On("save_engine", "xray") /\ p[8] = Step("verify", "xray", s)
      /\ p[1].do = "save_rollback" /\ p[4] = On("stop", Other("xray"))
  BY <1>1, <1>2, SMT DEF Other
<1>7. "xray" # "singbox"
  OBVIOUS
<1> QED BY <1>3, <1>5, <1>6, <1>7, ZenonT(60) DEF PlayedOut, p

LEMMA XrayPlayRolledBack ==
  ASSUME NEW s \in Servers
  PROVE  PlayedOut(Play("xray", s, "verify_or_roll_back"), "xray", s, "verify_or_roll_back")
<1> DEFINE p == Play("xray", s, "verify_or_roll_back")
<1>1. /\ Len(p) = 10 /\ p[1] = On("save_rollback", "xray") /\ p[2] = Simply("lock")
      /\ p[3] = Simply("flock") /\ p[4] = On("stop", "singbox")
      /\ p[5] = Step("write", "xray", s) /\ p[6] = On("restart", "xray")
      /\ p[7] = Simply("funlock") /\ p[8] = On("save_engine", "xray")
      /\ p[9] = Step("verify_or_roll_back", "xray", s) /\ p[10] = Simply("unlock")
  BY SMT DEF Play, ApplyConfigs, WriteAndRestart, DockerRestart, EnsureDummy, Other
<1> HIDE DEF p
<1>2. /\ p[1].do = "save_rollback" /\ p[2].do = "lock" /\ p[3].do = "flock"
      /\ p[4].do = "stop" /\ p[5].do = "write" /\ p[6].do = "restart"
      /\ p[7].do = "funlock" /\ p[8].do = "save_engine"
      /\ p[9].do = "verify_or_roll_back" /\ p[10].do = "unlock"
      /\ p[5].engine = "xray" /\ p[6].engine = "xray"
  BY <1>1, SMT DEF On, Simply, Step
<1>3. Restarted("xray") = 6 /\ End("xray", "verify_or_roll_back") = 9
  BY DEF Restarted, End
<1>4. ASSUME NEW i \in 1..10
      PROVE  /\ i < 9 => p[i].do \in Guarded
             /\ i > 9 => p[i].do \in {"funlock", "unlock"}
             /\ p[i].do = "unlock" <=> i = 10
             /\ i >= 6 /\ p[i].do = "write" => p[i].engine # "xray"
             /\ i > 6 /\ i < 9 => p[i].do \in {"funlock", "save_engine"}
             /\ p[i].do = "verify_or_roll_back" <=> i = 9
             /\ p[i].do = "save_engine" <=> i = 8
             /\ ~ Sings(p[i])
             /\ ~ Voices(p[i]) \/ i = 5
  <2>1. i \in {1, 2, 3, 4, 5, 6, 7, 8, 9, 10}
    OBVIOUS
  <2>2. i < 9 => p[i].do \in Guarded
    BY <1>2, <2>1, SMT DEF Guarded
  <2>3. i > 9 => p[i].do \in {"funlock", "unlock"}
    BY <1>2, <2>1, SMT
  <2>4. p[i].do = "unlock" <=> i = 10
    BY <1>2, <2>1, SMT
  <2>5. i >= 6 /\ p[i].do = "write" => p[i].engine # "xray"
    BY <1>2, <2>1, SMT
  <2>6. i > 6 /\ i < 9 => p[i].do \in {"funlock", "save_engine"}
    BY <1>2, <2>1, SMT
  <2>7. p[i].do = "verify_or_roll_back" <=> i = 9
    BY <1>2, <2>1, SMT
  <2>8. p[i].do = "save_engine" <=> i = 8
    BY <1>2, <2>1, SMT
  <2>9. ~ Sings(p[i])
    BY <1>2, <2>1, SMT DEF Sings
  <2>10. ~ Voices(p[i]) \/ i = 5
    BY <1>2, <2>1, SMT DEF Voices
  <2> QED BY <2>2, <2>3, <2>4, <2>5, <2>6, <2>7, <2>8, <2>9, <2>10
<1>5. /\ \A i \in 1..(9 - 1) : p[i].do \in Guarded
      /\ \A i \in 1..Len(p) : i > 9 => p[i].do \in {"funlock", "unlock"}
      /\ \A i \in 1..Len(p) : p[i].do = "unlock" <=> i = Len(p)
      /\ \A i \in 6..(9 - 1) : p[i].do = "write" => p[i].engine # "xray"
      /\ \A i \in (6 + 1)..(9 - 1) : p[i].do \in {"funlock", "save_engine"}
      /\ \A i \in 1..9 : p[i].do = "verify_or_roll_back" <=> i = 9
      /\ \A i \in 1..Len(p) : p[i].do = "save_engine" <=> i = 9 - 1
      /\ \A i \in 1..Len(p) : Sings(p[i]) => i = 10 /\ "xray" = "singbox"
      /\ \A i \in 1..Len(p) : Voices(p[i]) => i = 5 /\ "xray" = "xray"
  BY <1>1, <1>4
<1>6. /\ Len(p) = (IF "verify_or_roll_back" = "verify" THEN 9 + 2 ELSE 9 + 1)
      /\ p[2].do = "lock" /\ p[5] = Step("write", "xray", s) /\ p[6] = On("restart", "xray")
      /\ p[9 - 1] = On("save_engine", "xray") /\ p[9] = Step("verify_or_roll_back", "xray", s)
      /\ p[1].do = "save_rollback" /\ p[4] = On("stop", Other("xray"))
  BY <1>1, <1>2, SMT DEF Other
<1>7. "xray" # "singbox"
  OBVIOUS
<1> QED BY <1>3, <1>5, <1>6, <1>7, ZenonT(60) DEF PlayedOut, p

LEMMA SingboxPlayVerified ==
  ASSUME NEW s \in Servers
  PROVE  PlayedOut(Play("singbox", s, "verify"), "singbox", s, "verify")
<1> DEFINE p == Play("singbox", s, "verify")
<1>1. /\ Len(p) = 14 /\ p[1] = On("save_rollback", "singbox") /\ p[2] = Simply("lock")
      /\ p[3] = Simply("flock") /\ p[4] = On("stop", "xray")
      /\ p[5] = Step("write", "singbox", s) /\ p[6] = Step("write", "xray", "dummy")
      /\ p[7] = On("stop", "singbox") /\ p[8] = On("stop", "xray")
      /\ p[9] = On("start", "xray") /\ p[10] = On("restart", "singbox")
      /\ p[11] = On("save_engine", "singbox") /\ p[12] = Step("verify", "singbox", s)
      /\ p[13] = Simply("funlock") /\ p[14] = Simply("unlock")
  BY SMT DEF Play, ApplyOutbound, WriteAndRestart, DockerRestart, EnsureDummy, Other
<1> HIDE DEF p
<1>2. /\ p[1].do = "save_rollback" /\ p[2].do = "lock" /\ p[3].do = "flock"
      /\ p[4].do = "stop" /\ p[5].do = "write" /\ p[6].do = "write"
      /\ p[7].do = "stop" /\ p[8].do = "stop" /\ p[9].do = "start"
      /\ p[10].do = "restart" /\ p[11].do = "save_engine" /\ p[12].do = "verify"
      /\ p[13].do = "funlock" /\ p[14].do = "unlock" /\ p[5].engine = "singbox"
      /\ p[6].engine = "xray"
      /\ p[6].config = "dummy" /\ p[9].engine = "xray"
  BY <1>1, SMT DEF On, Simply, Step
<1>3. Restarted("singbox") = 10 /\ End("singbox", "verify") = 12
  BY DEF Restarted, End
<1>4. ASSUME NEW i \in 1..14
      PROVE  /\ i < 12 => p[i].do \in Guarded
             /\ i > 12 => p[i].do \in {"funlock", "unlock"}
             /\ p[i].do = "unlock" <=> i = 14
             /\ i >= 6 /\ p[i].do = "write" => p[i].engine # "singbox"
             /\ i > 10 /\ i < 12 => p[i].do \in {"funlock", "save_engine"}
             /\ p[i].do = "verify" <=> i = 12
             /\ p[i].do = "save_engine" <=> i = 11
             /\ ~ Sings(p[i]) \/ i = 10
             /\ ~ Voices(p[i])
  <2>1. i \in {1, 2, 3, 4, 5, 6, 7, 8, 9, 10, 11, 12, 13, 14}
    OBVIOUS
  <2>2. i < 12 => p[i].do \in Guarded
    BY <1>2, <2>1, SMT DEF Guarded
  <2>3. i > 12 => p[i].do \in {"funlock", "unlock"}
    BY <1>2, <2>1, SMT
  <2>4. p[i].do = "unlock" <=> i = 14
    BY <1>2, <2>1, SMT
  <2>5. i >= 6 /\ p[i].do = "write" => p[i].engine # "singbox"
    BY <1>2, <2>1, SMT
  <2>6. i > 10 /\ i < 12 => p[i].do \in {"funlock", "save_engine"}
    BY <1>2, <2>1, SMT
  <2>7. p[i].do = "verify" <=> i = 12
    BY <1>2, <2>1, SMT
  <2>8. p[i].do = "save_engine" <=> i = 11
    BY <1>2, <2>1, SMT
  <2>9. ~ Sings(p[i]) \/ i = 10
    BY <1>2, <2>1, SMT DEF Sings
  <2>10. ~ Voices(p[i])
    BY <1>2, <2>1, SMT DEF Voices
  <2> QED BY <2>2, <2>3, <2>4, <2>5, <2>6, <2>7, <2>8, <2>9, <2>10
<1>5. /\ \A i \in 1..(12 - 1) : p[i].do \in Guarded
      /\ \A i \in 1..Len(p) : i > 12 => p[i].do \in {"funlock", "unlock"}
      /\ \A i \in 1..Len(p) : p[i].do = "unlock" <=> i = Len(p)
      /\ \A i \in 6..(12 - 1) : p[i].do = "write" => p[i].engine # "singbox"
      /\ \A i \in (10 + 1)..(12 - 1) : p[i].do \in {"funlock", "save_engine"}
      /\ \A i \in 1..12 : p[i].do = "verify" <=> i = 12
      /\ \A i \in 1..Len(p) : p[i].do = "save_engine" <=> i = 12 - 1
      /\ \A i \in 1..Len(p) : Sings(p[i]) => i = 10 /\ "singbox" = "singbox"
      /\ \A i \in 1..Len(p) : Voices(p[i]) => i = 5 /\ "singbox" = "xray"
  BY <1>1, <1>4
<1>6. /\ Len(p) = (IF "verify" = "verify" THEN 12 + 2 ELSE 12 + 1)
      /\ p[2].do = "lock" /\ p[5] = Step("write", "singbox", s) /\ p[10] = On("restart", "singbox")
      /\ p[12 - 1] = On("save_engine", "singbox") /\ p[12] = Step("verify", "singbox", s)
      /\ p[1].do = "save_rollback" /\ p[4] = On("stop", Other("singbox"))
      /\ p[6] = Step("write", "xray", "dummy") /\ p[7] = On("stop", "singbox")
      /\ p[8] = On("stop", "xray") /\ p[9] = On("start", "xray")
  BY <1>1, <1>2, SMT DEF Other
<1>7. "xray" # "singbox"
  OBVIOUS
<1> QED BY <1>3, <1>5, <1>6, <1>7, ZenonT(60) DEF PlayedOut, p

LEMMA SingboxPlayRolledBack ==
  ASSUME NEW s \in Servers
  PROVE  PlayedOut(Play("singbox", s, "verify_or_roll_back"), "singbox", s, "verify_or_roll_back")
<1> DEFINE p == Play("singbox", s, "verify_or_roll_back")
<1>1. /\ Len(p) = 14 /\ p[1] = On("save_rollback", "singbox") /\ p[2] = Simply("lock")
      /\ p[3] = Simply("flock") /\ p[4] = On("stop", "xray")
      /\ p[5] = Step("write", "singbox", s) /\ p[6] = Step("write", "xray", "dummy")
      /\ p[7] = On("stop", "singbox") /\ p[8] = On("stop", "xray")
      /\ p[9] = On("start", "xray") /\ p[10] = On("restart", "singbox")
      /\ p[11] = Simply("funlock") /\ p[12] = On("save_engine", "singbox")
      /\ p[13] = Step("verify_or_roll_back", "singbox", s) /\ p[14] = Simply("unlock")
  BY SMT DEF Play, ApplyConfigs, WriteAndRestart, DockerRestart, EnsureDummy, Other
<1> HIDE DEF p
<1>2. /\ p[1].do = "save_rollback" /\ p[2].do = "lock" /\ p[3].do = "flock"
      /\ p[4].do = "stop" /\ p[5].do = "write" /\ p[6].do = "write"
      /\ p[7].do = "stop" /\ p[8].do = "stop" /\ p[9].do = "start"
      /\ p[10].do = "restart" /\ p[11].do = "funlock" /\ p[12].do = "save_engine"
      /\ p[13].do = "verify_or_roll_back" /\ p[14].do = "unlock"
      /\ p[5].engine = "singbox" /\ p[6].engine = "xray"
      /\ p[6].config = "dummy" /\ p[9].engine = "xray"
  BY <1>1, SMT DEF On, Simply, Step
<1>3. Restarted("singbox") = 10 /\ End("singbox", "verify_or_roll_back") = 13
  BY DEF Restarted, End
<1>4. ASSUME NEW i \in 1..14
      PROVE  /\ i < 13 => p[i].do \in Guarded
             /\ i > 13 => p[i].do \in {"funlock", "unlock"}
             /\ p[i].do = "unlock" <=> i = 14
             /\ i >= 6 /\ p[i].do = "write" => p[i].engine # "singbox"
             /\ i > 10 /\ i < 13 => p[i].do \in {"funlock", "save_engine"}
             /\ p[i].do = "verify_or_roll_back" <=> i = 13
             /\ p[i].do = "save_engine" <=> i = 12
             /\ ~ Sings(p[i]) \/ i = 10
             /\ ~ Voices(p[i])
  <2>1. i \in {1, 2, 3, 4, 5, 6, 7, 8, 9, 10, 11, 12, 13, 14}
    OBVIOUS
  <2>2. i < 13 => p[i].do \in Guarded
    BY <1>2, <2>1, SMT DEF Guarded
  <2>3. i > 13 => p[i].do \in {"funlock", "unlock"}
    BY <1>2, <2>1, SMT
  <2>4. p[i].do = "unlock" <=> i = 14
    BY <1>2, <2>1, SMT
  <2>5. i >= 6 /\ p[i].do = "write" => p[i].engine # "singbox"
    BY <1>2, <2>1, SMT
  <2>6. i > 10 /\ i < 13 => p[i].do \in {"funlock", "save_engine"}
    BY <1>2, <2>1, SMT
  <2>7. p[i].do = "verify_or_roll_back" <=> i = 13
    BY <1>2, <2>1, SMT
  <2>8. p[i].do = "save_engine" <=> i = 12
    BY <1>2, <2>1, SMT
  <2>9. ~ Sings(p[i]) \/ i = 10
    BY <1>2, <2>1, SMT DEF Sings
  <2>10. ~ Voices(p[i])
    BY <1>2, <2>1, SMT DEF Voices
  <2> QED BY <2>2, <2>3, <2>4, <2>5, <2>6, <2>7, <2>8, <2>9, <2>10
<1>5. /\ \A i \in 1..(13 - 1) : p[i].do \in Guarded
      /\ \A i \in 1..Len(p) : i > 13 => p[i].do \in {"funlock", "unlock"}
      /\ \A i \in 1..Len(p) : p[i].do = "unlock" <=> i = Len(p)
      /\ \A i \in 6..(13 - 1) : p[i].do = "write" => p[i].engine # "singbox"
      /\ \A i \in (10 + 1)..(13 - 1) : p[i].do \in {"funlock", "save_engine"}
      /\ \A i \in 1..13 : p[i].do = "verify_or_roll_back" <=> i = 13
      /\ \A i \in 1..Len(p) : p[i].do = "save_engine" <=> i = 13 - 1
      /\ \A i \in 1..Len(p) : Sings(p[i]) => i = 10 /\ "singbox" = "singbox"
      /\ \A i \in 1..Len(p) : Voices(p[i]) => i = 5 /\ "singbox" = "xray"
  BY <1>1, <1>4
<1>6. /\ Len(p) = (IF "verify_or_roll_back" = "verify" THEN 13 + 2 ELSE 13 + 1)
      /\ p[2].do = "lock" /\ p[5] = Step("write", "singbox", s) /\ p[10] = On("restart", "singbox")
      /\ p[13 - 1] = On("save_engine", "singbox") /\ p[13] = Step("verify_or_roll_back", "singbox", s)
      /\ p[1].do = "save_rollback" /\ p[4] = On("stop", Other("singbox"))
      /\ p[6] = Step("write", "xray", "dummy") /\ p[7] = On("stop", "singbox")
      /\ p[8] = On("stop", "xray") /\ p[9] = On("start", "xray")
  BY <1>1, <1>2, SMT DEF Other
<1>7. "xray" # "singbox"
  OBVIOUS
<1> QED BY <1>3, <1>5, <1>6, <1>7, ZenonT(60) DEF PlayedOut, p

LEMMA Plays ==
  ASSUME NEW s \in Servers, NEW how \in Verifies
  PROVE  PlayedOut(Play(EngineOf(s), s, how), EngineOf(s), s, how)
<1>1. EngineOf(s) \in {"xray", "singbox"} /\ how \in {"verify", "verify_or_roll_back"}
  BY DEF EngineOf, Verifies
<1> QED BY <1>1, XrayPlayVerified, XrayPlayRolledBack, SingboxPlayVerified,
           SingboxPlayRolledBack

\* A play and what may follow it.
LEMMA ShapedPlay ==
  ASSUME NEW s \in Servers, NEW how \in Verifies, NEW x \in Seq(Steps), Len(x) <= 1,
         Play(EngineOf(s), s, how) \in Seq(Steps),
         \A i \in 1..Len(x) : x[i].do \notin Verifies \cup {"unlock"}
  PROVE  /\ Shaped(Play(EngineOf(s), s, how) \o x)
         /\ Fresh(Play(EngineOf(s), s, how) \o x)
<1> DEFINE e == EngineOf(s)
           b == Play(e, s, how)
           n == End(e, how)
           p == b \o x
<1>1. /\ n \in Nat /\ n >= 8 /\ Len(b) \in Nat /\ Len(b) > n /\ b \in Seq(Steps)
      /\ b[2].do = "lock" /\ b[n] = Step(how, e, s)
      /\ \A i \in 1..(n - 1) : b[i].do \in Guarded
      /\ \A i \in 1..Len(b) : i > n => b[i].do \in {"funlock", "unlock"}
      /\ \A i \in 1..Len(b) : b[i].do = "unlock" <=> i = Len(b)
  <2>1. PlayedOut(b, e, s, how) /\ b \in Seq(Steps)
    BY Plays
  <2>2. n \in Nat /\ n >= 8
    BY EndIs
  <2> HIDE DEF b
  <2>3. n = End(e, how)
    OBVIOUS
  <2> HIDE DEF n
  <2>4. /\ Len(b) = (IF how = "verify" THEN n + 2 ELSE n + 1)
        /\ b[2].do = "lock" /\ b[n] = Step(how, e, s)
        /\ \A i \in 1..(n - 1) : b[i].do \in Guarded
        /\ \A i \in 1..Len(b) : i > n => b[i].do \in {"funlock", "unlock"}
        /\ \A i \in 1..Len(b) : b[i].do = "unlock" <=> i = Len(b)
    BY <2>1, <2>3, Zenon DEF PlayedOut
  <2> QED BY <2>1, <2>2, <2>4
<1>2. b[n].do = how /\ b[n].engine = e /\ b[n].config = s
  BY <1>1 DEF Step
<1>3. Play(e, s, how) = b
  OBVIOUS
<1> HIDE DEF b, n
<1>4. /\ p \in Seq(Steps) /\ Len(p) = Len(b) + Len(x) /\ Len(p) <= Len(b) + 1
      /\ \A i \in 1..Len(b) : p[i] = b[i]
      /\ \A i \in (Len(b) + 1)..Len(p) : p[i] = x[i - Len(b)]
  <2>1. /\ b \o x \in Seq(Steps) /\ Len(b \o x) = Len(b) + Len(x)
        /\ \A i \in 1..Len(b) : (b \o x)[i] = b[i]
        /\ \A i \in (Len(b) + 1)..(Len(b) + Len(x)) : (b \o x)[i] = x[i - Len(b)]
    BY <1>1, Joined
  <2> QED BY <2>1, <1>1
<1> HIDE DEF p
<1>5. ASSUME NEW k \in 1..Len(p)
      PROVE  /\ k <= Len(b) => p[k].do \in Hands
             /\ p[k].do \in Verifies <=> k = n
             /\ p[k].do = "unlock" <=> k = Len(b)
  <2>0. /\ {"funlock", "unlock"} \cap Verifies = {} /\ Guarded \cap Verifies = {}
        /\ "unlock" \notin Guarded \cup Verifies
        /\ Guarded \cup Verifies \cup {"funlock", "unlock"} \subseteq Hands
    BY DEF Guarded, Verifies, Hands
  <2>1. CASE k < n
    <3>1. k \in 1..(n - 1) /\ k \in 1..Len(b) /\ k # Len(b)
      BY <2>1, <1>1, <1>4
    <3>2. p[k].do \in Guarded
      BY <3>1, <1>1, <1>4
    <3>3. /\ p[k].do \in Hands /\ p[k].do \notin Verifies /\ p[k].do # "unlock"
          /\ k # n /\ k # Len(b)
      BY <2>0, <2>1, <3>1, <3>2, <1>1
    <3> QED BY <3>3
  <2>2. CASE k = n
    <3>1. p[k].do = how
      BY <2>2, <1>1, <1>2, <1>4
    <3> QED BY <2>0, <2>2, <3>1, <1>1
  <2>3. CASE k > n /\ k <= Len(b)
    <3>1. k \in 1..Len(b) /\ p[k] = b[k] /\ k # n
      BY <2>3, <1>1, <1>4
    <3>2. b[k].do \in {"funlock", "unlock"} /\ (b[k].do = "unlock" <=> k = Len(b))
      BY <2>3, <3>1, <1>1
    <3>3. b[k].do \in Hands /\ b[k].do \notin Verifies
      BY <2>0, <3>2
    <3> QED BY <3>1, <3>2, <3>3
  <2>4. CASE k > Len(b)
    <3>1. k - Len(b) \in 1..Len(x) /\ p[k] = x[k - Len(b)]
      BY <2>4, <1>1, <1>4
    <3>2. p[k].do \notin Verifies \cup {"unlock"}
      BY <3>1, Zenon
    <3>3. ~ (k <= Len(b)) /\ k # n /\ k # Len(b)
      BY <2>4, <1>1, <1>4
    <3>4. p[k].do \notin Verifies /\ p[k].do # "unlock"
      BY <3>2
    <3> QED BY <3>3, <3>4
  <2> QED BY <2>1, <2>2, <2>3, <2>4, <1>1, <1>4
<1>6. Fronted(p)
  <2>1. ASSUME NEW k \in 1..Len(p), p[k].do \in Hands, NEW i \in 1..k
        PROVE  p[i].do \in Hands
    <3>1. i \in 1..Len(p) /\ (i = k \/ i <= Len(b))
      BY <1>1, <1>4
    <3> QED BY <2>1, <3>1, <1>5
  <2> QED BY <2>1 DEF Fronted
<1>7. OneUnlock(p)
  BY <1>5 DEF OneUnlock
<1>8. ASSUME NEW v \in 1..Len(p), p[v].do \in Verifies
      PROVE  /\ v = n /\ End(p[v].engine, p[v].do) = n
             /\ \A i \in 1..v : p[i] = Play(p[v].engine, p[v].config, p[v].do)[n - v + i]
  <2>1. v = n /\ p[v].engine = e /\ p[v].config = s /\ p[v].do = how
    <3>1. v = n
      BY <1>5, <1>8, Zenon
    <3>2. n \in 1..Len(b)
      BY <1>1
    <3>3. p[n] = b[n]
      BY <1>4, <3>2
    <3> QED BY <3>1, <3>3, <1>2, Zenon
  <2>2. ASSUME NEW i \in 1..n PROVE p[i] = b[n - n + i]
    <3>1. i \in 1..Len(b) /\ n - n + i = i
      BY <1>1
    <3> QED BY <1>4, <3>1
  <2> QED BY <2>1, <2>2, <1>3 DEF n
<1>9. Played(p)
  <2>1. ASSUME NEW v \in 1..Len(p), p[v].do \in Verifies
        PROVE  LET m == End(p[v].engine, p[v].do) IN
               /\ v <= m
               /\ \A i \in 1..v : p[i] = Play(p[v].engine, p[v].config, p[v].do)[m - v + i]
    <3>1. /\ v = n /\ End(p[v].engine, p[v].do) = n
          /\ \A i \in 1..v : p[i] = Play(p[v].engine, p[v].config, p[v].do)[n - v + i]
      BY <2>1, <1>8, Zenon
    <3>2. n <= n
      BY <1>1
    <3> QED BY <3>1, <3>2, ZenonT(60)
  <2> QED BY <2>1 DEF Played
<1>10. Fresh(p)
  <2>1. 2 \in 1..Len(b) /\ p[2].do = "lock"
    BY <1>1, <1>4
  <2>2. \A v \in 1..Len(p) : p[v].do \in Verifies => v = End(p[v].engine, p[v].do)
    BY <1>8
  <2>3. ASSUME NEW u \in 1..Len(p), p[u].do = "unlock"
        PROVE  \E k \in 1..u : p[k].do = "lock"
    <3>1. 2 \in 1..u
      BY <2>3, <1>1, <1>5
    <3> QED BY <3>1, <2>1
  <2> QED BY <2>2, <2>3 DEF Fresh
<1> QED BY <1>6, <1>7, <1>9, <1>10 DEF Shaped, p, b

\* The branches of an update, and the choice of a server, are plays.
LEMMA PlaysAre ==
  ASSUME NEW s \in Servers, NEW save \in {"save_manual", "save_smart"}
  PROVE  LET e == EngineOf(s) IN
         /\ ApplyEngine(e, s) \in Seq(Steps)
         /\ Play(e, s, "verify_or_roll_back") = ApplyEngine(e, s)
         /\ Play(e, s, "verify") \in Seq(Steps)
         /\ SelectServer(s, save) = Play(e, s, "verify") \o <<Step(save, e, s)>>
         /\ Simply("applied_anyway") \in Steps /\ Step(save, e, s) \in Steps
         /\ Simply("applied_anyway").do = "applied_anyway" /\ Step(save, e, s).do = save
<1> DEFINE e == EngineOf(s)
<1>1. /\ ApplyEngine(e, s) \in Seq(Steps)
      /\ Play(e, s, "verify_or_roll_back") = ApplyEngine(e, s)
  BY PlaysAreOrdinary, OrdinaryIsStep DEF ApplyEngine, Play
<1>2. e \in Engines /\ s \in Files
  BY EngineIsOne DEF Files, Configs
<1>3. /\ Simply("applied_anyway") \in Steps /\ Step(save, e, s) \in Steps
      /\ Simply("applied_anyway").do = "applied_anyway" /\ Step(save, e, s).do = save
  BY <1>2, SMT DEF Simply, Step, Steps, Deeds, Guarded, Decides, Verifies, Late, Engines, Files
<1>4. /\ Play(e, s, "verify") \in Seq(Steps)
      /\ SelectServer(s, save) = Play(e, s, "verify") \o <<Step(save, e, s)>>
  <2>1. /\ On("save_rollback", e) \in Steps /\ On("save_engine", e) \in Steps
        /\ Step("verify", e, s) \in Steps
        /\ Simply("funlock") \in Steps /\ Simply("unlock") \in Steps
    BY <1>2, SMT DEF On, Simply, Step, Steps, Deeds, Guarded, Decides, Verifies, Late,
                     Engines, Files
  <2>2. WriteAndRestart(e, s) \in Seq(Steps)
    BY <1>2, PartsAreOrdinary, OrdinaryIsStep
  <2>3. ApplyOutbound(e, s) \in Seq(Steps)
    BY <2>1, <2>2 DEF ApplyOutbound
  <2>4. Play(e, s, "verify") = <<On("save_rollback", e)>> \o ApplyOutbound(e, s)
    BY DEF Play
  <2>5. SelectServer(s, save)
          = (<<On("save_rollback", e)>> \o ApplyOutbound(e, s)) \o <<Step(save, e, s)>>
    BY DEF SelectServer
  <2>6. Play(e, s, "verify") \in Seq(Steps)
    <3> DEFINE a == ApplyOutbound(e, s)
               h == On("save_rollback", e)
    <3>1. a \in Seq(Steps) /\ h \in Steps
      BY <2>1, <2>3
    <3> HIDE DEF a, h
    <3>2. <<h>> \o a \in Seq(Steps)
      BY <3>1
    <3> QED BY <3>2, <2>4 DEF a, h
  <2> QED BY <2>4, <2>5, <2>6
<1> QED BY <1>1, <1>3, <1>4

LEMMA ShapedApply ==
  ASSUME NEW s \in Servers, NEW save \in {"save_manual", "save_smart"}
  PROVE  /\ Shaped(ApplyEngine(EngineOf(s), s)) /\ Fresh(ApplyEngine(EngineOf(s), s))
         /\ Shaped(ApplyEngine(EngineOf(s), s) \o <<Simply("applied_anyway")>>)
         /\ Fresh(ApplyEngine(EngineOf(s), s) \o <<Simply("applied_anyway")>>)
         /\ Shaped(SelectServer(s, save)) /\ Fresh(SelectServer(s, save))
<1> DEFINE e == EngineOf(s)
<1>1. /\ ApplyEngine(e, s) \in Seq(Steps)
      /\ Play(e, s, "verify_or_roll_back") = ApplyEngine(e, s)
      /\ Play(e, s, "verify") \in Seq(Steps)
      /\ SelectServer(s, save) = Play(e, s, "verify") \o <<Step(save, e, s)>>
  BY PlaysAre
<1>3. /\ Simply("applied_anyway") \in Steps /\ Step(save, e, s) \in Steps
      /\ Simply("applied_anyway").do = "applied_anyway" /\ Step(save, e, s).do = save
  BY PlaysAre
<1> DEFINE x == <<Step(save, e, s)>>
           y == <<Simply("applied_anyway")>>
<1>5. /\ x \in Seq(Steps) /\ Len(x) = 1
      /\ \A i \in 1..Len(x) : x[i].do \notin Verifies \cup {"unlock"}
  BY <1>3 DEF Verifies
<1>6. /\ y \in Seq(Steps) /\ Len(y) = 1
      /\ \A i \in 1..Len(y) : y[i].do \notin Verifies \cup {"unlock"}
  BY <1>3 DEF Verifies
<1>7. /\ <<>> \in Seq(Steps) /\ Len(<<>>) = 0 /\ ApplyEngine(e, s) \o <<>> = ApplyEngine(e, s)
      /\ \A i \in 1..Len(<<>>) : <<>>[i].do \notin Verifies \cup {"unlock"}
  BY <1>1
<1>8. "verify" \in Verifies /\ "verify_or_roll_back" \in Verifies
  BY DEF Verifies
<1> HIDE DEF x, y
<1>9. Shaped(Play(e, s, "verify") \o x) /\ Fresh(Play(e, s, "verify") \o x)
  <2>1. Len(x) <= 1
    BY <1>5
  <2>2. Play(e, s, "verify") \in Seq(Steps)
    BY <1>1
  <2> QED BY <2>1, <2>2, <1>5, <1>8, ShapedPlay
<1>10. Shaped(ApplyEngine(e, s) \o y) /\ Fresh(ApplyEngine(e, s) \o y)
  <2>1. Len(y) <= 1
    BY <1>6
  <2> HIDE DEF e
  <2>2. Play(e, s, "verify_or_roll_back") \in Seq(Steps)
    BY <1>1
  <2>3. /\ Shaped(Play(e, s, "verify_or_roll_back") \o y)
        /\ Fresh(Play(e, s, "verify_or_roll_back") \o y)
    BY <2>1, <2>2, <1>6, <1>8, ShapedPlay DEF e
  <2> QED BY <2>3, <1>1
<1>11. Shaped(ApplyEngine(e, s)) /\ Fresh(ApplyEngine(e, s))
  <2> DEFINE z == <<>>
  <2>0. /\ z \in Seq(Steps) /\ Len(z) <= 1
        /\ \A i \in 1..Len(z) : z[i].do \notin Verifies \cup {"unlock"}
    BY <1>7
  <2> HIDE DEF z
  <2>2. /\ Shaped(Play(e, s, "verify_or_roll_back") \o z)
        /\ Fresh(Play(e, s, "verify_or_roll_back") \o z)
    BY <2>0, <1>1, <1>8, ShapedPlay
  <2>1. Shaped(ApplyEngine(e, s) \o <<>>) /\ Fresh(ApplyEngine(e, s) \o <<>>)
    BY <2>2, <1>1 DEF z
  <2> QED BY <2>1, <1>7
<1> QED BY <1>1, <1>9, <1>10, <1>11 DEF x, y

-----------------------------------------------------------------------------
(* Other lists. *)

Docks == {step \in Steps : step.do \in {"write", "stop", "start", "start_once", "restart"}}

\* What restarts a container locks, verifies and records nothing.
LEMMA RestartDocks ==
  ASSUME NEW e \in Engines, NEW c \in Files
  PROVE  /\ DockerRestart(e) \in Seq(Docks) /\ EnsureDefaults(e) \in Seq(Docks)
         /\ <<Step("write", e, c)>> \o DockerRestart(e) \in Seq(Docks)
         /\ Docks \subseteq Steps /\ Seq(Docks) \subseteq Seq(Steps)
<1>1. /\ Step("write", "xray", "dummy") \in Docks /\ Step("write", e, c) \in Docks
      /\ \A x \in Engines : \A do \in {"stop", "start", "start_once", "restart"} : On(do, x) \in Docks
  BY SMT DEF On, Step, Steps, Docks, Deeds, Guarded, Decides, Verifies, Late, Engines,
             Files, Configs
<1>2. EnsureDummy \in Seq(Docks)
  BY <1>1 DEF EnsureDummy, Engines
<1>3. DockerRestart(e) \in Seq(Docks)
  BY <1>1, <1>2 DEF DockerRestart
<1>4. EnsureDefaults(e) \in Seq(Docks)
  BY <1>1, <1>2 DEF EnsureDefaults, Engines
<1>5. <<Step("write", e, c)>> \o DockerRestart(e) \in Seq(Docks)
  BY <1>1, <1>3
<1>6. Docks \subseteq Steps
  BY DEF Docks
<1> QED BY <1>3, <1>4, <1>5, <1>6

LEMMA ShapedDocks ==
  ASSUME NEW p \in Seq(Docks)
  PROVE  /\ p \in Seq(Steps) /\ Shaped(p) /\ Fresh(p)
         /\ \A k \in 1..Len(p) : p[k].do \in Hands \ (Verifies \cup {"unlock", "check"})
<1>1. \A k \in 1..Len(p) : p[k] \in Docks
  OBVIOUS
<1>2. \A k \in 1..Len(p) : p[k].do \in Hands \ (Verifies \cup {"unlock", "check"})
  BY <1>1, SMT DEF Docks, Hands, Guarded, Verifies
<1>3. p \in Seq(Steps)
  BY DEF Docks
<1> QED BY <1>2, <1>3, ShapedWork

\* The fallback to the last known good configuration.
LEMMA ShapedFallBack ==
  ASSUME NEW e \in Engines, NEW c \in Files
  PROVE  LET p == <<Step("write", e, c)>> \o DockerRestart(e) \o <<On("see", e)>> IN
         p \in Seq(Steps) /\ Shaped(p) /\ Fresh(p)
<1> DEFINE d == <<Step("write", e, c)>> \o DockerRestart(e)
           x == <<On("see", e)>>
<1>1. d \in Seq(Docks)
  BY RestartDocks
<1>2. On("see", e) \in Steps /\ On("see", e).do = "see"
  BY SMT DEF On, Step, Steps, Deeds, Guarded, Decides, Verifies, Late, Files
<1>3. x \in Seq(Steps) /\ Len(x) = 1 /\ x[1].do = "see"
  BY <1>2
<1> HIDE DEF d, x
<1>4. /\ d \in Seq(Steps)
      /\ \A k \in 1..Len(d) : d[k].do \in Hands \ (Verifies \cup {"unlock"})
  BY <1>1, ShapedDocks
<1>5. /\ d \o x \in Seq(Steps) /\ Len(d \o x) = Len(d) + 1 /\ Len(d) \in Nat
      /\ \A i \in 1..Len(d) : (d \o x)[i] = d[i]
      /\ (d \o x)[Len(d) + 1] = x[1]
  <2>1. /\ d \o x \in Seq(Steps) /\ Len(d \o x) = Len(d) + Len(x)
        /\ \A i \in 1..Len(d) : (d \o x)[i] = d[i]
        /\ \A i \in (Len(d) + 1)..(Len(d) + Len(x)) : (d \o x)[i] = x[i - Len(d)]
    <3>1. d \in Seq(Steps) /\ x \in Seq(Steps)
      BY <1>3, <1>4
    <3> QED BY <3>1, Joined, Zenon
  <2>2. Len(d) \in Nat
    BY <1>4
  <2>3. Len(d) + 1 - Len(d) = 1 /\ Len(d) + 1 \in (Len(d) + 1)..(Len(d) + Len(x))
    BY <1>3, <2>2
  <2> QED BY <1>3, <2>1, <2>2, <2>3
<1>6. "see" \in Hands \ (Verifies \cup {"unlock"})
  BY DEF Hands, Verifies, Records
<1>7. ASSUME NEW k \in 1..Len(d \o x)
      PROVE  (d \o x)[k].do \in Hands \ (Verifies \cup {"unlock"})
  <2>1. k \in 1..Len(d) \/ k = Len(d) + 1
    BY <1>5
  <2> QED BY <2>1, <1>3, <1>4, <1>5, <1>6
<1>8. Shaped(d \o x) /\ Fresh(d \o x)
  BY <1>7, ShapedWork
<1> QED BY <1>5, <1>8 DEF d, x

\* The programs of main and of the worker's actions.
LEMMA ShapedPrograms ==
  /\ Shaped(StartAgent \o Boot) /\ Fresh(StartAgent \o Boot)
  /\ \A do \in {"reselect", "reselect_if_applied"} :
       LET p == UpdateSubscription \o <<Simply(do)>> IN Shaped(p) /\ Fresh(p)
  /\ Shaped(Refresh) /\ Fresh(Refresh)
  /\ Shaped(<<Simply("choose")>>) /\ Fresh(<<Simply("choose")>>)
  /\ Shaped(RestartBoth) /\ Fresh(RestartBoth)
<1>1. \A do \in (Decides \ {"see"}) \cup Late \cup {"fetch"} : do \notin Hands
  BY SMT DEF Decides, Late, Hands, Guarded, Verifies, Records
<1>2. Shaped(StartAgent \o Boot) /\ Fresh(StartAgent \o Boot)
  <2> DEFINE p == StartAgent \o Boot
  <2>1. /\ Len(p) = 12 /\ p[1] = On("stop", "singbox") /\ p[2] = On("stop", "xray")
        /\ p[3] = Simply("ensure_defaults") /\ p[4] = Simply("threads")
        /\ p[5] = Simply("fetch") /\ p[6] = Simply("load") /\ p[7] = Simply("apply_new")
        /\ p[8] = Simply("apply_current") /\ p[9] = Simply("save_loaded")
        /\ p[10] = Simply("reselect") /\ p[11] = Simply("fall_back")
        /\ p[12] = Simply("defaults_if_failed")
    BY SMT DEF StartAgent, Boot, UpdateSubscription
  <2> HIDE DEF p
  <2>2. p[1].do = "stop" /\ p[2].do = "stop"
    BY <2>1, SMT DEF On, Step
  <2>3. ASSUME NEW k \in 3..12 PROVE p[k].do \in (Decides \ {"see"}) \cup Late \cup {"fetch"}
    <3>1. k \in {3, 4, 5, 6, 7, 8, 9, 10, 11, 12}
      OBVIOUS
    <3> QED BY <2>1, <3>1, SMT DEF Simply, Step, Decides, Late
  <2>4. ASSUME NEW k \in 1..Len(p)
        PROVE  /\ k <= 2 => p[k].do = "stop"
               /\ k > 2 => p[k].do \notin Hands
    <3>1. \/ k \in {1, 2} /\ k <= 2
          \/ k \in 3..12 /\ k > 2
      BY <2>1
    <3>2. k \in {1, 2} => p[k].do = "stop"
      BY <2>2
    <3>3. k \in 3..12 => p[k].do \notin Hands
      BY <2>3, <1>1
    <3> QED BY <3>1, <3>2, <3>3
  <2>5. "stop" \in Hands /\ "stop" \notin Verifies \cup {"unlock"}
        /\ Verifies \cup {"unlock"} \subseteq Hands
    BY DEF Hands, Guarded, Verifies
  <2>6. \A k \in 1..Len(p) : p[k].do \notin Verifies \cup {"unlock"}
    BY <2>1, <2>4, <2>5
  <2>7. Fronted(p)
    <3>1. ASSUME NEW k \in 1..Len(p), p[k].do \in Hands, NEW i \in 1..k
          PROVE  p[i].do \in Hands
      <4>1. k <= 2
        BY <3>1, <2>1, <2>4
      <4>2. i \in 1..Len(p) /\ i <= 2
        BY <4>1, <2>1
      <4> QED BY <4>2, <2>4, <2>5
    <3> QED BY <3>1 DEF Fronted
  <2> QED BY <2>6, <2>7 DEF Shaped, OneUnlock, Played, Fresh, p
<1>3. ASSUME NEW do \in {"reselect", "reselect_if_applied"}
      PROVE  LET p == UpdateSubscription \o <<Simply(do)>> IN Shaped(p) /\ Fresh(p)
  <2> DEFINE p == UpdateSubscription \o <<Simply(do)>>
  <2>1. /\ Len(p) = 6
        /\ p[1] = Simply("fetch") /\ p[2] = Simply("load") /\ p[3] = Simply("apply_new")
        /\ p[4] = Simply("apply_current") /\ p[5] = Simply("save_loaded")
        /\ p[6] = Simply(do)
    BY SMT DEF UpdateSubscription
  <2> HIDE DEF p
  <2>2. ASSUME NEW k \in 1..Len(p) PROVE p[k].do \notin Hands
    <3>1. k \in {1, 2, 3, 4, 5, 6}
      BY <2>1
    <3>2. p[k].do \in (Decides \ {"see"}) \cup Late \cup {"fetch"}
      BY <2>1, <3>1, SMT DEF Simply, Step, Decides, Late
    <3> QED BY <3>2, <1>1
  <2> QED BY <2>2, ShapedPlan DEF p
<1>4. Shaped(Refresh) /\ Fresh(Refresh)
  <2> DEFINE p == Refresh
  <2>1. /\ Len(p) = 9 /\ p[1] = Simply("clean")
        /\ p[2] = Simply("fetch") /\ p[3] = Simply("load") /\ p[4] = Simply("apply_new")
        /\ p[5] = Simply("apply_current") /\ p[6] = Simply("save_loaded")
        /\ p[7] = Simply("defaults_if_failed") /\ p[8] = Simply("reselect_if_applied")
        /\ p[9] = Simply("restart_agent")
    BY SMT DEF Refresh, UpdateSubscription
  <2> HIDE DEF p
  <2>2. ASSUME NEW k \in 1..Len(p) PROVE p[k].do \notin Hands
    <3>1. k \in {1, 2, 3, 4, 5, 6, 7, 8, 9}
      BY <2>1
    <3>2. p[k].do \in (Decides \ {"see"}) \cup Late \cup {"fetch"}
      BY <2>1, <3>1, SMT DEF Simply, Step, Decides, Late
    <3> QED BY <3>2, <1>1
  <2> QED BY <2>2, ShapedPlan DEF p
<1>5. Shaped(<<Simply("choose")>>) /\ Fresh(<<Simply("choose")>>)
  <2> DEFINE p == <<Simply("choose")>>
  <2>1. Len(p) = 1 /\ p[1].do = "choose" /\ "choose" \in Decides \ {"see"}
    BY DEF Simply, Step, Decides
  <2> HIDE DEF p
  <2>2. \A k \in 1..Len(p) : p[k].do \notin Hands
    BY <2>1, <1>1
  <2> QED BY <2>2, ShapedPlan DEF p
<1>6. Shaped(RestartBoth) /\ Fresh(RestartBoth)
  <2>1. DockerRestart("xray") \in Seq(Docks) /\ DockerRestart("singbox") \in Seq(Docks)
    <3>1. "xray" \in Engines /\ "singbox" \in Engines /\ "none" \in Files
      BY DEF Engines, Files
    <3> QED BY <3>1, RestartDocks
  <2>2. RestartBoth \in Seq(Docks)
    BY <2>1 DEF RestartBoth
  <2> QED BY <2>2, ShapedDocks
<1> QED BY <1>2, <1>3, <1>4, <1>5, <1>6

-----------------------------------------------------------------------------
(* The invariant. *)

\* The watchdog works with the lock, and gives it back at the end of its cycle.
Held == todo["health"] # <<>> => lock = "health"
Watching == \A k \in 1..Len(todo["health"]) :
  todo["health"][k].do \in {"check", "unlock"} => k = Len(todo["health"])
\* The worker unlocks what it has locked.
Owned == \A u \in 1..Len(todo["worker"]) : todo["worker"][u].do = "unlock" =>
  lock = "worker" \/ \E k \in 1..u : todo["worker"][k].do = "lock"
\* What the first steps of a play have done, while the verification is ahead.
Backs(e, s, how, done) ==
  /\ done >= 2 => lock = "worker"
  /\ done >= 5 => disk[e] = s
  /\ done >= Restarted(e) => (Running(e) => box[e] = s)
  /\ e = "singbox" /\ done >= 6 => disk["xray"] = "dummy"
  /\ e = "singbox" /\ done >= 8 => ~ Listens("xray")
InForce == \A v \in 1..Len(todo["worker"]) :
  LET step == todo["worker"][v] IN
  step.do \in Verifies =>
    Backs(step.engine, step.config, step.do, End(step.engine, step.do) - v)

Sound == Shaped(todo["worker"]) /\ Held /\ Watching /\ Owned /\ InForce

\* A container that runs has been started with the file on disk, or goes on.
LEMMA BoxMoves ==
  ASSUME Typed, NEW x \in Engines, NEW how \in {"stopped", "crashed"}, NEW y \in Engines
  PROVE  /\ Down(x, how)[y] \in Configs => y # x /\ Down(x, how)[y] = box[y]
         /\ Up(x)[y] \in Configs => Up(x)[y] = IF y = x THEN disk[y] ELSE box[y]
<1>1. /\ box \in [Engines -> Boxes] /\ Engines = {"xray", "singbox"}
      /\ "stopped" \notin Configs /\ "crashed" \notin Configs
  BY ServersAssumption DEF Typed, TypeOK, Engines, Configs
<1>2. ASSUME NEW h \in {"stopped", "crashed"}, Down(x, h)[y] \in Configs
      PROVE  y # x /\ Down(x, h)[y] = box[y]
  BY <1>1, <1>2 DEF Down
<1>3. Down(x, "stopped") \in [Engines -> Boxes]
  BY BoxesStay
<1> QED BY <1>2, <1>3 DEF Up

\* The verification that is ahead, as the head of its list is done.
LEMMA OnwardsToVerify ==
  ASSUME Typed, Shaped(todo["worker"]), todo["worker"] # <<>>,
         NEW v \in 1..(Len(todo["worker"]) - 1),
         todo["worker"][v + 1].do \in Verifies
  PROVE  LET q   == todo["worker"]
             e   == q[v + 1].engine
             s   == q[v + 1].config
             how == q[v + 1].do
             n   == End(e, how)
             r   == Restarted(e)
             now == n - v IN
         /\ e \in Engines /\ s \in Servers /\ EngineOf(s) = e /\ s \in Configs
         /\ n \in Nat /\ r \in Nat /\ r \in {6, 10} /\ now \in 1..(n - 1) /\ n <= r + 3
         /\ n >= r + 2
         /\ q[1].do \in Guarded
         /\ now = 2 => q[1].do = "lock"
         /\ now = 5 => q[1] = Step("write", e, s)
         /\ now = r => q[1] = On("restart", e)
         /\ e = "singbox" /\ now = 6 => q[1] = Step("write", "xray", "dummy")
         /\ e = "singbox" /\ now = 8 => q[1] = On("stop", "xray")
         /\ e = "singbox" => ~ Voices(q[1])
         /\ now > 5 /\ q[1].do = "write" => q[1].engine # e
         /\ now > r => q[1].do \in {"funlock", "save_engine"}
<1> DEFINE q == todo["worker"]
           e == q[v + 1].engine
           s == q[v + 1].config
           how == q[v + 1].do
           n == End(e, how)
           r == Restarted(e)
           b == Play(e, s, how)
<1>1. q \in Seq(Steps) /\ Len(q) \in Nat \ {0} /\ v + 1 \in 1..Len(q) /\ q[v + 1] \in Steps
  BY DEF Typed, Listed, Threads
<1>2. /\ how \in Verifies /\ e \in Engines /\ s \in Servers /\ EngineOf(s) = e
      /\ s \in Configs
  BY <1>1 DEF Steps, Configs
<1>3. /\ n \in Nat /\ r \in {6, 10} /\ n \in {r + 2, r + 3}
  BY EndIs
<1>4. v + 1 <= n /\ q[1] = b[n - (v + 1) + 1]
  BY <1>1, <1>2 DEF Shaped, Played
<1>5. PlayedOut(b, e, s, how)
  BY <1>2, Plays
<1>6. /\ b[2].do = "lock" /\ b[5] = Step("write", e, s) /\ b[r] = On("restart", e)
      /\ e = "singbox" => b[6] = Step("write", "xray", "dummy") /\ b[8] = On("stop", "xray")
      /\ \A i \in 1..n : Voices(b[i]) => e = "xray"
      /\ \A i \in 1..(n - 1) : b[i].do \in Guarded
      /\ \A i \in 6..(n - 1) : b[i].do = "write" => b[i].engine # e
      /\ \A i \in (r + 1)..(n - 1) : b[i].do \in {"funlock", "save_engine"}
  <2> DEFINE m == Len(b)
  <2>1. /\ b[2].do = "lock" /\ b[5] = Step("write", e, s) /\ b[r] = On("restart", e)
        /\ e = "singbox" => b[6] = Step("write", "xray", "dummy") /\ b[8] = On("stop", "xray")
        /\ \A i \in 1..(n - 1) : b[i].do \in Guarded
        /\ \A i \in 6..(n - 1) : b[i].do = "write" => b[i].engine # e
        /\ \A i \in (r + 1)..(n - 1) : b[i].do \in {"funlock", "save_engine"}
        /\ \A i \in 1..m : Voices(b[i]) => e = "xray"
        /\ m = n + 2 \/ m = n + 1
    BY <1>5 DEF PlayedOut
  <2> HIDE DEF b, n, r, m
  <2>2. \A i \in 1..n : i \in 1..m
    BY <2>1, <1>3
  <2> QED BY <2>1, <2>2
<1> HIDE DEF b, n, r
<1>7. q[1] = b[n - v] /\ n - v \in 1..(n - 1)
  <2>1. n - (v + 1) + 1 = n - v /\ n - v \in 1..(n - 1)
    BY <1>1, <1>3, <1>4
  <2> QED BY <2>1, <1>4
<1>8. q[1].do \in Guarded
  BY <1>6, <1>7
<1>9. n - v > 5 /\ q[1].do = "write" => q[1].engine # e
  <2>1. n - v > 5 => n - v \in 6..(n - 1)
    BY <1>3, <1>7
  <2> QED BY <2>1, <1>6, <1>7
<1>10. n - v > r => q[1].do \in {"funlock", "save_engine"}
  <2>1. n - v > r => n - v \in (r + 1)..(n - 1)
    BY <1>3, <1>7
  <2> QED BY <2>1, <1>6, <1>7
<1>11. /\ n - v = 2 => q[1].do = "lock"
       /\ n - v = 5 => q[1] = Step("write", e, s)
       /\ n - v = r => q[1] = On("restart", e)
       /\ e = "singbox" /\ n - v = 6 => q[1] = Step("write", "xray", "dummy")
       /\ e = "singbox" /\ n - v = 8 => q[1] = On("stop", "xray")
  BY <1>6, <1>7
<1>13. e = "singbox" => ~ Voices(q[1])
  <2>1. n - v \in 1..n
    BY <1>3, <1>7
  <2> QED BY <2>1, <1>6, <1>7
<1>12. r \in Nat /\ n <= r + 3 /\ n >= r + 2
  BY <1>3
<1> QED BY <1>2, <1>3, <1>7, <1>8, <1>9, <1>10, <1>11, <1>12, <1>13 DEF n, r

\* The worker moves its hands.
HandMoves(t) ==
  \/ LockEngine(t) \/ LockFile(t) \/ UnlockFile(t) \/ UnlockEngine(t)
  \/ StopContainer(t) \/ RunContainer(t) \/ WriteConfig(t)
  \/ SaveEngine(t) \/ SaveServer(t) \/ SaveRollback(t) \/ Verify(t) \/ SeeFallBack(t)

LEMMA SoundHands ==
  ASSUME Typed, Sound, HandMoves("worker"), Outsiders = {}
  PROVE  Sound'
<1> DEFINE q == todo["worker"]
<1>1. /\ q # <<>> /\ todo' = [todo EXCEPT !["worker"] = <<>> \o Tail(q)]
      /\ q[1].do \in {"lock", "flock", "funlock", "unlock", "stop", "start",
                      "start_once", "restart", "write", "save_engine", "save_manual",
                      "save_smart", "save_rollback", "verify", "see"}
  BY DEF HandMoves, LockEngine, LockFile, UnlockFile, UnlockEngine, StopContainer,
         RunContainer, WriteConfig, SaveEngine, SaveServer, SaveRollback, Verify,
         SeeFallBack, Does, Done, Then
<1>2. /\ q \in Seq(Steps) /\ todo \in [Threads -> Seq(Steps)]
      /\ "worker" \in Threads /\ "health" \in Threads
  BY DEF Typed, Listed, Threads
<1>3. todo'["worker"] = Tail(q) /\ todo'["health"] = todo["health"]
  BY <1>1, <1>2
<1>4. /\ Len(q) \in Nat \ {0} /\ Len(Tail(q)) = Len(q) - 1
      /\ \A i \in 1..Len(Tail(q)) : i + 1 \in 1..Len(q) /\ Tail(q)[i] = q[i + 1]
  BY <1>1, <1>2, TailIs
<1>5. Shaped(todo'["worker"])
  BY <1>1, <1>2, <1>3, ShapedTail DEF Sound
<1>6. /\ q[1].do = "lock" => lock = "free" /\ lock' = "worker"
      /\ q[1].do = "unlock" => lock' = "free"
      /\ q[1].do \notin {"lock", "unlock"} => lock' = lock
  BY DEF HandMoves, LockEngine, LockFile, UnlockFile, UnlockEngine, StopContainer,
         RunContainer, WriteConfig, SaveEngine, SaveServer, SaveRollback, Verify,
         SeeFallBack, Does, locks
<1>7. q[1].do = "unlock" => lock = "worker"
  BY <1>4 DEF Sound, Owned
<1>8. Held'
  BY <1>3, <1>6, <1>7 DEF Sound, Held
<1>9. Watching'
  BY <1>3 DEF Sound, Watching
<1>10. Owned'
  <2>1. SUFFICES ASSUME NEW u \in 1..Len(Tail(q)), Tail(q)[u].do = "unlock"
                 PROVE  lock' = "worker" \/ \E k \in 1..u : Tail(q)[k].do = "lock"
    BY <1>3 DEF Owned
  <2>2. u + 1 \in 1..Len(q) /\ q[u + 1].do = "unlock" /\ u + 1 # 1
    BY <1>4, <2>1
  <2>3. q[1].do # "unlock"
    BY <1>4, <2>2 DEF Sound, Shaped, OneUnlock
  <2>4. lock = "worker" \/ \E k \in 1..(u + 1) : q[k].do = "lock"
    BY <2>2 DEF Sound, Owned
  <2>5. CASE q[1].do = "lock" \/ lock = "worker"
    BY <2>3, <2>5, <1>6
  <2>6. CASE q[1].do # "lock" /\ lock # "worker"
    <3>1. PICK k \in 1..(u + 1) : q[k].do = "lock"
      BY <2>4, <2>6
    <3>2. k # 1
      BY <3>1, <2>6
    <3>3. k - 1 \in 1..u /\ Tail(q)[k - 1] = q[k]
      BY <1>4, <3>1, <3>2
    <3> QED BY <3>1, <3>3
  <2> QED BY <2>5, <2>6
<1>11. ASSUME NEW v \in 1..(Len(q) - 1), q[v + 1].do \in Verifies,
              NEW e, e = q[v + 1].engine, NEW s, s = q[v + 1].config,
              NEW how, how = q[v + 1].do
       PROVE  Backs(e, s, how, End(e, how) - v)'
  <2> DEFINE n   == End(e, how)
             r   == Restarted(e)
             now == n - v
  <2>1. /\ e \in Engines /\ s \in Servers /\ EngineOf(s) = e /\ s \in Configs
        /\ n \in Nat /\ r \in Nat /\ r \in {6, 10} /\ now \in 1..(n - 1) /\ n <= r + 3
        /\ n >= r + 2
        /\ q[1].do \in Guarded
        /\ now = 2 => q[1].do = "lock"
        /\ now = 5 => q[1] = Step("write", e, s)
        /\ now = r => q[1] = On("restart", e)
        /\ e = "singbox" /\ now = 6 => q[1] = Step("write", "xray", "dummy")
        /\ e = "singbox" /\ now = 8 => q[1] = On("stop", "xray")
        /\ e = "singbox" => ~ Voices(q[1])
        /\ now > 5 /\ q[1].do = "write" => q[1].engine # e
        /\ now > r => q[1].do \in {"funlock", "save_engine"}
    BY <1>1, <1>11, OnwardsToVerify DEF Sound
  <2>2. Backs(e, s, how, n - (v + 1))
    BY <1>4, <1>11 DEF Sound, InForce
  <2>3. n - (v + 1) = now - 1 /\ v \in Nat
    <3> HIDE DEF n
    <3>1. n \in Nat /\ v \in Nat
      BY <1>4, <2>1
    <3> QED BY <3>1
  <2>4. n = End(e, how) /\ r = Restarted(e)
    OBVIOUS
  <2>5. /\ Step("write", e, s).do = "write" /\ Step("write", e, s).engine = e
        /\ Step("write", e, s).config = s
        /\ On("restart", e).do = "restart" /\ On("restart", e).engine = e
        /\ On("stop", "xray").do = "stop" /\ On("stop", "xray").engine = "xray"
        /\ Step("write", "xray", "dummy").do = "write"
        /\ Step("write", "xray", "dummy").engine = "xray"
        /\ Step("write", "xray", "dummy").config = "dummy"
    BY DEF On, Step
  <2> HIDE DEF n, r, now
  <2>6. /\ now - 1 >= 2 => lock = "worker"
        /\ now - 1 >= 5 => disk[e] = s
        /\ now - 1 >= r => (box[e] \in Configs => box[e] = s)
        /\ e = "singbox" /\ now - 1 >= 6 => disk["xray"] = "dummy"
        /\ e = "singbox" /\ now - 1 >= 8 => ~ Listens("xray")
    BY <2>2, <2>3, <2>4 DEF Backs, Running
  <2>12. /\ q[1].do # "write" => disk' = disk
         /\ q[1].do = "write" => disk' = [disk EXCEPT ![q[1].engine] = q[1].config]
         /\ disk \in [Engines -> Files]
    BY DEF HandMoves, LockEngine, LockFile, UnlockFile, UnlockEngine, StopContainer,
           RunContainer, WriteConfig, SaveEngine, SaveServer, SaveRollback, Verify,
           SeeFallBack, Does, Now, files, others, Typed, TypeOK
  <2>7. now >= 2 => lock' = "worker"
    <3>1. "unlock" \notin Guarded
      BY DEF Guarded
    <3> QED BY <3>1, <2>1, <2>6, <1>6
  <2>8. ASSUME now >= 5 PROVE disk'[e] = s
    <3>3. CASE now = 5
      BY <3>3, <2>1, <2>5, <2>12
    <3>4. CASE now # 5
      <4>1. now > 5 /\ disk[e] = s
        BY <3>4, <2>1, <2>6, <2>8
      <4>2. CASE q[1].do = "write"
        BY <4>1, <4>2, <2>1, <2>12
      <4>3. CASE q[1].do # "write"
        BY <4>1, <4>3, <2>12
      <4> QED BY <4>2, <4>3
    <3> QED BY <3>3, <3>4
  <2>9. ASSUME now >= r, box'[e] \in Configs PROVE box'[e] = s
    <3>1. CASE now = r
      <4>1. RunContainer("worker") /\ Now("worker").engine = e /\ Does("worker", "restart")
        BY <3>1, <2>1, <2>5 DEF HandMoves, LockEngine, LockFile, UnlockFile, UnlockEngine,
           StopContainer, RunContainer, WriteConfig, SaveEngine, SaveServer, SaveRollback,
           Verify, SeeFallBack, Does, Now
      <4>2. box' = Up(e) \/ box' = Down(e, "crashed")
        BY <4>1 DEF RunContainer
      <4>3. box'[e] = disk[e]
        BY <4>2, <2>1, <2>9, BoxMoves
      <4>4. now - 1 >= 5
        BY <3>1, <2>1
      <4> QED BY <4>3, <4>4, <2>6
    <3>2. CASE now # r
      <4>1. now > r /\ q[1].do \in {"funlock", "save_engine"}
        BY <3>2, <2>1, <2>9
      <4>2. box' = box
        BY <4>1 DEF HandMoves, LockEngine, LockFile, UnlockFile, UnlockEngine,
           StopContainer, RunContainer, WriteConfig, SaveEngine, SaveServer, SaveRollback,
           Verify, SeeFallBack, Does
      <4> QED BY <4>1, <4>2, <2>1, <2>6, <2>9
    <3> QED BY <3>1, <3>2
  <2>10. ASSUME e = "singbox", now >= 6 PROVE disk'["xray"] = "dummy"
    <3>0. "xray" \in Engines
      BY DEF Engines
    <3>1. CASE now = 6
      BY <3>0, <3>1, <2>1, <2>5, <2>10, <2>12
    <3>2. CASE now # 6
      <4>1. disk["xray"] = "dummy"
        BY <3>2, <2>1, <2>6, <2>10
      <4>2. CASE q[1].do = "write"
        BY <4>1, <4>2, <3>0, <2>1, <2>10, <2>12 DEF Voices
      <4>3. CASE q[1].do # "write"
        BY <4>1, <4>3, <2>12
      <4> QED BY <4>2, <4>3
    <3> QED BY <3>1, <3>2
  <2>13. ASSUME e = "singbox", now >= 8, box'["xray"] \in Configs \ {"dummy"} PROVE FALSE
    <3>0. "xray" \in Engines /\ disk["xray"] = "dummy"
      BY <2>1, <2>6, <2>13 DEF Engines
    <3>1. CASE now = 8
      <4>1. StopContainer("worker") /\ Now("worker").engine = "xray"
        BY <3>1, <2>1, <2>5, <2>13 DEF HandMoves, LockEngine, LockFile, UnlockFile,
           UnlockEngine, StopContainer, RunContainer, WriteConfig, SaveEngine, SaveServer,
           SaveRollback, Verify, SeeFallBack, Does, Now
      <4> QED BY <4>1, <3>0, <2>13, BoxMoves DEF StopContainer
    <3>2. CASE now # 8
      <4>1. ~ Listens("xray")
        BY <3>2, <2>1, <2>6, <2>13
      <4>2. q[1] \in Steps /\ q[1].engine \in Engines
        BY <1>1, <1>2, Heads
      <4>3. \/ box' = box \/ box' = Up(q[1].engine)
            \/ \E h \in {"stopped", "crashed"} : box' = Down(q[1].engine, h)
        BY DEF HandMoves, LockEngine, LockFile, UnlockFile, UnlockEngine, StopContainer,
           RunContainer, WriteConfig, SaveEngine, SaveServer, SaveRollback, Verify,
           SeeFallBack, Now
      <4>4. box'["xray"] \in {box["xray"], disk["xray"]}
        BY <4>2, <4>3, <3>0, <2>13, BoxMoves
      <4> QED BY <4>1, <4>4, <3>0, <2>13 DEF Listens
    <3> QED BY <3>1, <3>2
  <2>11. Backs(e, s, how, n - v)'
    <3>1. /\ now >= 2 => lock' = "worker"
          /\ now >= 5 => disk'[e] = s
          /\ now >= r => (box'[e] \in Configs => box'[e] = s)
          /\ e = "singbox" /\ now >= 6 => disk'["xray"] = "dummy"
          /\ e = "singbox" /\ now >= 8 => ~ (box'["xray"] \in Configs \ {"dummy"})
      BY <2>7, <2>8, <2>9, <2>10, <2>13
    <3> QED BY <3>1, <2>4 DEF Backs, Running, Listens, now
  <2> QED BY <2>11 DEF n
<1>12. InForce'
  <2>1. ASSUME NEW v \in 1..Len(Tail(q)), Tail(q)[v].do \in Verifies,
               NEW e, e = Tail(q)[v].engine, NEW s, s = Tail(q)[v].config,
               NEW how, how = Tail(q)[v].do
        PROVE  Backs(e, s, how, End(e, how) - v)'
    <3>1. v \in 1..(Len(q) - 1) /\ Tail(q)[v] = q[v + 1]
      BY <1>4
    <3> QED BY <2>1, <3>1, <1>11
  <2> QED BY <2>1, <1>3 DEF InForce
<1> QED BY <1>3, <1>5, <1>8, <1>9, <1>10, <1>12 DEF Sound

\* The worker has a list of which nothing has been done.
LEMMA SoundFresh ==
  ASSUME Shaped(todo'["worker"]), Fresh(todo'["worker"]), Held', Watching'
  PROVE  Sound'
<1> DEFINE r == todo'["worker"]
<1>1. Owned'
  BY DEF Fresh, Owned
<1>2. ASSUME NEW v \in 1..Len(r), r[v].do \in Verifies,
             NEW e, e = r[v].engine, NEW s, s = r[v].config, NEW how, how = r[v].do
      PROVE  Backs(e, s, how, End(e, how) - v)'
  <2> DEFINE n == End(e, how)
  <2>1. n \in Nat /\ n >= 8 /\ Restarted(e) \in {6, 10} /\ n - v = 0
    <3>1. n \in Nat /\ n >= 8 /\ Restarted(e) \in {6, 10} /\ n = v
      BY <1>2, EndIs DEF Fresh
    <3> QED BY <3>1
  <2>2. n = End(e, how)
    OBVIOUS
  <2> HIDE DEF n
  <2>3. Backs(e, s, how, n - v)'
    BY <2>1, <2>2 DEF Backs
  <2> QED BY <2>2, <2>3
<1>3. InForce'
  BY <1>2 DEF InForce
<1> QED BY <1>1, <1>3 DEF Sound

\* The worker waits, or has not locked anything.
LEMMA SoundAside ==
  ASSUME Sound, lock # "worker", UNCHANGED todo["worker"], Held', Watching'
  PROVE  Sound'
<1> DEFINE q == todo["worker"]
<1>1. todo'["worker"] = q
  OBVIOUS
<1>2. Owned'
  BY <1>1 DEF Sound, Owned
<1>3. ASSUME NEW v \in 1..Len(q), q[v].do \in Verifies,
             NEW e, e = q[v].engine, NEW s, s = q[v].config, NEW how, how = q[v].do
      PROVE  Backs(e, s, how, End(e, how) - v)'
  <2> DEFINE n == End(e, how)
  <2>1. n \in Nat /\ n >= 8 /\ Restarted(e) \in {6, 10}
    <3>1. /\ n \in Nat /\ Restarted(e) \in {6, 10}
          /\ n \in {Restarted(e) + 2, Restarted(e) + 3}
      BY EndIs
    <3> QED BY <3>1
  <2>2. n - v \in Int /\ ~ (n - v >= 2)
    <3>1. Backs(e, s, how, n - v)
      BY <1>3 DEF Sound, InForce
    <3> HIDE DEF n
    <3> QED BY <3>1, <2>1 DEF Backs
  <2>3. n = End(e, how)
    OBVIOUS
  <2> HIDE DEF n
  <2>4. Backs(e, s, how, n - v)'
    BY <2>1, <2>2, <2>3 DEF Backs
  <2> QED BY <2>3, <2>4
<1>4. InForce'
  BY <1>1, <1>3 DEF InForce
<1> QED BY <1>1, <1>2, <1>4 DEF Sound

\* The worker rolls back, or does not.
LEMMA SoundRollBack ==
  ASSUME Typed, Sound, VerifyOrRollBack("worker")
  PROVE  Sound'
<1> DEFINE q == todo["worker"]
<1>1. /\ q # <<>> /\ q[1].do = "verify_or_roll_back" /\ q[1].do \in Verifies
      /\ UNCHANGED lock
  BY DEF VerifyOrRollBack, Does, locks, Verifies
<1>2. /\ q \in Seq(Steps) /\ todo \in [Threads -> Seq(Steps)]
      /\ "worker" \in Threads /\ "health" \in Threads /\ Len(q) \in Nat \ {0}
  BY <1>1 DEF Typed, Listed, Threads
<1>3. q[1].engine \in Engines
  BY <1>1, Heads DEF Threads
<1>4. PICK p \in Seq(Docks) : todo' = [todo EXCEPT !["worker"] = p \o Tail(q)]
  <2>0. PICK found : Then("worker", IF Healthy(found) \/ rollback[q[1].engine] = "none"
                                    THEN <<>>
                                    ELSE <<Step("write", q[1].engine, rollback[q[1].engine])>>
                                           \o DockerRestart(q[1].engine))
    BY DEF VerifyOrRollBack, Now
  <2> DEFINE e == q[1].engine
             c == rollback[e]
             p == IF Healthy(found) \/ c = "none" THEN <<>>
                    ELSE <<Step("write", e, c)>> \o DockerRestart(e)
  <2>1. c \in Files
    BY <1>3 DEF Typed, TypeOK
  <2>2. <<Step("write", e, c)>> \o DockerRestart(e) \in Seq(Docks) /\ <<>> \in Seq(Docks)
    BY <1>3, <2>1, RestartDocks
  <2>3. p \in Seq(Docks)
    BY <2>2
  <2>4. Then("worker", p)
    BY <2>0
  <2> QED BY <2>3, <2>4 DEF Then
<1>5. todo'["worker"] = p \o Tail(q) /\ todo'["health"] = todo["health"]
  BY <1>2, <1>4
<1>6. lock = "worker"
  <2> DEFINE n == End(q[1].engine, q[1].do)
  <2>1. Backs(q[1].engine, q[1].config, q[1].do, n - 1)
    BY <1>1, <1>2 DEF Sound, InForce
  <2>2. n - 1 >= 2
    BY EndIs
  <2> QED BY <2>1, <2>2 DEF Backs
<1>7. ASSUME NEW v \in 1..(Len(q) - 1) PROVE q[v + 1].do \notin Verifies
  <2>1. q[1].do \notin Guarded
    BY <1>1 DEF Guarded
  <2> QED BY <2>1, <1>1, OnwardsToVerify DEF Sound
<1> DEFINE r == p \o Tail(q)
<1>8. /\ r \in Seq(Steps) /\ Len(p) \in Nat /\ Len(r) = Len(p) + Len(q) - 1
      /\ \A i \in 1..Len(p) : r[i] = p[i]
      /\ \A i \in (Len(p) + 1)..(Len(p) + Len(q) - 1) : r[i] = q[i - Len(p) + 1]
      /\ \A i \in 1..Len(p) : p[i].do \in Hands \ (Verifies \cup {"unlock", "check"})
  BY <1>1, <1>2, Spliced, ShapedDocks
<1> HIDE DEF r
<1>9. ASSUME NEW k \in 1..Len(r)
      PROVE  /\ r[k].do \notin Verifies
             /\ k <= Len(p) => r[k].do \in Hands \ {"unlock"}
             /\ k > Len(p) => k - Len(p) + 1 \in 1..Len(q) /\ r[k] = q[k - Len(p) + 1]
  <2>1. CASE k <= Len(p)
    BY <2>1, <1>8
  <2>2. CASE k > Len(p)
    <3>1. k - Len(p) \in 1..(Len(q) - 1) /\ r[k] = q[k - Len(p) + 1]
          /\ k - Len(p) + 1 \in 1..Len(q)
      BY <2>2, <1>2, <1>8
    <3>2. r[k].do \notin Verifies
      BY <3>1, <1>7
    <3> QED BY <2>2, <3>1, <3>2, <1>8
  <2> QED BY <2>1, <2>2, <1>8
<1>10. Fronted(r)
  <2>1. ASSUME NEW k \in 1..Len(r), r[k].do \in Hands, NEW i \in 1..k
        PROVE  r[i].do \in Hands
    <3>1. i \in 1..Len(r)
      BY <1>8
    <3>2. CASE i <= Len(p)
      BY <3>1, <3>2, <1>9
    <3>3. CASE i > Len(p)
      <4>1. /\ i - Len(p) + 1 \in 1..(k - Len(p) + 1)
            /\ k - Len(p) + 1 \in 1..Len(q) /\ q[k - Len(p) + 1].do \in Hands
            /\ r[i] = q[i - Len(p) + 1]
        BY SMTT(30), <3>1, <3>3, <2>1, <1>8, <1>9
      <4> QED BY <4>1 DEF Sound, Shaped, Fronted
    <3> QED BY <3>2, <3>3, <1>8
  <2> QED BY <2>1 DEF Fronted
<1>11. OneUnlock(r)
  <2>1. ASSUME NEW i \in 1..Len(r), NEW j \in 1..Len(r),
               r[i].do = "unlock", r[j].do = "unlock"
        PROVE  i = j
    <3>0. i > Len(p) /\ j > Len(p)
      BY <2>1, <1>8, <1>9
    <3>1. /\ i - Len(p) + 1 \in 1..Len(q) /\ q[i - Len(p) + 1].do = "unlock"
          /\ j - Len(p) + 1 \in 1..Len(q) /\ q[j - Len(p) + 1].do = "unlock"
      BY <2>1, <3>0, <1>9
    <3>2. i - Len(p) + 1 = j - Len(p) + 1
      BY <3>1 DEF Sound, Shaped, OneUnlock
    <3> QED BY <3>2, <1>8
  <2> QED BY <2>1 DEF OneUnlock
<1>12. Shaped(todo'["worker"])
  BY <1>5, <1>9, <1>10, <1>11 DEF Shaped, Played, r
<1>13. InForce'
  BY <1>5, <1>9 DEF InForce, r
<1>14. Held' /\ Watching' /\ Owned'
  BY <1>1, <1>5, <1>6 DEF Sound, Held, Watching, Owned
<1> QED BY <1>12, <1>13, <1>14 DEF Sound

\* The worker decides.
Decisions(t) ==
  \/ Fetch(t) \/ Load(t) \/ ApplyNew(t) \/ ApplyCurrent(t) \/ ChangeEngine(t)
  \/ AppliedAnyway(t) \/ AlreadyApplied(t) \/ SaveLoaded(t) \/ Choose(t)
  \/ KeepServer(t) \/ FallBack(t) \/ StartDefaults(t) \/ Clean(t) \/ StartThreads(t)

\* What it puts in front of its list then.
Branch(p) == p \in Seq(Steps) /\ Shaped(p) /\ Fresh(p)

LEMMA Branches ==
  ASSUME Typed, Decisions("worker")
  PROVE  LET q == todo["worker"] IN
         \/ \E p : Branch(p) /\ todo' = [todo EXCEPT !["worker"] = p \o Tail(q)]
         \/ Fetch("worker") /\ \E r \in Seq(Steps) :
              /\ todo' = [todo EXCEPT !["worker"] = r]
              /\ \A k \in 1..Len(r) : k + 5 \in 1..Len(q) /\ r[k] = q[k + 5]
         \/ Choose("worker") /\ \E r \in Seq(Steps) :
              /\ todo' = [todo EXCEPT !["worker"] = r]
              /\ r \in {<<>>, <<Simply("ensure_defaults"), Simply("restart_agent")>>}
<1> DEFINE q == todo["worker"]
<1>1. /\ q \in Seq(Steps) /\ Len(q) \in Nat /\ "worker" \in Threads
      /\ lkg \in Files /\ \A found \in Views("worker") : found.engine \in Engines
  <2>1. \A found \in Views("worker") : found \in States
    BY ViewsAre DEF Typed, TypeOK, Views
  <2> QED BY <2>1 DEF Typed, TypeOK, Listed, Threads, States, Files, Configs
<1>2. Branch(<<>>)
  BY ShapedWork DEF Branch
<1>3. /\ fetched["worker"] \in Seq(Servers) /\ "none" \notin Servers
      /\ fetched["worker"] # <<>> => fetched["worker"][1] \in Servers
      /\ loaded["worker"] \in States
  BY <1>1, WhatIsFetched
<1>4. ASSUME NEW s \in Servers, NEW save \in {"save_manual", "save_smart"}
      PROVE  /\ Branch(ApplyEngine(EngineOf(s), s)) /\ Branch(SelectServer(s, save))
             /\ Branch(ApplyEngine(EngineOf(s), s) \o <<Simply("applied_anyway")>>)
  <2>1. ApplyEngine(EngineOf(s), s) \in Seq(Steps) /\ SelectServer(s, save) \in Seq(Steps)
    BY PlaysAreOrdinary, OrdinaryIsStep
  <2>2. Simply("applied_anyway") \in Steps
    BY SMT DEF Simply, Step, Steps, Deeds, Guarded, Decides, Verifies, Late, Engines, Files
  <2>3. ApplyEngine(EngineOf(s), s) \o <<Simply("applied_anyway")>> \in Seq(Steps)
    BY <2>1, <2>2
  <2> QED BY <2>1, <2>3, ShapedApply DEF Branch
<1>5. CASE Load("worker") \/ AppliedAnyway("worker") \/ AlreadyApplied("worker")
           \/ SaveLoaded("worker") \/ KeepServer("worker") \/ Clean("worker")
           \/ StartThreads("worker")
  BY <1>2, <1>5 DEF Load, AppliedAnyway, AlreadyApplied, SaveLoaded, KeepServer, Clean,
                    StartThreads, Done, Then
<1>6. CASE Fetch("worker")
  <2>1. \/ todo' = [todo EXCEPT !["worker"] = <<>> \o Tail(q)]
        \/ todo' = [todo EXCEPT !["worker"] = SubSeq(q, 6, Len(q))]
    <3>1. <<>> \o Tail(q) = Tail(q)
      <4>1. q # <<>>
        BY <1>6 DEF Fetch, Does
      <4>2. Tail(q) \in Seq(Steps)
        BY <1>1, <4>1
      <4> QED BY <4>2
    <3>2. PICK list \in Lists : todo' = [todo EXCEPT !["worker"] =
            IF list = <<>> THEN SubSeq(@, Len(UpdateSubscription) + 1, Len(@))
                           ELSE Tail(@)]
      BY <1>6 DEF Fetch
    <3>3. todo' = [todo EXCEPT !["worker"] =
                     IF list = <<>> THEN SubSeq(q, 6, Len(q)) ELSE Tail(q)]
      BY <3>2, UpdateIsSteps
    <3>4. todo' \in {[todo EXCEPT !["worker"] = Tail(q)],
                      [todo EXCEPT !["worker"] = SubSeq(q, 6, Len(q))]}
      BY <3>3
    <3> QED BY <3>1, <3>4
  <2>2. /\ SubSeq(q, 6, Len(q)) \in Seq(Steps)
        /\ \A k \in 1..Len(SubSeq(q, 6, Len(q))) :
             k + 5 \in 1..Len(q) /\ SubSeq(q, 6, Len(q))[k] = q[k + 5]
    <3>1. \A i \in 6..Len(q) : q[i] \in Steps
      BY <1>1
    <3> QED BY <1>1, <3>1
  <2> QED BY <1>2, <1>6, <2>1, <2>2
<1>7. CASE ApplyNew("worker")
  <2>1. ASSUME loaded["worker"].server # "none" PROVE loaded["worker"].server \in Servers
    BY <1>3, <2>1 DEF States
  <2> QED BY <1>2, <1>4, <1>7, <2>1 DEF ApplyNew, Then
<1>8. CASE ApplyCurrent("worker")
  <2> DEFINE e == loaded["worker"].engine
             s == Own("worker", e)
  <2>1. e \in Engines /\ First("worker", e) # "none"
    BY <1>3, <1>8 DEF ApplyCurrent, States
  <2>2. s \in Servers /\ EngineOf(s) = e
    BY <1>1, <1>3, <2>1, FirstIs DEF Own, States
  <2> QED BY <1>4, <1>8, <2>2 DEF ApplyCurrent, Then
<1>9. CASE ChangeEngine("worker")
  <2> DEFINE e == Other(loaded["worker"].engine)
             s == First("worker", e)
  <2>1. /\ e \in Engines /\ First("worker", Other(e)) = "none" /\ q # <<>>
        /\ q[1].do = "apply_current"
    BY <1>3, <1>9, OtherIsOne DEF ChangeEngine, States, Does
  <2>2. fetched["worker"] # <<>>
    BY <1>1, <2>1, Heads DEF Late
  <2>3. s \in Servers /\ EngineOf(s) = e
    <3>1. EngineOf(fetched["worker"][1]) # Other(e)
      BY <1>1, <1>3, <2>1, <2>2, FirstIs, OtherIsOne
    <3>2. EngineOf(fetched["worker"][1]) = e
      BY <3>1, <2>1, EngineIsOne DEF Other, Engines
    <3> QED BY <3>2, <1>1, <1>3, <2>1, <2>2, FirstIs
  <2> QED BY <1>4, <1>9, <2>3 DEF ChangeEngine, Then
<1>10. CASE Choose("worker")
  <2>1. Branch(<<Simply("keep")>>)
    <3> DEFINE p == <<Simply("keep")>>
    <3>1. Simply("keep") \in Steps /\ Simply("keep").do = "keep" /\ "keep" \notin Hands
      BY SMT DEF Simply, Step, Steps, Deeds, Guarded, Decides, Verifies, Late, Engines,
                 Files, Hands, Records
    <3>2. p \in Seq(Steps) /\ \A k \in 1..Len(p) : p[k].do \notin Hands
      BY <3>1
    <3> QED BY <3>2, ShapedPlan DEF Branch
  <2>2. Simply("ensure_defaults") \in Steps /\ Simply("restart_agent") \in Steps
    BY SMT DEF Simply, Step, Steps, Deeds, Guarded, Decides, Verifies, Late, Engines, Files
  <2>3. <<Simply("ensure_defaults"), Simply("restart_agent")>> \in Seq(Steps)
    BY <2>2
  <2>4. CASE Raise("worker")
    <3> DEFINE r == IF Tail(q) = <<Simply("restart_agent")>>
                      THEN <<Simply("ensure_defaults"), Simply("restart_agent")>> ELSE <<>>
    <3>1. r \in Seq(Steps)
      BY <2>3
    <3>2. todo' = [todo EXCEPT !["worker"] = r]
      BY <2>4 DEF Raise
    <3> QED BY <1>10, <3>1, <3>2
  <2>5. cache \in Seq(Servers) /\ Len(cache) \in Nat /\ bench \in Nat
    BY ServersAssumption DEF Typed, TypeOK
  <2>6. ASSUME NEW i \in 1..Len(cache), Then("worker", SelectServer(cache[i], "save_smart"))
        PROVE  \E p : Branch(p) /\ todo' = [todo EXCEPT !["worker"] = p \o Tail(q)]
    <3>1. cache[i] \in Servers
      BY <2>5
    <3>2. Branch(SelectServer(cache[i], "save_smart"))
      BY <3>1, <1>4
    <3> QED BY <2>6, <3>2 DEF Then
  <2>7. CASE Done("worker") \/ Then("worker", <<Simply("keep")>>)
    BY <1>2, <2>1, <2>7 DEF Done, Then
  <2>8. \/ Done("worker") \/ Then("worker", <<Simply("keep")>>) \/ Raise("worker")
        \/ \E i \in 1..Len(cache) : Then("worker", SelectServer(cache[i], "save_smart"))
    <3>1. \/ Done("worker") \/ Then("worker", <<Simply("keep")>>)
          \/ /\ bench' \in {bench, Len(cache)}
             /\ \E i \in 1..bench' :
                  IF i <= Len(cache)
                    THEN \/ Done("worker")
                         \/ Then("worker", SelectServer(cache[i], "save_smart"))
                    ELSE Raise("worker")
      BY <1>10 DEF Choose
    <3> QED BY <3>1, <2>5
  <2> QED BY <2>4, <2>6, <2>7, <2>8
<1>11. CASE FallBack("worker")
  <2> DEFINE x(e) == <<Step("write", e, lkg)>> \o DockerRestart(e) \o <<On("see", e)>>
  <2>1. \A e \in Engines : Branch(x(e))
    BY <1>1, ShapedFallBack DEF Branch
  <2>2. Done("worker") \/ \E found \in Views("worker") : Then("worker", x(found.engine))
    BY <1>11 DEF FallBack
  <2> HIDE DEF x
  <2>3. Done("worker") \/ \E e \in Engines : Then("worker", x(e))
    BY <1>1, <2>2
  <2> QED BY <1>2, <2>1, <2>3 DEF Done, Then
<1>12. CASE StartDefaults("worker")
  <2>1. ASSUME NEW e \in Engines PROVE Branch(EnsureDefaults(e))
    <3>1. EnsureDefaults(e) \in Seq(Docks)
      BY <1>1, RestartDocks
    <3> QED BY <3>1, ShapedDocks DEF Branch
  <2>2. \/ Then("worker", <<>>)
        \/ \E found \in Views("worker") : Then("worker", EnsureDefaults(found.engine))
    BY <1>12 DEF StartDefaults
  <2>3. \/ Then("worker", <<>>)
        \/ \E e \in Engines : Then("worker", EnsureDefaults(e))
    BY <1>1, <2>2
  <2> QED BY <1>2, <2>1, <2>3 DEF Then
<1> QED BY <1>5, <1>6, <1>7, <1>8, <1>9, <1>10, <1>11, <1>12 DEF Decisions

LEMMA SoundDecisions ==
  ASSUME Typed, Sound, Decisions("worker")
  PROVE  Sound'
<1> DEFINE q == todo["worker"]
<1>1. /\ q # <<>> /\ UNCHANGED lock
      /\ q[1].do \in {"fetch", "load", "apply_new", "apply_current", "applied_anyway",
                      "save_loaded", "choose", "reselect", "reselect_if_applied", "keep",
                      "fall_back", "ensure_defaults", "defaults_if_failed", "clean",
                      "threads"}
  BY DEF Decisions, Fetch, Load, ApplyNew, ApplyCurrent, ChangeEngine, AppliedAnyway,
         AlreadyApplied, SaveLoaded, Choose, KeepServer, FallBack, StartDefaults, Clean,
         StartThreads, Does, locks
<1>2. q[1].do \notin Hands
  BY <1>1, SMT DEF Hands, Guarded, Verifies, Records
<1>3. /\ q \in Seq(Steps) /\ todo \in [Threads -> Seq(Steps)]
      /\ "worker" \in Threads /\ "health" \in Threads /\ Len(q) \in Nat \ {0}
  BY <1>1 DEF Typed, Listed, Threads
<1>4. \A k \in 1..Len(q) : q[k].do \notin Hands
  BY <1>1, <1>2, <1>3, ShapedBranch, ShapedWork DEF Sound, Shaped
<1>5. ASSUME NEW r, todo' = [todo EXCEPT !["worker"] = r], Shaped(r), Fresh(r)
      PROVE  Sound'
  <2>1. todo'["worker"] = r /\ todo'["health"] = todo["health"]
    BY <1>3, <1>5
  <2>2. Held' /\ Watching'
    BY <1>1, <2>1 DEF Sound, Held, Watching
  <2> QED BY <1>5, <2>1, <2>2, SoundFresh
<1>6. ASSUME NEW p, Branch(p), todo' = [todo EXCEPT !["worker"] = p \o Tail(q)]
      PROVE  Sound'
  BY <1>1, <1>2, <1>3, <1>5, <1>6, ShapedBranch DEF Branch, Sound, Shaped
<1>7. ASSUME NEW r \in Seq(Steps), todo' = [todo EXCEPT !["worker"] = r],
             \A k \in 1..Len(r) : k + 5 \in 1..Len(q) /\ r[k] = q[k + 5]
      PROVE  Sound'
  <2>1. \A k \in 1..Len(r) : r[k].do \notin Hands
    BY <1>4, <1>7
  <2> QED BY <1>5, <1>7, <2>1, ShapedPlan
<1>8. ASSUME NEW r \in Seq(Steps), todo' = [todo EXCEPT !["worker"] = r],
             r \in {<<>>, <<Simply("ensure_defaults"), Simply("restart_agent")>>}
      PROVE  Sound'
  <2>1. \A k \in 1..Len(r) : r[k].do \notin Hands
    <3>1. /\ Simply("ensure_defaults").do \notin Hands
          /\ Simply("restart_agent").do \notin Hands
      BY SMT DEF Simply, Step, Hands, Guarded, Verifies, Records
    <3> QED BY <1>8, <3>1
  <2> QED BY <1>5, <1>8, <2>1, ShapedPlan
<1> QED BY <1>6, <1>7, <1>8, Branches

\* The worker starts over, or takes its next action.
LEMMA SoundRestart ==
  ASSUME Typed, NEW incident \in BOOLEAN, RestartAgent(incident)
  PROVE  Sound'
<1>1. /\ todo'["worker"] = StartAgent \o Boot /\ todo'["health"] = <<>>
  BY DEF RestartAgent, Threads
<1>2. Held' /\ Watching'
  BY <1>1 DEF Held, Watching
<1> QED BY <1>1, <1>2, ShapedPrograms, SoundFresh

LEMMA SoundBegin ==
  ASSUME Typed, Sound, Begin("worker")
  PROVE  Sound'
<1>1. cache \in Seq(Servers)
  BY ServersAssumption DEF Typed, TypeOK
<1>2. PICK p : /\ todo' = [todo EXCEPT !["worker"] = p]
               /\ \/ p = Refresh \/ p = <<Simply("choose")>> \/ p = RestartBoth
                  \/ \E i \in 1..Len(cache) : p = SelectServer(cache[i], "save_manual")
                  \/ \E do \in {"reselect", "reselect_if_applied"} :
                       p = UpdateSubscription \o <<Simply(do)>>
  BY DEF Begin
<1>3. Shaped(p) /\ Fresh(p)
  <2>1. ASSUME NEW i \in 1..Len(cache), p = SelectServer(cache[i], "save_manual")
        PROVE  Shaped(p) /\ Fresh(p)
    <3>1. cache[i] \in Servers
      BY <1>1
    <3> QED BY <2>1, <3>1, ShapedApply
  <2> QED BY <1>2, <2>1, ShapedPrograms
<1>4. todo'["worker"] = p /\ todo'["health"] = todo["health"] /\ UNCHANGED lock
  BY <1>2 DEF Typed, Listed, Threads, Begin, locks
<1>5. Held' /\ Watching'
  BY <1>4 DEF Sound, Held, Watching
<1> QED BY <1>3, <1>4, <1>5, SoundFresh

\* The watchdog's cycle.
LEMMA SoundWatch ==
  ASSUME Typed, Sound, HealthTryLock \/ HealthCheck \/ Run("health"), ~ failed'
  PROVE  Sound'
<1> DEFINE h == todo["health"]
<1>1. /\ todo \in [Threads -> Seq(Steps)] /\ h \in Seq(Cures) /\ h \in Seq(Steps)
      /\ "worker" \in Threads /\ "health" \in Threads /\ Len(h) \in Nat
      /\ \A found \in Views("health") : found.engine \in Engines
  <2>1. \A found \in Views("health") : found \in States
    BY ViewsAre DEF Typed, TypeOK, Views
  <2> QED BY <2>1 DEF Typed, TypeOK, States, Listed, Threads
<1>2. CASE HealthTryLock
  <2>1. /\ todo'["worker"] = todo["worker"] /\ todo'["health"] = <<Simply("check")>>
        /\ lock = "free" /\ lock' = "health"
    BY <1>1, <1>2 DEF HealthTryLock
  <2>2. Held' /\ Watching'
    BY <2>1 DEF Held, Watching
  <2> QED BY <2>1, <2>2, SoundAside
<1>3. CASE HealthCheck
  <2>1. PICK restart \in BOOLEAN, found \in Views("health") :
          Then("health", (IF restart THEN DockerRestart(found.engine) ELSE <<>>)
                           \o <<Simply("unlock")>>)
    BY <1>3 DEF HealthCheck
  <2> DEFINE p == IF restart THEN DockerRestart(found.engine) ELSE <<>>
             r == p \o <<Simply("unlock")>>
  <2>2. h # <<>> /\ h[1].do = "check" /\ UNCHANGED lock
    BY <1>3 DEF HealthCheck, Does, locks
  <2>3. Len(h) = 1 /\ Tail(h) = <<>>
    <3>1. 1 \in 1..Len(h)
      BY <1>1, <2>2
    <3>2. 1 = Len(h)
      BY <2>2, <3>1 DEF Sound, Watching
    <3>3. Tail(h) \in Seq(Steps) /\ Len(Tail(h)) = 0
      BY <1>1, <2>2, <3>2, TailIs
    <3>4. Tail(h) = <<>>
      BY <3>3, EmptySeq
    <3> QED BY <3>2, <3>4
  <2>4. p \in Seq(Docks)
    <3>1. "none" \in Files
      BY DEF Files
    <3>2. DockerRestart(found.engine) \in Seq(Docks) /\ <<>> \in Seq(Docks)
      BY <1>1, <3>1, RestartDocks
    <3> QED BY <3>2
  <2> HIDE DEF p
  <2>5. /\ p \in Seq(Steps) /\ Len(p) \in Nat
        /\ \A k \in 1..Len(p) : p[k].do \in Hands \ (Verifies \cup {"unlock", "check"})
    BY <2>4, ShapedDocks
  <2>6. Simply("unlock") \in Steps
    BY SMT DEF Simply, Step, Steps, Deeds, Guarded, Decides, Verifies, Late, Engines, Files
  <2>7. /\ r \in Seq(Steps) /\ Len(r) = Len(p) + 1
        /\ \A k \in 1..Len(p) : r[k] = p[k]
    <3>1. <<Simply("unlock")>> \in Seq(Steps) /\ Len(<<Simply("unlock")>>) = 1
      BY <2>6
    <3> QED BY <2>5, <3>1, Joined
  <2>8. todo'["worker"] = todo["worker"] /\ todo'["health"] = r
    <3>1. todo' = [todo EXCEPT !["health"] = r \o <<>>]
      BY <2>1, <2>3 DEF Then, p
    <3>2. r \o <<>> = r
      BY <2>7
    <3> QED BY <1>1, <3>1, <3>2
  <2> HIDE DEF r
  <2>9. Watching'
    <3>1. ASSUME NEW k \in 1..Len(r), r[k].do \in {"check", "unlock"} PROVE k = Len(r)
      <4>1. ~ (k <= Len(p))
        BY <2>5, <2>7, <3>1
      <4> QED BY <4>1, <2>5, <2>7
    <3> QED BY <2>8, <3>1 DEF Watching
  <2>10. lock = "health"
    BY <2>2 DEF Sound, Held
  <2>11. Held'
    BY <2>2, <2>10 DEF Held
  <2> QED BY <2>8, <2>9, <2>10, <2>11, SoundAside
<1>4. CASE Run("health")
  <2>1. h # <<>>
    BY <1>4 DEF Run, LockEngine, LockFile, UnlockFile, UnlockEngine, StopContainer,
       RunContainer, FailDocker, LoadState, WriteConfig, SaveEngine, SaveServer,
       SaveRollback, Verify, VerifyOrRollBack, Fetch, Load, ApplyNew, ApplyCurrent, ChangeEngine, AppliedAnyway,
       AlreadyApplied, SaveLoaded, Choose, KeepServer, FallBack, SeeFallBack,
       StartDefaults, Clean, RestartAfterUpdate, StartThreads, Does
  <2>2. /\ h[1] \in Cures /\ Len(h) \in Nat \ {0} /\ lock = "health"
    BY <1>1, <2>1, Heads DEF Sound, Held
  <2>3. h[1].do \in {"check", "unlock", "write", "stop", "start", "restart"}
    BY <2>2 DEF Cures, Near
  <2>4. \/ UnlockEngine("health") \/ StopContainer("health") \/ RunContainer("health")
        \/ WriteConfig("health")
    BY <1>4, <2>3 DEF Run, LockEngine, LockFile, UnlockFile, UnlockEngine, StopContainer,
       RunContainer, FailDocker, LoadState, Loads, WriteConfig, SaveEngine, SaveServer,
       SaveRollback, Verify, VerifyOrRollBack, Fetch, Load, ApplyNew, ApplyCurrent, ChangeEngine, AppliedAnyway,
       AlreadyApplied, SaveLoaded, Choose, KeepServer, FallBack, SeeFallBack,
       StartDefaults, Clean, RestartAfterUpdate, StartThreads, Does
  <2>5. todo' = [todo EXCEPT !["health"] = <<>> \o Tail(h)]
    BY <2>4 DEF UnlockEngine, StopContainer, RunContainer, WriteConfig, Done, Then
  <2>6. /\ todo'["worker"] = todo["worker"] /\ todo'["health"] = Tail(h)
        /\ Len(Tail(h)) = Len(h) - 1
        /\ \A i \in 1..Len(Tail(h)) : i + 1 \in 1..Len(h) /\ Tail(h)[i] = h[i + 1]
    BY <1>1, <2>1, <2>5, TailIs
  <2>7. Watching'
    <3>1. ASSUME NEW k \in 1..Len(Tail(h)), Tail(h)[k].do \in {"check", "unlock"}
          PROVE  k = Len(Tail(h))
      <4>1. k + 1 = Len(h)
        BY <2>6, <3>1 DEF Sound, Watching
      <4> QED BY <2>2, <2>6, <4>1
    <3> QED BY <2>6, <3>1 DEF Watching
  <2>8. Held'
    <3>1. CASE h[1].do = "unlock"
      <4>0. 1 \in 1..Len(h)
        BY <2>2
      <4>1. 1 = Len(h)
        BY <3>1, <4>0 DEF Sound, Watching
      <4>2. Tail(h) = <<>>
        <5>1. Tail(h) \in Seq(Steps) /\ Len(Tail(h)) = 0
          BY <1>1, <2>1, <4>1, TailIs
        <5> QED BY <5>1, EmptySeq
      <4> QED BY <2>6, <4>2 DEF Held
    <3>2. CASE h[1].do # "unlock"
      <4>1. UNCHANGED lock
        BY <2>4, <3>2 DEF UnlockEngine, StopContainer, RunContainer, WriteConfig, Does,
                          locks
      <4> QED BY <2>2, <4>1 DEF Held
    <3> QED BY <3>1, <3>2
  <2> QED BY <2>2, <2>6, <2>7, <2>8, SoundAside
<1> QED BY <1>2, <1>3, <1>4

\* Docker by itself.
LEMMA SoundDocker ==
  ASSUME Typed, Sound, NEW x \in Engines, CrashContainer(x) \/ Revive(x)
  PROVE  Sound'
<1> DEFINE q == todo["worker"]
<1>1. /\ UNCHANGED <<todo, lock, disk>>
      /\ box' = Down(x, "crashed") \/ box' = Up(x)
  BY DEF CrashContainer, Revive, files, others, locks
<1>2. \A y \in Engines : box'[y] \in Configs => box'[y] = box[y] \/ box'[y] = disk[y]
  BY <1>1, BoxMoves
<1>3. q \in Seq(Steps)
  BY DEF Typed, Listed, Threads
<1>4. ASSUME NEW v \in 1..Len(q), q[v].do \in Verifies,
             NEW e, e = q[v].engine, NEW s, s = q[v].config, NEW how, how = q[v].do
      PROVE  Backs(e, s, how, End(e, how) - v)'
  <2> DEFINE n == End(e, how)
  <2>1. Backs(e, s, how, n - v)
    BY <1>4 DEF Sound, InForce
  <2>2. e \in Engines
    BY <1>3, <1>4 DEF Steps
  <2>3. n \in Nat /\ Restarted(e) \in {6, 10}
    BY EndIs
  <2>4. n = End(e, how)
    OBVIOUS
  <2> HIDE DEF n
  <2>5. n - v >= Restarted(e) => n - v >= 5
    BY <2>3
  <2>6. n - v >= Restarted(e) => (box'[e] \in Configs => box'[e] = s)
    BY <1>2, <2>1, <2>2, <2>5 DEF Backs, Running
  <2>8. e = "singbox" /\ n - v >= 8 => ~ (box'["xray"] \in Configs \ {"dummy"})
    <3>1. "xray" \in Engines
      BY DEF Engines
    <3>2. n - v >= 8 => n - v >= 6
      BY <1>3, <2>3
    <3> QED BY <3>1, <3>2, <1>2, <2>1 DEF Backs, Listens
  <2>7. Backs(e, s, how, n - v)'
    BY <1>1, <2>1, <2>6, <2>8 DEF Backs, Running, Listens
  <2> QED BY <2>4, <2>7
<1>5. InForce'
  BY <1>1, <1>4 DEF InForce
<1> QED BY <1>1, <1>5 DEF Sound, Held, Watching, Owned

-----------------------------------------------------------------------------
LEMMA OneWorker == Outsiders = {} => Threads = {"worker", "health"}
BY DEF Threads

LEMMA SoundInit == Init => Sound
<1> SUFFICES ASSUME Init PROVE Sound
  OBVIOUS
<1>1. todo["worker"] = StartAgent \o Boot /\ todo["health"] = <<>>
  BY DEF Init, Threads
<1>2. Held /\ Watching
  BY <1>1 DEF Held, Watching
<1>3. Shaped(todo["worker"]) /\ Fresh(todo["worker"])
  BY <1>1, ShapedPrograms
<1>4. Owned
  BY <1>3 DEF Fresh, Owned
<1>5. InForce
  <2>1. ASSUME NEW v \in 1..Len(todo["worker"]), todo["worker"][v].do \in Verifies,
               NEW e, e = todo["worker"][v].engine, NEW s, s = todo["worker"][v].config,
               NEW how, how = todo["worker"][v].do
        PROVE  Backs(e, s, how, End(e, how) - v)
    <3> DEFINE n == End(e, how)
    <3>1. /\ n \in Nat /\ Restarted(e) \in {6, 10} /\ n = v
          /\ n \in {Restarted(e) + 2, Restarted(e) + 3}
      BY <2>1, <1>3, EndIs DEF Fresh
    <3>2. n = End(e, how)
      OBVIOUS
    <3> HIDE DEF n
    <3>3. n - v = 0 /\ n >= 8
      BY <3>1
    <3>4. Backs(e, s, how, n - v)
      BY <3>1, <3>2, <3>3 DEF Backs
    <3> QED BY <3>2, <3>4
  <2> QED BY <2>1 DEF InForce
<1> QED BY <1>2, <1>3, <1>4, <1>5 DEF Sound

\* Nobody does anything to a list, a container or its configuration.
LEMMA SoundIdle ==
  ASSUME Sound, UNCHANGED <<todo, lock, box, disk>>
  PROVE  Sound'
<1>1. /\ Shaped(todo'["worker"]) /\ Held' /\ Watching' /\ Owned'
  BY DEF Sound, Held, Watching, Owned
<1>2. InForce'
  BY DEF Sound, InForce, Backs, Running, Listens
<1> QED BY <1>1, <1>2 DEF Sound

\* As long as no docker command fails.
LEMMA SoundNext ==
  Outsiders = {} /\ Typed /\ (failed \/ Sound) /\ [Next]_vars => (failed \/ Sound)'
<1> SUFFICES ASSUME Outsiders = {}, Typed, failed \/ Sound, [Next]_vars, ~ failed'
             PROVE  Sound'
  OBVIOUS
<1>1. ASSUME NEW incident \in BOOLEAN, RestartAgent(incident) PROVE Sound'
  BY <1>1, SoundRestart
<1>2. Sound \/ \E incident \in BOOLEAN : RestartAgent(incident)
  <2>1. CASE UNCHANGED vars
    BY <2>1 DEF vars, past
  <2>2. ASSUME NEW t \in Threads, Run(t) \/ Begin(t)
        PROVE  failed' = failed \/ RestartAgent(FALSE)
    BY ZenonT(60), <2>2 DEF Run, LockEngine, LockFile, UnlockFile, UnlockEngine,
       StopContainer, RunContainer, FailDocker, WriteConfig, LoadState, SaveEngine,
       SaveServer, SaveRollback, Verify, VerifyOrRollBack, Fetch, Load, ApplyNew,
       ApplyCurrent, ChangeEngine, AppliedAnyway, AlreadyApplied, SaveLoaded, Choose,
       KeepServer, FallBack, SeeFallBack, StartDefaults, Clean, RestartAfterUpdate,
       StartThreads, Begin, past
  <2>3. CASE HealthTryLock \/ HealthCheck \/ PollLoad \/ PollSave
    BY <2>3 DEF HealthTryLock, HealthCheck, PollLoad, PollSave, past
  <2>4. ASSUME NEW x \in Engines, CrashContainer(x) \/ Revive(x) PROVE failed' = failed
    BY <2>4 DEF CrashContainer, Revive, past
  <2> QED BY <2>1, <2>2, <2>3, <2>4 DEF Next
<1>3. CASE Sound
  <2>1. CASE Run("worker")
    <3>1. CASE RestartAfterUpdate("worker")
      BY <3>1, <1>1 DEF RestartAfterUpdate
    <3>2. CASE LoadState("worker")
      BY <1>3, <3>2, SoundIdle DEF LoadState, files, others, locks
    <3>3. \/ HandMoves("worker") \/ VerifyOrRollBack("worker") \/ Decisions("worker")
          \/ RestartAfterUpdate("worker") \/ LoadState("worker")
      BY <2>1 DEF Run, HandMoves, Decisions, FailDocker
    <3> QED BY <1>3, <3>1, <3>2, <3>3, SoundHands, SoundRollBack, SoundDecisions
  <2>2. CASE Begin("worker")
    BY <1>3, <2>2, SoundBegin
  <2>3. CASE HealthTryLock \/ HealthCheck \/ Run("health")
    BY <1>3, <2>3, SoundWatch
  <2>4. ASSUME NEW x \in Engines, CrashContainer(x) \/ Revive(x) PROVE Sound'
    BY <1>3, <2>4, SoundDocker
  <2>5. CASE RestartAgent(TRUE)
    BY <2>5, <1>1
  <2>6. CASE UNCHANGED vars \/ PollLoad \/ PollSave
    BY <1>3, <2>6, SoundIdle DEF vars, files, others, locks, PollLoad, PollSave
  <2> QED BY <2>1, <2>2, <2>3, <2>4, <2>5, <2>6, OneWorker DEF Next, Begin
<1> QED BY <1>1, <1>2, <1>3

LEMMA SoundAlways ==
  ASSUME Outsiders = {}
  PROVE  Spec => [](Typed /\ (failed \/ Sound))
<1>1. Init => Typed /\ (failed \/ Sound)
  BY TypedInit, SoundInit
<1>2. Typed /\ (failed \/ Sound) /\ [Next]_vars => (Typed /\ (failed \/ Sound))'
  BY TypedNext, SoundNext
<1> QED BY <1>1, <1>2, PTL DEF Spec

\* "Only a verified-healthy config enters the offline cache": as long as nobody
\* uses the fleet-cli and no docker command has failed since the agent started,
\* what becomes the last known good configuration is what its container runs at
\* that moment, whatever the poll thread does to the state (_apply_outbound_cfg,
\* apply_configs).
THEOREM OnlyVerified ==
  ASSUME Outsiders = {}
  PROVE  Spec => VerifiedOnly
<1>1. ASSUME Typed, Sound, [Next]_vars, lkg' # lkg
      PROVE  box[EngineOf(lkg')] = lkg'
  <2> DEFINE q == todo["worker"]
  <2>1. PICK t \in Threads : Verify(t) \/ VerifyOrRollBack(t)
    BY ZenonT(60), <1>1 DEF Next, Run, LockEngine, LockFile, UnlockFile, UnlockEngine,
       StopContainer, RunContainer, FailDocker, WriteConfig, LoadState, SaveEngine,
       SaveServer, SaveRollback, Fetch, Load, ApplyNew, ApplyCurrent, ChangeEngine,
       AppliedAnyway, AlreadyApplied, SaveLoaded, Choose, KeepServer, FallBack,
       SeeFallBack, StartDefaults, Clean, RestartAfterUpdate, RestartAgent, StartThreads,
       Begin, HealthTryLock, HealthCheck, PollLoad, PollSave, CrashContainer, Revive,
       vars, files, others
  <2>2. /\ todo[t] # <<>> /\ todo[t][1].do \in Verifies /\ lkg' = todo[t][1].config
        /\ Running("xray") /\ (Listens("xray") \/ Listens("singbox"))
    <3>1. PICK found : /\ Healthy(found) /\ lkg' = Now(t).config
                       /\ Does(t, "verify") \/ Does(t, "verify_or_roll_back")
      BY <1>1, <2>1 DEF Verify, VerifyOrRollBack
    <3> QED BY <3>1 DEF Healthy, Does, Now, Verifies, Engines
  <2>3. t = "worker"
    BY <1>1, <2>2, Heads, OneWorker DEF Cures, Near, Verifies
  <2> DEFINE e == q[1].engine
             s == q[1].config
             n == End(e, q[1].do)
  <2>4. e \in Engines /\ s \in Servers /\ EngineOf(s) = e /\ 1 \in 1..Len(q)
    <3>1. q[1] \in Steps /\ q \in Seq(Steps) /\ q # <<>>
      BY <1>1, <2>2, <2>3, Heads
    <3>2. 1 \in 1..Len(q)
      BY <3>1
    <3> QED BY <2>2, <2>3, <3>1, <3>2 DEF Steps
  <2>5. Backs(e, s, q[1].do, n - 1)
    BY <1>1, <2>2, <2>3, <2>4 DEF Sound, InForce
  <2>6. n - 1 >= Restarted(e) /\ (e = "singbox" => n - 1 >= 8)
    BY EndIs DEF Restarted
  <2>7. (Running(e) => box[e] = s) /\ (e = "singbox" => ~ Listens("xray"))
    BY <2>5, <2>6 DEF Backs
  <2>8. Running(e)
    BY <2>2, <2>4, <2>7 DEF Engines, Running, Listens
  <2> QED BY <2>2, <2>3, <2>4, <2>7, <2>8
<1>2. Typed /\ (failed \/ Sound) /\ [Next]_vars
        => [lkg' # lkg /\ ~ failed => box[EngineOf(lkg')] = lkg']_vars
  BY <1>1
<1> QED BY <1>2, SoundAlways, PTL DEF Spec, VerifiedOnly

-----------------------------------------------------------------------------
(* One engine listens.  The worker's list is read as what is left of the    *)
(* branch it has taken (from the j-th step of f) before what is left of its *)
(* program (from the i-th step of p).                                       *)

Rest(q, k) == SubSeq(q, k, Len(q))
Stack(f, j, p, i) == Rest(f, j) \o Rest(p, i)

Booting  == StartAgent \o Boot
Ending   == <<Simply("ensure_defaults"), Simply("restart_agent")>>
\* Programs at whose end the agent restarts.
Doom     == {Refresh, Ending}
Programs == {Booting, UpdateSubscription \o <<Simply("reselect")>>, <<Simply("choose")>>}
              \cup Doom

HandDos == Hands \cup {"keep", "applied_anyway"}
DockDos == {"write", "stop", "start", "start_once", "restart"}

\* Before sing-box is started xray is given the dummy and started again.
Muted(q) == \A k \in 1..Len(q) : Sings(q[k]) =>
  /\ k >= 5 => q[k - 4] = Step("write", "xray", "dummy")
  /\ k >= 4 => q[k - 3] = On("stop", "singbox")
  /\ k >= 3 => q[k - 2] = On("stop", "xray")
  /\ k >= 2 => q[k - 1] = On("start", "xray")

\* A branch that brings up e.  It verifies its outcome in the n-th step, or
\* not at all (n = 0).
Turn(f, e, n) ==
  /\ f \in Seq(Steps) /\ e \in Engines /\ n \in {0, 8, 9, 12, 13}
  /\ Muted(f)
  /\ \A k \in 1..Len(f) :
       /\ f[k].do \in HandDos
       /\ Sings(f[k]) => k >= 5 /\ e = "singbox"
       /\ Voices(f[k]) => e = "xray" /\ k = IF n = 0 THEN 1 ELSE 5
       /\ f[k].do = "save_engine" => k = n - 1 /\ f[k].engine = e
       /\ f[k].do \in Verifies => k = n /\ f[k].engine = e
       /\ f[k].do \in Records => k > n /\ f[k].engine = e
       /\ f[k].do = "keep" => k = 1 /\ n = 0
       /\ f[k].do = "verify_or_roll_back" =>
            \A l \in (k + 1)..Len(f) : f[l].do \in {"unlock", "applied_anyway"}
  /\ \A k, l \in 1..Len(f) : f[k].do = "unlock" /\ f[l].do = "unlock" => k = l
  /\ n > 0 => /\ n < Len(f) /\ f[2].do = "lock" /\ f[4] = On("stop", Other(e))
              /\ f[n - 1].do = "save_engine"
              /\ \E u \in (n + 1)..Len(f) : f[u].do = "unlock"

-----------------------------------------------------------------------------
(* The ports. *)

Off    == box["singbox"] = "stopped"
Silent == disk["xray"] = "dummy" /\ ~ Listens("xray")
Safe   == Off \/ Silent
\* What has been done, from the j-th step of a list on, when sing-box is about
\* to be started.
Ready(q, j) == \A m \in j..Len(q) : Sings(q[m]) =>
  /\ m - j <= 3 => disk["xray"] = "dummy"
  /\ m - j <= 1 => ~ Listens("xray")

\* The watchdog follows the state, and never gives xray a server.
Cured == Muted(todo["health"])
         /\ \A k \in 1..Len(todo["health"]) : ~ Voices(todo["health"][k])
HealthSings == \E k \in 1..Len(todo["health"]) : Sings(todo["health"][k])
\* When the state names xray, sing-box is down and stays so.
Agree == state.engine = "xray" => Off /\ ~ HealthSings

\* An outcome is about to be looked at; a good configuration is about to be
\* written back; or a boot may come to do so.
Calm(f, j, p, i, n) ==
  \/ n > 0 /\ j = n
  \/ n = 0 /\ j = 1 /\ j <= Len(f) /\ Voices(f[j])
  \/ p = Booting /\ i \in 2..11 /\ j >= n /\ ~ (applied["worker"] /\ i >= 10)

InBoot(f, i, e) ==
  /\ i <= 4 => todo["health"] = <<>>
  /\ i = 9 => loaded["worker"].engine = e \/ (applied["worker"] /\ f = <<>>)
  /\ \A k \in 1..Len(f) :
       /\ f[k].do \in {"verify_or_roll_back", "applied_anyway"} => i <= 9
       /\ f[k].do = "see" => i = 12

\* Both engines are restarted on request, and nothing is left to do after it.
Asked(f, p, i) == f = RestartBoth /\ i > Len(p)

Live(f, j, p, i, e, n) ==
  /\ Ready(f, j) /\ Ready(todo["health"], 1)
  /\ e = "xray" /\ n > 0 /\ j \in 5..n => Off
  /\ \A u \in j..Len(f) : f[u].do = "unlock" /\ (n > 0 => j >= 3) => lock = "worker"
  /\ j >= n => state.engine = e \/ Asked(f, p, i)
  /\ Calm(f, j, p, i, n) => Agree
  /\ ~ (p = Booting /\ i = 1) => Safe
  /\ p = Booting => InBoot(f, i, e)

Standing(f, j, p, i, e, n) ==
  /\ Turn(f, e, n) /\ j \in 1..(Len(f) + 1)
  /\ p \in Programs /\ i \in 1..(Len(p) + 1)
  /\ todo["worker"] = Stack(f, j, p, i)
  /\ p \in Doom => i <= Len(p)
  /\ p \notin Doom => Live(f, j, p, i, e, n)
Stands == Cured /\ \E f, j, p, i, e, n : Standing(f, j, p, i, e, n)

-----------------------------------------------------------------------------
(* Lists and their rests. *)

LEMMA RestIs ==
  ASSUME NEW S, NEW q \in Seq(S), NEW k \in 1..Len(q)
  PROVE  /\ Rest(q, k) # <<>> /\ Rest(q, k)[1] = q[k]
         /\ Tail(Rest(q, k)) = Rest(q, k + 1)
<1>1. /\ Head(Rest(q, k)) = q[k] /\ Tail(Rest(q, k)) = Rest(q, k + 1)
  BY HeadTailOfSubSeq DEF Rest
<1>2. /\ Rest(q, k) \in Seq(S) /\ Len(Rest(q, k)) = Len(q) - k + 1
  BY SubSeqProperties DEF Rest
<1>3. Rest(q, k) # <<>>
  BY <1>2
<1> QED BY <1>1, <1>2, <1>3

\* A rest is a list; the first is the whole, and the last has nothing left.
LEMMA RestEnds ==
  ASSUME NEW S, NEW q \in Seq(S)
  PROVE  /\ Rest(q, 1) = q /\ Rest(q, Len(q) + 1) = <<>>
         /\ \A k \in 1..(Len(q) + 1) : Rest(q, k) \in Seq(S) /\ Len(Rest(q, k)) = Len(q) - k + 1
<1>1. \A k \in 1..(Len(q) + 1) : Rest(q, k) \in Seq(S) /\ Len(Rest(q, k)) = Len(q) - k + 1
  BY SubSeqProperties DEF Rest
<1>2. Rest(q, Len(q) + 1) = <<>>
  BY SubSeqEmpty DEF Rest
<1>3. Rest(q, 1) = q
  BY SubSeqFull DEF Rest
<1> QED BY <1>1, <1>2, <1>3

\* Where a step of a list is in its rest.
LEMMA RestAt ==
  ASSUME NEW S, NEW q \in Seq(S), NEW k \in 1..Len(q), NEW m \in k..Len(q)
  PROVE  /\ Rest(q, k) \in Seq(S) /\ Len(Rest(q, k)) = Len(q) - k + 1
         /\ Rest(q, k)[m - k + 1] = q[m]
<1>1. \A l \in k..Len(q) : q[l] \in S
  OBVIOUS
<1>2. \A l \in 1..(Len(q) - k + 1) : Rest(q, k)[l] = q[k + l - 1]
  BY <1>1, SubSeqProperties DEF Rest
<1>3. m - k + 1 \in 1..(Len(q) - k + 1) /\ k + (m - k + 1) - 1 = m
  OBVIOUS
<1>4. Rest(q, k)[m - k + 1] = q[m]
  BY <1>2, <1>3
<1>5. k \in 1..(Len(q) + 1)
  OBVIOUS
<1> QED BY <1>4, <1>5, RestEnds

\* The head of a list that others follow.
LEMMA TailOfJoined ==
  ASSUME NEW S, NEW p \in Seq(S), NEW q \in Seq(S), p # <<>>
  PROVE  p \o q # <<>> /\ (p \o q)[1] = p[1] /\ Tail(p \o q) = Tail(p) \o q
OBVIOUS

\* Where a list that is read in this way begins.
LEMMA Stacked ==
  ASSUME NEW f \in Seq(Steps), NEW p \in Seq(Steps),
         NEW j \in 1..(Len(f) + 1), NEW i \in 1..(Len(p) + 1),
         NEW q, q = Stack(f, j, p, i)
  PROVE  /\ q \in Seq(Steps)
         /\ j <= Len(f) => /\ q # <<>> /\ q[1] = f[j]
                           /\ Tail(q) = Stack(f, j + 1, p, i)
         /\ j > Len(f) => q = Rest(p, i)
         /\ j > Len(f) /\ i > Len(p) => q = <<>>
<1>0. Len(f) \in Nat /\ Len(p) \in Nat
  OBVIOUS
<1>1. /\ Rest(f, j) \in Seq(Steps) /\ Rest(p, i) \in Seq(Steps)
      /\ Len(Rest(f, j)) = Len(f) - j + 1 /\ Len(f) \in Nat /\ Len(p) \in Nat
  BY <1>0, RestEnds, SMTT(30)
<1> DEFINE x == Rest(f, j)
           y == Rest(p, i)
<1>2. q = x \o y
  BY DEF Stack
<1> HIDE DEF x, y
<1>3. x \in Seq(Steps) /\ y \in Seq(Steps)
  BY <1>1 DEF x, y
<1>4. q \in Seq(Steps)
  BY <1>2, <1>3
<1>5. ASSUME j <= Len(f)
      PROVE  q # <<>> /\ q[1] = f[j] /\ Tail(q) = Stack(f, j + 1, p, i)
  <2>1. x # <<>> /\ x[1] = f[j] /\ Tail(x) = Rest(f, j + 1)
    <3>1. j \in 1..Len(f)
      BY <1>1, <1>5
    <3> QED BY <3>1, RestIs DEF x
  <2>2. q # <<>> /\ q[1] = x[1] /\ Tail(q) = Tail(x) \o y
    <3>1. /\ x \o y # <<>> /\ (x \o y)[1] = x[1]
          /\ Tail(x \o y) = Tail(x) \o y
      BY <1>3, <2>1, TailOfJoined
    <3> QED BY <1>2, <3>1
  <2> QED BY <2>1, <2>2 DEF Stack, y
<1>6. ASSUME j > Len(f) PROVE q = y
  <2>1. j = Len(f) + 1
    BY <1>0, <1>6
  <2>2. x = <<>>
    BY <2>1, RestEnds DEF x
  <2> QED BY <1>2, <1>3, <2>2
<1>7. ASSUME j > Len(f), i > Len(p) PROVE q = <<>>
  <2>1. i = Len(p) + 1
    BY <1>0, <1>7
  <2> QED BY <1>6, <1>7, <2>1, RestEnds DEF y
<1> QED BY <1>4, <1>5, <1>6, <1>7 DEF y

-----------------------------------------------------------------------------
(* What steps do to containers and configurations. *)

Works(a) ==
  \/ a.do = "stop" /\ box' = Down(a.engine, "stopped") /\ UNCHANGED disk
  \/ /\ a.do \in {"start", "start_once", "restart"} /\ UNCHANGED disk
     /\ box' \in {box, Up(a.engine), Down(a.engine, "crashed")}
  \/ /\ a.do = "write" /\ UNCHANGED box
     /\ disk' = [disk EXCEPT ![a.engine] = a.config]
  \/ a.do \notin DockDos /\ UNCHANGED <<box, disk>>

\* The ports, as a container goes down or comes up.
LEMMA PortsKeep ==
  ASSUME Typed
  PROVE  /\ \A how \in {"stopped", "crashed"} :
              /\ Off => Down("xray", how)["singbox"] = "stopped"
              /\ Down("xray", how)["xray"] = how
              /\ Down("singbox", how)["xray"] = box["xray"]
              /\ Down("singbox", how)["singbox"] = how
         /\ Off => Up("xray")["singbox"] = "stopped"
         /\ disk["xray"] = "dummy" => Up("xray")["xray"] \in {"dummy", "crashed"}
         /\ Up("singbox")["xray"] = box["xray"]
         /\ "stopped" \notin Configs /\ "crashed" \notin Configs /\ "dummy" \in Configs
<1>1. /\ box \in [Engines -> Boxes] /\ disk \in [Engines -> Files]
      /\ Engines = {"xray", "singbox"}
  BY DEF Typed, TypeOK, Engines
<1>2. "stopped" \notin Configs /\ "crashed" \notin Configs /\ "dummy" \in Configs
  BY ServersAssumption DEF Configs
<1>3. ASSUME NEW how \in {"stopped", "crashed"}
      PROVE  /\ Off => Down("xray", how)["singbox"] = "stopped"
             /\ Down("xray", how)["xray"] = how
             /\ Down("singbox", how)["xray"] = box["xray"]
             /\ Down("singbox", how)["singbox"] = how
             /\ Down("singbox", how) \in [Engines -> Boxes]
             /\ Down("xray", how) \in [Engines -> Boxes]
  <2>1. /\ Down("singbox", how) \in [Engines -> Boxes]
        /\ Down("xray", how) \in [Engines -> Boxes]
    BY <1>1, BoxesStay
  <2> QED BY <1>1, <1>2, <2>1 DEF Down, Off, Running
<1>4. Off => Up("xray")["singbox"] = "stopped"
  BY <1>1, <1>3 DEF Up
<1>5. disk["xray"] = "dummy" => Up("xray")["xray"] \in {"dummy", "crashed"}
  BY <1>1, <1>3 DEF Up
<1>6. Up("singbox")["xray"] = box["xray"]
  BY <1>1, <1>3 DEF Up
<1> QED BY <1>2, <1>3, <1>4, <1>5, <1>6

\* What one step does to the ports.
LEMMA Worked ==
  ASSUME Typed, NEW a \in Steps, Works(a)
  PROVE  /\ Off /\ ~ Sings(a) => Off'
         /\ disk["xray"] = "dummy" /\ ~ Voices(a) => disk'["xray"] = "dummy"
         /\ Silent /\ ~ Voices(a) => Silent'
         /\ a = Step("write", "xray", "dummy") => disk'["xray"] = "dummy"
         /\ a = On("stop", "singbox") => Off'
         /\ a = On("stop", "xray") => ~ Listens("xray")'
<1>1. /\ box \in [Engines -> Boxes] /\ disk \in [Engines -> Files]
      /\ a.engine \in {"xray", "singbox"} /\ Engines = {"xray", "singbox"}
  BY DEF Typed, TypeOK, Engines, Steps
<1>2. CASE a.do = "write"
  <2>1. box' = box /\ disk' = [disk EXCEPT ![a.engine] = a.config]
    BY <1>2 DEF Works, DockDos
  <2>2. ~ Sings(a) /\ a # On("stop", "singbox") /\ a # On("stop", "xray")
    BY <1>2 DEF Sings, On, Step
  <2>3. ~ Voices(a) => a.engine = "singbox" \/ a.config = "dummy"
    BY <1>1, <1>2 DEF Voices
  <2>4. a = Step("write", "xray", "dummy") => a.engine = "xray" /\ a.config = "dummy"
    BY DEF Step
  <2>5. disk'["xray"] = IF a.engine = "xray" THEN a.config ELSE disk["xray"]
    BY <1>1, <2>1
  <2> QED BY <2>1, <2>2, <2>3, <2>4, <2>5 DEF Off, Silent, Listens
<1>3. CASE a.do = "stop"
  <2>1. disk' = disk /\ box' = Down(a.engine, "stopped")
    BY <1>3 DEF Works, DockDos
  <2>2. ~ Sings(a) /\ a # Step("write", "xray", "dummy")
    BY <1>3 DEF Sings, Step
  <2>3. /\ a = On("stop", "singbox") => a.engine = "singbox"
        /\ a = On("stop", "xray") => a.engine = "xray"
    BY DEF On, Step
  <2>4. CASE a.engine = "xray"
    <3>1. (Off => box'["singbox"] = "stopped") /\ box'["xray"] = "stopped"
      BY <2>1, <2>4, PortsKeep
    <3> QED BY <2>1, <2>2, <2>3, <2>4, <3>1, PortsKeep DEF Off, Silent, Listens
  <2>5. CASE a.engine = "singbox"
    <3>1. box'["singbox"] = "stopped" /\ box'["xray"] = box["xray"]
      BY <2>1, <2>5, PortsKeep
    <3> QED BY <2>1, <2>2, <2>3, <2>5, <3>1 DEF Off, Silent, Listens
  <2> QED BY <1>1, <2>4, <2>5
<1>4. CASE a.do \in {"start", "start_once", "restart"}
  <2>1. disk' = disk /\ box' \in {box, Up(a.engine), Down(a.engine, "crashed")}
    BY <1>4 DEF Works, DockDos
  <2>2. /\ a # Step("write", "xray", "dummy") /\ a # On("stop", "singbox")
        /\ a # On("stop", "xray") /\ (~ Sings(a) => a.engine = "xray")
    BY <1>1, <1>4 DEF Sings, Step, On
  <2>3. CASE a.engine = "xray"
    <3>1. /\ Off => box'["singbox"] = "stopped"
          /\ Silent => box'["xray"] \notin Configs \ {"dummy"}
      BY <2>1, <2>3, PortsKeep DEF Off, Silent, Listens
    <3> QED BY <2>1, <2>2, <3>1 DEF Off, Silent, Listens
  <2>4. CASE a.engine = "singbox"
    <3>1. box'["xray"] = box["xray"]
      BY <2>1, <2>4, PortsKeep
    <3> QED BY <1>1, <2>1, <2>2, <2>4, <3>1 DEF Silent, Listens
  <2> QED BY <1>1, <2>3, <2>4
<1>5. CASE a.do \notin DockDos
  <2>1. box' = box /\ disk' = disk
    BY <1>5 DEF Works, DockDos
  <2>2. /\ a # Step("write", "xray", "dummy") /\ a # On("stop", "singbox")
        /\ a # On("stop", "xray")
    BY <1>5 DEF Step, On, DockDos
  <2> QED BY <2>1, <2>2 DEF Off, Silent, Listens
<1> QED BY <1>2, <1>3, <1>4, <1>5 DEF DockDos

\* The list from which the step is taken.
LEMMA ReadyOnwards ==
  ASSUME Typed, NEW q \in Seq(Steps), NEW j \in 1..Len(q), Muted(q), Ready(q, j),
         Works(q[j])
  PROVE  Ready(q, j + 1)'
<1>1. q[j] \in Steps
  OBVIOUS
<1>2. ASSUME NEW m \in (j + 1)..Len(q), Sings(q[m])
      PROVE  /\ m - (j + 1) <= 3 => disk'["xray"] = "dummy"
             /\ m - (j + 1) <= 1 => ~ Listens("xray")'
  <2>1. /\ m \in 1..Len(q) /\ m \in j..Len(q) /\ m - j \in Nat /\ m - j >= 1
        /\ m - (j + 1) = (m - j) - 1
    OBVIOUS
  <2>2. /\ m - j <= 3 => disk["xray"] = "dummy"
        /\ m - j <= 1 => ~ Listens("xray")
    BY <1>2, <2>1 DEF Ready
  <2>3. /\ m - j = 4 => q[j] = Step("write", "xray", "dummy")
        /\ m - j = 3 => q[j] = On("stop", "singbox")
        /\ m - j = 2 => q[j] = On("stop", "xray")
        /\ m - j = 1 => q[j] = On("start", "xray")
    BY <1>2, <2>1 DEF Muted
  <2>4. m - j <= 3 => ~ Voices(q[j])
    <3>1. m - j <= 3 => m - j \in {1, 2, 3}
      BY <2>1
    <3> QED BY <2>3, <3>1 DEF Voices, On, Step
  <2>5. m - j <= 4 => disk'["xray"] = "dummy"
    BY <1>1, <2>1, <2>2, <2>3, <2>4, Worked
  <2>6. m - j <= 1 => Silent
    BY <2>1, <2>2 DEF Silent
  <2>7. m - j <= 1 => ~ Listens("xray")'
    BY <1>1, <2>1, <2>4, <2>6, Worked DEF Silent
  <2>8. m - j = 2 => ~ Listens("xray")'
    BY <1>1, <2>3, Worked
  <2> QED BY <2>1, <2>5, <2>7, <2>8
<1> QED BY <1>2 DEF Ready, Listens

\* The list of the other thread.
LEMMA ReadyAside ==
  ASSUME Typed, NEW a \in Steps, Works(a), ~ Voices(a), NEW q, NEW j \in Nat, Len(q) \in Nat,
         Ready(q, j)
  PROVE  Ready(q, j)'
<1>1. ASSUME NEW m \in j..Len(q), Sings(q[m])
      PROVE  /\ m - j <= 3 => disk'["xray"] = "dummy"
             /\ m - j <= 1 => ~ Listens("xray")'
  <2>1. /\ m - j <= 3 => disk["xray"] = "dummy"
        /\ m - j <= 1 => Silent
    BY <1>1 DEF Ready, Silent
  <2> QED BY <2>1, Worked DEF Silent
<1> QED BY <1>1 DEF Ready, Listens

\* A list whose head has been done.
LEMMA MutedTail ==
  ASSUME NEW q \in Seq(Steps), q # <<>>, Muted(q)
  PROVE  Muted(Tail(q)) /\ (Ready(q, 2)' => Ready(Tail(q), 1)')
<1> DEFINE r == Tail(q)
<1>1. /\ Len(q) \in Nat \ {0} /\ Len(r) = Len(q) - 1
      /\ \A i \in 1..Len(r) : i + 1 \in 1..Len(q) /\ r[i] = q[i + 1]
  BY TailIs
<1> HIDE DEF r
<1>2. ASSUME NEW k \in 1..Len(r), Sings(r[k])
      PROVE  /\ k >= 5 => r[k - 4] = Step("write", "xray", "dummy")
             /\ k >= 4 => r[k - 3] = On("stop", "singbox")
             /\ k >= 3 => r[k - 2] = On("stop", "xray")
             /\ k >= 2 => r[k - 1] = On("start", "xray")
  <2>1. k + 1 \in 1..Len(q) /\ Sings(q[k + 1])
    BY <1>1, <1>2
  <2>2. /\ k >= 5 => q[k - 3] = Step("write", "xray", "dummy")
        /\ k >= 4 => q[k - 2] = On("stop", "singbox")
        /\ k >= 3 => q[k - 1] = On("stop", "xray")
        /\ k >= 2 => q[k] = On("start", "xray")
    BY <2>1 DEF Muted
  <2>3. /\ k >= 5 => r[k - 4] = q[k - 3]
        /\ k >= 4 => r[k - 3] = q[k - 2]
        /\ k >= 3 => r[k - 2] = q[k - 1]
        /\ k >= 2 => r[k - 1] = q[k]
    <3>1. /\ k >= 5 => k - 4 \in 1..Len(r) /\ (k - 4) + 1 = k - 3
          /\ k >= 4 => k - 3 \in 1..Len(r) /\ (k - 3) + 1 = k - 2
          /\ k >= 3 => k - 2 \in 1..Len(r) /\ (k - 2) + 1 = k - 1
          /\ k >= 2 => k - 1 \in 1..Len(r) /\ (k - 1) + 1 = k
      BY <1>1
    <3> QED BY <1>1, <3>1
  <2> QED BY <2>2, <2>3
<1>3. ASSUME Ready(q, 2)', NEW m \in 1..Len(r), Sings(r[m])
      PROVE  /\ m - 1 <= 3 => disk'["xray"] = "dummy"
             /\ m - 1 <= 1 => ~ Listens("xray")'
  <2>1. m + 1 \in 2..Len(q) /\ Sings(q[m + 1]) /\ (m + 1) - 2 = m - 1
    BY <1>1, <1>3
  <2> QED BY <1>3, <2>1 DEF Ready
<1>4. Muted(r)
  BY <1>2 DEF Muted
<1>5. Ready(q, 2)' => Ready(r, 1)'
  BY <1>3 DEF Ready
<1> QED BY <1>4, <1>5 DEF r

-----------------------------------------------------------------------------
(* The branches. *)

\* What starts the containers of e, the dummy before sing-box.
Docked(d, e) ==
  /\ d \in Seq(Docks)
  /\ \A k \in 1..Len(d) : ~ Voices(d[k]) /\ (Sings(d[k]) => k = 5 /\ e = "singbox")
  /\ e = "singbox" => /\ Len(d) = 5
                      /\ d[1] = Step("write", "xray", "dummy") /\ d[2] = On("stop", "singbox")
                      /\ d[3] = On("stop", "xray") /\ d[4] = On("start", "xray")

\* Both ways to start an engine give xray the dummy before sing-box.
LEMMA DockedIs ==
  ASSUME NEW e \in Engines
  PROVE  Docked(DockerRestart(e), e) /\ Docked(EnsureDefaults(e), e)
<1>1. /\ DockerRestart(e) \in Seq(Docks) /\ EnsureDefaults(e) \in Seq(Docks)
  <2>1. "none" \in Files
    BY DEF Files
  <2> QED BY <2>1, RestartDocks
<1>2. ASSUME NEW do \in {"start", "restart"}, NEW d,
             d = EnsureDummy \o <<On(do, "singbox")>>, d \in Seq(Docks)
      PROVE  Docked(d, "singbox")
  <2>1. /\ Len(d) = 5 /\ d[1] = Step("write", "xray", "dummy")
        /\ d[2] = On("stop", "singbox") /\ d[3] = On("stop", "xray")
        /\ d[4] = On("start", "xray") /\ d[5] = On(do, "singbox")
    BY <1>2, SMT DEF EnsureDummy
  <2>2. ASSUME NEW k \in 1..Len(d) PROVE ~ Voices(d[k]) /\ (Sings(d[k]) => k = 5)
    <3>1. k \in {1, 2, 3, 4, 5}
      BY <2>1
    <3>2. /\ ~ Voices(d[1]) /\ ~ Voices(d[2]) /\ ~ Voices(d[3]) /\ ~ Voices(d[4])
          /\ ~ Voices(d[5]) /\ ~ Sings(d[1]) /\ ~ Sings(d[2]) /\ ~ Sings(d[3]) /\ ~ Sings(d[4])
      BY <2>1, SMT DEF Voices, Sings, On, Step
    <3> QED BY <3>1, <3>2
  <2> QED BY <1>2, <2>1, <2>2 DEF Docked
<1>3. ASSUME NEW d \in Seq(Docks), d \in {<<On("restart", "xray")>>,
                                           <<On("stop", "singbox"), On("start_once", "xray")>>}
      PROVE  Docked(d, "xray")
  <2>1. \A k \in 1..Len(d) :
          d[k] \in {On("restart", "xray"), On("stop", "singbox"), On("start_once", "xray")}
    BY <1>3
  <2>2. \A k \in 1..Len(d) : ~ Voices(d[k]) /\ ~ Sings(d[k])
    BY <2>1, SMT DEF Voices, Sings, On, Step
  <2> QED BY <2>2 DEF Docked
<1>4. CASE e = "xray"
  <2>1. /\ DockerRestart(e) = <<On("restart", "xray")>>
        /\ EnsureDefaults(e) = <<On("stop", "singbox"), On("start_once", "xray")>>
    BY <1>4, SMT DEF DockerRestart, EnsureDefaults
  <2> QED BY <1>1, <1>3, <1>4, <2>1
<1>5. CASE e = "singbox"
  <2>1. /\ DockerRestart(e) = EnsureDummy \o <<On("restart", "singbox")>>
        /\ EnsureDefaults(e) = EnsureDummy \o <<On("start", "singbox")>>
    BY <1>5 DEF DockerRestart, EnsureDefaults
  <2> QED BY <1>1, <1>2, <1>5, <2>1
<1> QED BY <1>4, <1>5 DEF Engines

Afters(x, e) ==
  /\ x \in Seq(Steps)
  /\ \A k \in 1..Len(x) : x[k].do \in {"unlock", "applied_anyway", "see"}
                          /\ (x[k].do = "see" => x[k].engine = e)
  /\ \A k, l \in 1..Len(x) : x[k].do = "unlock" /\ x[l].do = "unlock" => k = l

\* Containers are started, after a configuration is written or not.
LEMMA DockedTurns ==
  ASSUME NEW e \in Engines, NEW d, Docked(d, e), NEW x, Afters(x, e)
  PROVE  /\ Turn(d \o x, e, 0)
         /\ \A k \in 1..Len(d \o x) : ~ Voices((d \o x)[k]) /\ (d \o x)[k].do # "keep"
<1> DEFINE f == d \o x
<1>1. /\ d \in Seq(Steps) /\ x \in Seq(Steps) /\ Len(d) \in Nat /\ Len(x) \in Nat
      /\ \A k \in 1..Len(d) : d[k].do \in DockDos
  BY DEF Docked, Docks, DockDos, Afters
<1>2. /\ f \in Seq(Steps) /\ Len(f) = Len(d) + Len(x)
      /\ \A k \in 1..Len(d) : f[k] = d[k]
      /\ \A k \in (Len(d) + 1)..(Len(d) + Len(x)) : f[k] = x[k - Len(d)]
  BY <1>1, Joined
<1> HIDE DEF f
<1>3. ASSUME NEW k \in 1..Len(f)
      PROVE  /\ f[k].do \in DockDos \cup {"unlock", "applied_anyway", "see"}
             /\ f[k].do = "see" => f[k].engine = e
             /\ ~ Voices(f[k]) /\ (Sings(f[k]) => k = 5 /\ e = "singbox")
  <2>1. CASE k <= Len(d)
    <3>1. k \in 1..Len(d) /\ f[k] = d[k]
      BY <1>2, <2>1
    <3> QED BY <1>1, <3>1 DEF Docked, DockDos
  <2>2. CASE k > Len(d)
    <3>1. k - Len(d) \in 1..Len(x) /\ f[k] = x[k - Len(d)]
      BY <1>1, <1>2, <2>2
    <3>2. f[k].do \in {"unlock", "applied_anyway", "see"}
      BY <3>1 DEF Afters
    <3>3. ~ Voices(f[k]) /\ ~ Sings(f[k])
      BY <3>2 DEF Voices, Sings
    <3> QED BY <3>1, <3>2, <3>3 DEF Afters
  <2> QED BY <1>1, <2>1, <2>2
<1>4. ASSUME NEW k \in 1..Len(f), NEW l \in 1..Len(f), f[k].do = "unlock", f[l].do = "unlock"
      PROVE  k = l
  <2>1. k > Len(d) /\ l > Len(d)
    <3>1. ASSUME NEW i \in 1..Len(f), i <= Len(d) PROVE f[i].do # "unlock"
      <4>1. i \in 1..Len(d) /\ f[i] = d[i]
        BY <1>1, <1>2, <3>1
      <4>2. f[i].do \in DockDos
        BY <1>1, <4>1
      <4> QED BY <4>2 DEF DockDos
    <3> QED BY <1>1, <1>4, <3>1
  <2>2. /\ k - Len(d) \in 1..Len(x) /\ f[k] = x[k - Len(d)]
        /\ l - Len(d) \in 1..Len(x) /\ f[l] = x[l - Len(d)]
    BY <1>1, <1>2, <2>1
  <2>3. k - Len(d) = l - Len(d)
    BY <1>4, <2>2 DEF Afters
  <2> QED BY <1>1, <2>3
<1>5. Muted(f)
  <2>1. ASSUME NEW k \in 1..Len(f), Sings(f[k])
        PROVE  /\ k = 5 /\ f[1] = Step("write", "xray", "dummy") /\ f[2] = On("stop", "singbox")
               /\ f[3] = On("stop", "xray") /\ f[4] = On("start", "xray")
    <3>1. k = 5 /\ e = "singbox"
      BY <1>3, <2>1
    <3>2. /\ Len(d) = 5
          /\ d[1] = Step("write", "xray", "dummy") /\ d[2] = On("stop", "singbox")
          /\ d[3] = On("stop", "xray") /\ d[4] = On("start", "xray")
      BY <3>1 DEF Docked
    <3>3. f[1] = d[1] /\ f[2] = d[2] /\ f[3] = d[3] /\ f[4] = d[4]
      BY <1>2, <3>2
    <3> QED BY <3>1, <3>2, <3>3
  <2> QED BY <2>1 DEF Muted
<1>6. ASSUME NEW k \in 1..Len(f)
      PROVE  /\ f[k].do \in HandDos /\ f[k].do \notin {"save_engine", "keep"}
             /\ f[k].do \notin Verifies
             /\ f[k].do \in Records => k > 0 /\ f[k].engine = e
  BY <1>3, SMT DEF HandDos, DockDos, Hands, Guarded, Verifies, Records
<1>7. ASSUME NEW k \in 1..Len(f) PROVE f[k].do # "verify_or_roll_back"
  BY <1>6 DEF Verifies
<1>8. \A k \in 1..Len(f) :
       /\ f[k].do \in HandDos
       /\ Sings(f[k]) => k >= 5 /\ e = "singbox"
       /\ Voices(f[k]) => e = "xray" /\ k = IF 0 = 0 THEN 1 ELSE 5
       /\ f[k].do = "save_engine" => k = 0 - 1 /\ f[k].engine = e
       /\ f[k].do \in Verifies => k = 0 /\ f[k].engine = e
       /\ f[k].do \in Records => k > 0 /\ f[k].engine = e
       /\ f[k].do = "keep" => k = 1 /\ 0 = 0
       /\ f[k].do = "verify_or_roll_back" =>
            \A l \in (k + 1)..Len(f) : f[l].do \in {"unlock", "applied_anyway"}
  BY <1>3, <1>6, <1>7
<1>9. Turn(f, e, 0)
  BY <1>2, <1>4, <1>5, <1>8 DEF Turn
<1>10. \A k \in 1..Len(f) : ~ Voices(f[k]) /\ f[k].do # "keep"
  BY <1>3, <1>6
<1> QED BY <1>9, <1>10 DEF f

\* The rollback and the fallback write a configuration before they do so.
LEMMA WrittenTurns ==
  ASSUME NEW e \in Engines, NEW c \in Files, NEW d, Docked(d, e), NEW x, Afters(x, e)
  PROVE  Turn(<<Step("write", e, c)>> \o d \o x, e, 0)
<1> DEFINE w == Step("write", e, c)
           g == d \o x
           f == <<w>> \o g
<1>1. Turn(g, e, 0) /\ \A k \in 1..Len(g) : ~ Voices(g[k]) /\ g[k].do # "keep"
  BY DockedTurns
<1>2. /\ w \in Steps /\ w.do = "write" /\ w.engine = e /\ ~ Sings(w)
      /\ Voices(w) => e = "xray"
  BY SMT DEF Step, Steps, Deeds, Guarded, Verifies, Sings, Voices
<1>3. d \in Seq(Steps) /\ x \in Seq(Steps) /\ g \in Seq(Steps) /\ Len(g) \in Nat
  BY DEF Docked, Docks, Afters
<1> HIDE DEF w
<1>4. <<w>> \o d \o x = f
  BY <1>2, <1>3, ConcatAssociative
<1>5. /\ f \in Seq(Steps) /\ Len(f) = Len(g) + 1 /\ f[1] = w
      /\ \A k \in 2..Len(f) : k - 1 \in 1..Len(g) /\ f[k] = g[k - 1]
  <2> HIDE DEF g
  <2>1. <<w>> \in Seq(Steps) /\ Len(<<w>>) = 1 /\ <<w>>[1] = w
    BY <1>2
  <2>2. /\ f \in Seq(Steps) /\ Len(f) = 1 + Len(g) /\ f[1] = w
        /\ \A k \in 2..(1 + Len(g)) : f[k] = g[k - 1]
    BY <1>3, <2>1, Joined
  <2> QED BY <1>3, <2>2
<1> HIDE DEF f, g
<1>6. ASSUME NEW k \in 1..Len(f)
      PROVE  \/ k = 1 /\ f[k] = w
             \/ k \in 2..Len(f) /\ k - 1 \in 1..Len(g) /\ f[k] = g[k - 1]
  BY <1>5
<1>7. \A k \in 1..Len(g) :
       /\ g[k].do \in HandDos \ {"save_engine"} /\ g[k].do \notin Verifies
       /\ g[k].do # "verify_or_roll_back"
       /\ Sings(g[k]) => k >= 5 /\ e = "singbox"
       /\ g[k].do \in Records => g[k].engine = e
  BY <1>1 DEF Turn, Verifies
<1>8. Muted(f)
  <2>1. ASSUME NEW k \in 1..Len(f), Sings(f[k])
        PROVE  /\ f[k - 4] = Step("write", "xray", "dummy")
               /\ f[k - 3] = On("stop", "singbox")
               /\ f[k - 2] = On("stop", "xray")
               /\ f[k - 1] = On("start", "xray")
    <3>1. k - 1 \in 1..Len(g) /\ Sings(g[k - 1]) /\ k - 1 >= 5
      BY <1>2, <1>6, <1>7, <2>1
    <3>2. /\ g[(k - 1) - 4] = Step("write", "xray", "dummy")
          /\ g[(k - 1) - 3] = On("stop", "singbox")
          /\ g[(k - 1) - 2] = On("stop", "xray")
          /\ g[(k - 1) - 1] = On("start", "xray")
      <4>1. Muted(g) /\ k - 1 >= 4 /\ k - 1 >= 3 /\ k - 1 >= 2
        BY <1>1, <3>1 DEF Turn
      <4> QED BY <3>1, <4>1 DEF Muted
    <3>3. /\ f[k - 4] = g[(k - 1) - 4] /\ f[k - 3] = g[(k - 1) - 3]
          /\ f[k - 2] = g[(k - 1) - 2] /\ f[k - 1] = g[(k - 1) - 1]
      <4>1. /\ k - 4 \in 2..Len(f) /\ (k - 4) - 1 = (k - 1) - 4
            /\ k - 3 \in 2..Len(f) /\ (k - 3) - 1 = (k - 1) - 3
            /\ k - 2 \in 2..Len(f) /\ (k - 2) - 1 = (k - 1) - 2
            /\ k - 1 \in 2..Len(f)
        BY <1>3, <1>5, <3>1
      <4> QED BY <1>5, <4>1
    <3> QED BY <3>2, <3>3
  <2> QED BY <2>1 DEF Muted
<1>9. ASSUME NEW k \in 1..Len(f)
      PROVE  /\ f[k].do \in HandDos \ {"save_engine"} /\ f[k].do \notin Verifies
             /\ f[k].do # "verify_or_roll_back"
             /\ Sings(f[k]) => k >= 5 /\ e = "singbox"
             /\ Voices(f[k]) => e = "xray" /\ k = 1
             /\ f[k].do \in Records => k > 0 /\ f[k].engine = e
             /\ f[k].do # "keep"
  <2>1. CASE k = 1 /\ f[k] = w
    <3>1. "write" \in HandDos /\ "write" \notin Verifies /\ "write" \notin Records
      BY SMT DEF HandDos, Hands, Guarded, Verifies, Records
    <3> QED BY <1>2, <2>1, <3>1
  <2>2. CASE k \in 2..Len(f) /\ k - 1 \in 1..Len(g) /\ f[k] = g[k - 1]
    <3>1. ~ Voices(f[k]) /\ f[k].do # "keep"
      BY <1>1, <2>2
    <3> QED BY <1>7, <2>2, <3>1
  <2> QED BY <1>6, <2>1, <2>2
<1>10. ASSUME NEW k \in 1..Len(f), NEW l \in 1..Len(f), f[k].do = "unlock", f[l].do = "unlock"
       PROVE  k = l
  <2>1. /\ k - 1 \in 1..Len(g) /\ g[k - 1].do = "unlock"
        /\ l - 1 \in 1..Len(g) /\ g[l - 1].do = "unlock"
    BY <1>2, <1>6, <1>10
  <2>2. k - 1 = l - 1
    BY <1>1, <2>1 DEF Turn
  <2> QED BY <2>2
<1>11. \A k \in 1..Len(f) :
       /\ f[k].do \in HandDos
       /\ Sings(f[k]) => k >= 5 /\ e = "singbox"
       /\ Voices(f[k]) => e = "xray" /\ k = IF 0 = 0 THEN 1 ELSE 5
       /\ f[k].do = "save_engine" => k = 0 - 1 /\ f[k].engine = e
       /\ f[k].do \in Verifies => k = 0 /\ f[k].engine = e
       /\ f[k].do \in Records => k > 0 /\ f[k].engine = e
       /\ f[k].do = "keep" => k = 1 /\ 0 = 0
       /\ f[k].do = "verify_or_roll_back" =>
            \A l \in (k + 1)..Len(f) : f[l].do \in {"unlock", "applied_anyway"}
  BY <1>9
<1>12. Turn(f, e, 0)
  <2>1. f \in Seq(Steps) /\ 0 \in {0, 8, 9, 12, 13} /\ ~ (0 > 0)
    BY <1>5
  <2> QED BY <1>8, <1>10, <1>11, <2>1, SMTT(30) DEF Turn
<1> QED BY <1>4, <1>12 DEF w

\* Nothing to do, or nothing but to keep the server.
LEMMA ShortTurns ==
  ASSUME NEW e \in Engines
  PROVE  Turn(<<>>, e, 0) /\ Turn(<<Simply("keep")>>, e, 0)
<1>1. Turn(<<>>, e, 0)
  BY DEF Turn, Muted
<1> DEFINE f == <<Simply("keep")>>
<1>2. f \in Seq(Steps) /\ Len(f) = 1 /\ f[1].do = "keep"
  <2>1. Simply("keep") \in Steps /\ Simply("keep").do = "keep"
    BY SMT DEF Simply, Step, Steps, Deeds, Guarded, Decides, Verifies, Late, Engines, Files
  <2> QED BY <2>1
<1> HIDE DEF f
<1>3. ASSUME NEW k \in 1..Len(f)
      PROVE  /\ k = 1 /\ f[k].do = "keep" /\ f[k].do \in HandDos /\ ~ Sings(f[k])
             /\ ~ Voices(f[k]) /\ f[k].do \notin Verifies /\ f[k].do \notin Records
  <2>1. k = 1 /\ f[k].do = "keep"
    BY <1>2
  <2> QED BY <2>1, SMT DEF HandDos, Sings, Voices, Verifies, Records
<1>4. Turn(f, e, 0)
  BY <1>2, <1>3 DEF Turn, Muted
<1> QED BY <1>1, <1>4 DEF f

\* The restart of both engines on request.
LEMMA AskedTurns ==
  /\ Turn(RestartBoth, "singbox", 0)
  /\ \A k \in 1..Len(RestartBoth) : RestartBoth[k].do \in DockDos /\ ~ Voices(RestartBoth[k])
<1> DEFINE f == RestartBoth
<1>1. /\ Len(f) = 6 /\ f[1] = On("restart", "xray") /\ f[2] = Step("write", "xray", "dummy")
      /\ f[3] = On("stop", "singbox") /\ f[4] = On("stop", "xray")
      /\ f[5] = On("start", "xray") /\ f[6] = On("restart", "singbox")
  BY SMT DEF RestartBoth, DockerRestart, EnsureDummy
<1>2. f \in Seq(Steps)
  <2>1. /\ "xray" \in Engines /\ "singbox" \in Engines /\ "none" \in Files
    BY DEF Engines, Files
  <2>2. DockerRestart("xray") \in Seq(Steps) /\ DockerRestart("singbox") \in Seq(Steps)
    BY <2>1, RestartDocks
  <2> QED BY <2>2 DEF RestartBoth
<1> HIDE DEF f
<1>3. /\ f[1].do = "restart" /\ f[2].do = "write" /\ f[3].do = "stop" /\ f[4].do = "stop"
      /\ f[5].do = "start" /\ f[6].do = "restart"
      /\ f[1].engine = "xray" /\ f[2].config = "dummy" /\ f[5].engine = "xray"
  BY <1>1, SMT DEF On, Step
<1>4. ASSUME NEW k \in 1..Len(f)
      PROVE  /\ f[k].do \in DockDos /\ ~ Voices(f[k]) /\ (Sings(f[k]) => k = 6)
             /\ f[k].do \in HandDos
             /\ f[k].do \notin Verifies \cup Records \cup {"save_engine", "keep", "unlock"}
  <2>1. k \in {1, 2, 3, 4, 5, 6}
    BY <1>1
  <2>2. f[k].do \in DockDos /\ ~ Voices(f[k]) /\ (Sings(f[k]) => k = 6)
    BY <1>3, <2>1, SMT DEF DockDos, Voices, Sings
  <2> QED BY <2>2, SMT DEF DockDos, HandDos, Hands, Guarded, Verifies, Records
<1>5. Muted(f)
  BY <1>1, <1>4 DEF Muted
<1>6. \A k \in 1..Len(f) : f[k].do # "verify_or_roll_back"
  BY <1>4 DEF Verifies
<1>7. Turn(f, "singbox", 0)
  BY <1>2, <1>4, <1>5, <1>6, SMTT(30) DEF Turn, Engines
<1> QED BY <1>4, <1>7 DEF f

Lacks(f, dos) == \A k \in 1..Len(f) : f[k].do \notin dos

LEMMA NoneOrOne == \A m \in Nat : m <= 1 => m \in {0, 1}
OBVIOUS

\* A server is applied.
LEMMA PlayTurns ==
  ASSUME NEW s \in Servers, NEW how \in Verifies, NEW x \in Seq(Steps), Len(x) <= 1,
         Play(EngineOf(s), s, how) \in Seq(Steps),
         \A i \in 1..Len(x) :
           /\ x[i].do \in {"applied_anyway", "save_manual", "save_smart"}
           /\ x[i].do # "applied_anyway" => how = "verify" /\ x[i].engine = EngineOf(s)
  PROVE  LET f == Play(EngineOf(s), s, how) \o x IN
         /\ Turn(f, EngineOf(s), End(EngineOf(s), how))
         /\ Lacks(f, {"see"}) /\ (how = "verify" => Lacks(f, {"verify_or_roll_back"}))
         /\ (\A i \in 1..Len(x) : x[i].do # "applied_anyway") => Lacks(f, {"applied_anyway"})
<1> DEFINE e == EngineOf(s)
           b == Play(e, s, how)
           f == b \o x
           n == End(e, how)
<1>1. e \in Engines /\ how \in {"verify", "verify_or_roll_back"}
  BY EngineIsOne DEF Verifies
<1>2. n \in {8, 9, 12, 13} /\ (e = "xray" => n <= 9) /\ (e # "xray" => n >= 12)
  BY <1>1 DEF End, Restarted, Engines
<1>3. PlayedOut(b, e, s, how) /\ b \in Seq(Steps)
  BY Plays
<1> HIDE DEF b
<1>4. n = End(e, how)
  OBVIOUS
<1> HIDE DEF n, e
<1>5. /\ Len(b) = (IF how = "verify" THEN n + 2 ELSE n + 1)
      /\ b[2].do = "lock" /\ b[n - 1] = On("save_engine", e) /\ b[n] = Step(how, e, s)
      /\ \A i \in 1..(n - 1) : b[i].do \in Guarded
      /\ \A i \in 1..Len(b) : i > n => b[i].do \in {"funlock", "unlock"}
      /\ \A i \in 1..Len(b) : b[i].do = "unlock" <=> i = Len(b)
      /\ b[1].do = "save_rollback" /\ b[4] = On("stop", Other(e))
      /\ \A i \in 1..Len(b) : b[i].do = "save_engine" <=> i = n - 1
      /\ \A i \in 1..Len(b) : Sings(b[i]) => i = 10 /\ e = "singbox"
      /\ \A i \in 1..Len(b) : Voices(b[i]) => i = 5 /\ e = "xray"
      /\ e = "singbox" => /\ b[6] = Step("write", "xray", "dummy")
                          /\ b[7] = On("stop", "singbox") /\ b[8] = On("stop", "xray")
                          /\ b[9] = On("start", "xray")
  BY <1>3, <1>4, Zenon DEF PlayedOut
<1>6. /\ f \in Seq(Steps) /\ Len(f) = Len(b) + Len(x) /\ Len(x) \in {0, 1}
      /\ \A k \in 1..Len(b) : f[k] = b[k]
      /\ \A k \in (Len(b) + 1)..(Len(b) + Len(x)) : f[k] = x[k - Len(b)]
      /\ Len(b) \in Nat /\ Len(b) > n
  <2>0. Len(x) \in Nat /\ Len(b) \in Nat
    BY <1>3, LenProperties
  <2>2. Len(b) > n
    BY <1>2, <1>5
  <2>3. Len(x) \in {0, 1}
    BY <2>0, NoneOrOne
  <2> QED BY <1>3, <2>0, <2>2, <2>3, Joined
<1> HIDE DEF f
<1>7. ASSUME NEW k \in 1..Len(f)
      PROVE  \/ k \in 1..(n - 1) /\ k \in 1..Len(b) /\ f[k] = b[k] /\ f[k].do \in Guarded
             \/ k = n /\ k \in 1..Len(b) /\ f[k] = b[k] /\ f[k].do = how /\ f[k].engine = e
             \/ k > n /\ k \in 1..Len(b) /\ f[k] = b[k] /\ f[k].do \in {"funlock", "unlock"}
             \/ k = Len(b) + 1 /\ k > n /\ Len(x) = 1 /\ f[k] = x[1]
  <2>1. CASE k \in 1..Len(b) /\ k < n
    <3>1. k \in 1..(n - 1)
      BY <1>2, <2>1
    <3> QED BY <1>5, <1>6, <2>1, <3>1
  <2>2. CASE k \in 1..Len(b) /\ k = n
    <3>1. f[k] = b[k] /\ b[k] = Step(how, e, s)
      BY <1>5, <1>6, <2>2
    <3>2. f[k].do = how /\ f[k].engine = e
      BY <3>1 DEF Step
    <3> QED BY <2>2, <3>1, <3>2
  <2>3. CASE k \in 1..Len(b) /\ k > n
    BY <1>5, <1>6, <2>3
  <2>4. CASE k = Len(b) + 1
    <3>1. Len(x) = 1 /\ k - Len(b) = 1 /\ k \in (Len(b) + 1)..(Len(b) + Len(x)) /\ k > n
      BY <1>2, <1>5, <1>6, <2>4
    <3>2. f[k] = x[k - Len(b)]
      BY <1>6, <3>1
    <3> QED BY <2>4, <3>1, <3>2
  <2> QED BY <1>2, <1>6, <2>1, <2>2, <2>3, <2>4
<1>8. Len(x) = 1 => /\ x[1].do \in {"applied_anyway", "save_manual", "save_smart"}
                    /\ x[1].do # "applied_anyway" => how = "verify" /\ x[1].engine = e
  BY DEF e
<1>9. ASSUME NEW k \in 1..Len(f)
      PROVE  /\ f[k].do \in HandDos
             /\ Sings(f[k]) => k = 10 /\ e = "singbox"
             /\ Voices(f[k]) => e = "xray" /\ k = 5
             /\ f[k].do = "save_engine" => k = n - 1 /\ f[k].engine = e
             /\ f[k].do \in Verifies => k = n /\ f[k].engine = e /\ f[k].do = how
             /\ f[k].do \in Records => k > n /\ f[k].engine = e
             /\ f[k].do \notin {"keep", "see"}
             /\ f[k].do = "unlock" => k = Len(b)
             /\ f[k].do = "applied_anyway" => k = Len(b) + 1 /\ Len(x) = 1 /\ f[k] = x[1]
  <2>1. CASE k \in 1..(n - 1) /\ k \in 1..Len(b) /\ f[k] = b[k] /\ f[k].do \in Guarded
    <3>1. /\ f[k].do \notin Verifies /\ f[k].do \notin Records /\ f[k].do \in HandDos
          /\ f[k].do \notin {"keep", "see", "unlock", "applied_anyway"}
      BY <2>1, SMT DEF Guarded, HandDos, Hands, Verifies, Records
    <3>2. /\ Sings(f[k]) => k = 10 /\ e = "singbox"
          /\ Voices(f[k]) => e = "xray" /\ k = 5
          /\ f[k].do = "save_engine" => k = n - 1
      BY <1>5, <2>1
    <3>3. f[k].do = "save_engine" => f[k].engine = e
      BY <1>5, <2>1, <3>2 DEF On, Step
    <3> QED BY <3>1, <3>2, <3>3
  <2>2. CASE k = n /\ k \in 1..Len(b) /\ f[k] = b[k] /\ f[k].do = how /\ f[k].engine = e
    <3>1. /\ f[k].do \in Verifies /\ f[k].do \notin Records /\ f[k].do \in HandDos
          /\ f[k].do \notin {"keep", "see", "unlock", "applied_anyway", "save_engine"}
          /\ ~ Sings(f[k]) /\ ~ Voices(f[k])
      BY <1>1, <2>2, SMT DEF HandDos, Hands, Verifies, Records, Sings, Voices
    <3> QED BY <2>2, <3>1
  <2>3. CASE k > n /\ k \in 1..Len(b) /\ f[k] = b[k] /\ f[k].do \in {"funlock", "unlock"}
    <3>1. /\ f[k].do \notin Verifies /\ f[k].do \notin Records /\ f[k].do \in HandDos
          /\ f[k].do \notin {"keep", "see", "applied_anyway", "save_engine"}
          /\ ~ Sings(f[k]) /\ ~ Voices(f[k])
      BY <2>3, SMT DEF HandDos, Hands, Guarded, Verifies, Records, Sings, Voices
    <3>2. f[k].do = "unlock" => k = Len(b)
      BY <1>5, <2>3
    <3> QED BY <3>1, <3>2
  <2>4. CASE k = Len(b) + 1 /\ k > n /\ Len(x) = 1 /\ f[k] = x[1]
    <3>1. /\ f[k].do \notin Verifies /\ f[k].do \in HandDos
          /\ f[k].do \notin {"keep", "see", "unlock", "save_engine"}
          /\ ~ Sings(f[k]) /\ ~ Voices(f[k])
      BY <1>8, <2>4, SMT DEF HandDos, Hands, Verifies, Records, Sings, Voices
    <3>2. f[k].do \in Records => f[k].engine = e
      BY <1>8, <2>4, SMT DEF Records
    <3> QED BY <2>4, <3>1, <3>2
  <2> QED BY <1>7, <2>1, <2>2, <2>3, <2>4
<1>10. Muted(f)
  <2>1. ASSUME NEW k \in 1..Len(f), Sings(f[k])
        PROVE  /\ k = 10 /\ f[6] = Step("write", "xray", "dummy") /\ f[7] = On("stop", "singbox")
               /\ f[8] = On("stop", "xray") /\ f[9] = On("start", "xray")
    <3>1. k = 10 /\ e = "singbox"
      BY <1>9, <2>1
    <3>2. n >= 12 /\ Len(b) >= 12
      BY <1>2, <1>5, <3>1
    <3>3. f[6] = b[6] /\ f[7] = b[7] /\ f[8] = b[8] /\ f[9] = b[9]
      BY <1>6, <3>2
    <3> QED BY <1>5, <3>1, <3>3
  <2> QED BY <2>1 DEF Muted
<1>11. ASSUME NEW k \in 1..Len(f), f[k].do = "verify_or_roll_back", NEW l \in (k + 1)..Len(f)
       PROVE  f[l].do \in {"unlock", "applied_anyway"}
  <2>1. k = n /\ how = "verify_or_roll_back" /\ Len(b) = n + 1
    BY <1>5, <1>9, <1>11 DEF Verifies
  <2>2. l \in 1..Len(f) /\ l > n
    BY <1>2, <2>1
  <2>3. l = Len(b) => f[l].do = "unlock"
    BY <1>5, <1>6, <2>1, <2>2
  <2>4. l # Len(b) => l = Len(b) + 1 /\ Len(x) = 1 /\ f[l] = x[1]
    BY <1>7, <2>1, <2>2
  <2> QED BY <1>8, <2>1, <2>3, <2>4
<1>12. /\ n > 0 /\ n < Len(f) /\ f[2].do = "lock" /\ f[4] = On("stop", Other(e))
       /\ f[n - 1].do = "save_engine"
       /\ Len(b) \in (n + 1)..Len(f) /\ f[Len(b)].do = "unlock"
  <2>1. n > 0 /\ n < Len(b) /\ Len(b) \in (n + 1)..Len(f) /\ n < Len(f) /\ 4 < n
    BY <1>2, <1>6
  <2>2. f[2] = b[2] /\ f[4] = b[4] /\ f[n - 1] = b[n - 1] /\ f[Len(b)] = b[Len(b)]
    <3>1. 2 \in 1..Len(b) /\ 4 \in 1..Len(b) /\ n - 1 \in 1..Len(b) /\ Len(b) \in 1..Len(b)
      BY <1>2, <2>1
    <3> QED BY <1>6, <3>1
  <2>3. b[Len(b)].do = "unlock"
    <3>1. Len(b) \in 1..Len(b)
      BY <1>2, <2>1
    <3> QED BY <1>5, <3>1
  <2> QED BY <1>5, <2>1, <2>2, <2>3 DEF On, Step
<1>13. Turn(f, e, n)
  <2>1. \A k \in 1..Len(f) :
       /\ f[k].do \in HandDos
       /\ Sings(f[k]) => k >= 5 /\ e = "singbox"
       /\ Voices(f[k]) => e = "xray" /\ k = IF n = 0 THEN 1 ELSE 5
       /\ f[k].do = "save_engine" => k = n - 1 /\ f[k].engine = e
       /\ f[k].do \in Verifies => k = n /\ f[k].engine = e
       /\ f[k].do \in Records => k > n /\ f[k].engine = e
       /\ f[k].do = "keep" => k = 1 /\ n = 0
       /\ f[k].do = "verify_or_roll_back" =>
            \A l \in (k + 1)..Len(f) : f[l].do \in {"unlock", "applied_anyway"}
    BY <1>9, <1>11, <1>12, SMTT(30)
  <2>2. \A k, l \in 1..Len(f) : f[k].do = "unlock" /\ f[l].do = "unlock" => k = l
    BY <1>9
  <2> QED BY <1>1, <1>2, <1>6, <1>10, <1>12, <2>1, <2>2 DEF Turn
<1>14. /\ Lacks(f, {"see"}) /\ (how = "verify" => Lacks(f, {"verify_or_roll_back"}))
       /\ (\A i \in 1..Len(x) : x[i].do # "applied_anyway") => Lacks(f, {"applied_anyway"})
  <2>1. Lacks(f, {"see"})
    BY <1>9 DEF Lacks
  <2>2. how = "verify" => Lacks(f, {"verify_or_roll_back"})
    BY <1>9 DEF Lacks, Verifies
  <2>3. (\A i \in 1..Len(x) : x[i].do # "applied_anyway") => Lacks(f, {"applied_anyway"})
    BY <1>9 DEF Lacks
  <2> QED BY <2>1, <2>2, <2>3
<1> QED BY <1>13, <1>14 DEF f, b, e, n

\* What a server is applied by.
LEMMA ApplyTurns ==
  ASSUME NEW s \in Servers, NEW save \in {"save_manual", "save_smart"}
  PROVE  LET e == EngineOf(s)
             a == ApplyEngine(e, s)
             b == ApplyEngine(e, s) \o <<Simply("applied_anyway")>>
             f == SelectServer(s, save) IN
         /\ Turn(a, e, End(e, "verify_or_roll_back")) /\ Lacks(a, {"see"})
         /\ Turn(b, e, End(e, "verify_or_roll_back")) /\ Lacks(b, {"see"})
         /\ Turn(f, e, End(e, "verify"))
         /\ Lacks(f, {"see"}) /\ Lacks(f, {"verify_or_roll_back"}) /\ Lacks(f, {"applied_anyway"})
<1> DEFINE e == EngineOf(s)
           x == <<Step(save, e, s)>>
           y == <<Simply("applied_anyway")>>
<1>1. /\ ApplyEngine(e, s) \in Seq(Steps)
      /\ Play(e, s, "verify_or_roll_back") = ApplyEngine(e, s)
      /\ Play(e, s, "verify") \in Seq(Steps)
      /\ SelectServer(s, save) = Play(e, s, "verify") \o x
  BY PlaysAre
<1>2. /\ Simply("applied_anyway") \in Steps /\ Step(save, e, s) \in Steps
      /\ Simply("applied_anyway").do = "applied_anyway" /\ Step(save, e, s).do = save
  BY PlaysAre
<1>3. /\ x \in Seq(Steps) /\ Len(x) <= 1 /\ \A i \in 1..Len(x) : x[i] = Step(save, e, s)
      /\ y \in Seq(Steps) /\ Len(y) <= 1 /\ \A i \in 1..Len(y) : y[i].do = "applied_anyway"
  BY <1>2
<1>4. Step(save, e, s).engine = e
  BY DEF Step
<1>5. "verify" \in Verifies /\ "verify_or_roll_back" \in Verifies
  BY DEF Verifies
<1> HIDE DEF x, y
<1>6. /\ Turn(Play(e, s, "verify") \o x, e, End(e, "verify"))
      /\ Lacks(Play(e, s, "verify") \o x, {"see"})
      /\ Lacks(Play(e, s, "verify") \o x, {"verify_or_roll_back"})
      /\ Lacks(Play(e, s, "verify") \o x, {"applied_anyway"})
  <2>1. \A i \in 1..Len(x) : /\ x[i].do \in {"applied_anyway", "save_manual", "save_smart"}
                             /\ x[i].do # "applied_anyway" /\ x[i].engine = e
    BY <1>2, <1>3, <1>4
  <2> QED BY <1>1, <1>3, <1>5, <2>1, PlayTurns
<1>7. ASSUME NEW z \in Seq(Steps), Len(z) <= 1,
             \A i \in 1..Len(z) : z[i].do = "applied_anyway"
      PROVE  /\ Turn(ApplyEngine(e, s) \o z, e, End(e, "verify_or_roll_back"))
             /\ Lacks(ApplyEngine(e, s) \o z, {"see"})
  <2>1. Play(e, s, "verify_or_roll_back") \in Seq(Steps)
    BY <1>1
  <2>2. /\ Turn(Play(e, s, "verify_or_roll_back") \o z, e, End(e, "verify_or_roll_back"))
        /\ Lacks(Play(e, s, "verify_or_roll_back") \o z, {"see"})
    BY <1>5, <1>7, <2>1, PlayTurns
  <2> QED BY <1>1, <2>2
<1>8. /\ Turn(ApplyEngine(e, s) \o y, e, End(e, "verify_or_roll_back"))
      /\ Lacks(ApplyEngine(e, s) \o y, {"see"})
  BY <1>3, <1>7
<1>9. /\ Turn(ApplyEngine(e, s), e, End(e, "verify_or_roll_back"))
      /\ Lacks(ApplyEngine(e, s), {"see"})
  <2> DEFINE z == <<>>
  <2>1. /\ z \in Seq(Steps) /\ Len(z) <= 1 /\ \A i \in 1..Len(z) : z[i].do = "applied_anyway"
    OBVIOUS
  <2> HIDE DEF z
  <2>2. /\ Turn(ApplyEngine(e, s) \o z, e, End(e, "verify_or_roll_back"))
        /\ Lacks(ApplyEngine(e, s) \o z, {"see"})
    BY <1>7, <2>1
  <2>3. ApplyEngine(e, s) \o z = ApplyEngine(e, s)
    BY <1>1 DEF z
  <2> QED BY <2>2, <2>3
<1> QED BY <1>1, <1>6, <1>8, <1>9 DEF y

-----------------------------------------------------------------------------
(* The programs. *)

Chooses == {"choose", "reselect", "reselect_if_applied"}
PlanDos == {"stop", "ensure_defaults", "threads", "fetch", "load", "apply_new",
            "apply_current", "save_loaded", "fall_back", "defaults_if_failed", "clean",
            "restart_agent"} \cup Chooses

Boots(i, step) ==
  /\ i = 1 => step = On("stop", "singbox")
  /\ i = 2 => step = On("stop", "xray")
  /\ i = 3 => step.do = "ensure_defaults"
  /\ i = 4 => step.do = "threads"
  /\ i = 5 => step.do = "fetch"
  /\ i = 6 => step.do = "load"
  /\ i = 7 => step.do = "apply_new"
  /\ i = 8 => step.do = "apply_current"
  /\ i = 9 => step.do = "save_loaded"
  /\ i = 10 => step.do = "reselect"
  /\ i = 11 => step.do = "fall_back"
  /\ i = 12 => step.do = "defaults_if_failed"

\* The steps of the boot, by their places.
LEMMA BootingIs ==
  /\ Booting \in Seq(Steps) /\ Len(Booting) = 12
  /\ \A i \in 1..12 : Boots(i, Booting[i]) /\ Booting[i].do \in PlanDos
<1> DEFINE p == Booting
<1>0. p \in Seq(Steps)
  BY BootIsInOrder DEF Booting
<1>1. /\ Len(p) = 12 /\ p[1] = On("stop", "singbox") /\ p[2] = On("stop", "xray")
      /\ p[3] = Simply("ensure_defaults") /\ p[4] = Simply("threads")
      /\ p[5] = Simply("fetch") /\ p[6] = Simply("load") /\ p[7] = Simply("apply_new")
      /\ p[8] = Simply("apply_current") /\ p[9] = Simply("save_loaded")
      /\ p[10] = Simply("reselect") /\ p[11] = Simply("fall_back")
      /\ p[12] = Simply("defaults_if_failed")
  BY SMT DEF Booting, StartAgent, Boot, UpdateSubscription
<1> HIDE DEF p
<1>2. /\ p[1].do = "stop" /\ p[2].do = "stop" /\ p[3].do = "ensure_defaults"
      /\ p[4].do = "threads" /\ p[5].do = "fetch" /\ p[6].do = "load"
      /\ p[7].do = "apply_new" /\ p[8].do = "apply_current" /\ p[9].do = "save_loaded"
      /\ p[10].do = "reselect" /\ p[11].do = "fall_back"
      /\ p[12].do = "defaults_if_failed"
  BY <1>1, SMT DEF On, Simply, Step
<1>3. ASSUME NEW i \in 1..12 PROVE Boots(i, p[i]) /\ p[i].do \in PlanDos
  <2>1. i \in {1, 2, 3, 4, 5, 6, 7, 8, 9, 10, 11, 12}
    OBVIOUS
  <2>2. Boots(i, p[i])
    BY <1>1, <1>2, SMT DEF Boots
  <2>3. p[i].do \in PlanDos
    BY <1>2, <2>1, SMT DEF PlanDos, Chooses
  <2> QED BY <2>2, <2>3
<1> QED BY <1>0, <1>1, <1>3 DEF p

\* The ends of an OTA.
LEMMA DoomIs ==
  ASSUME NEW p \in Doom
  PROVE  /\ p \in Seq(Steps) /\ Len(p) \in {2, 9}
         /\ \A i \in 1..Len(p) :
              /\ p[i].do \in PlanDos \ {"stop", "threads", "fall_back"}
              /\ p[i].do = "restart_agent" <=> i = Len(p)
              /\ p[i].do = "fetch" => i + 5 <= Len(p)
              /\ p[i].do \in Chooses => Rest(p, i + 1) = <<Simply("restart_agent")>>
<1>1. CASE p = Refresh
  <2>0. p \in Seq(Steps)
    BY <1>1, BootIsInOrder
  <2>1. /\ Len(p) = 9 /\ p[1] = Simply("clean")
        /\ p[2] = Simply("fetch") /\ p[3] = Simply("load") /\ p[4] = Simply("apply_new")
        /\ p[5] = Simply("apply_current") /\ p[6] = Simply("save_loaded")
        /\ p[7] = Simply("defaults_if_failed") /\ p[8] = Simply("reselect_if_applied")
        /\ p[9] = Simply("restart_agent")
    BY <1>1, SMT DEF Refresh, UpdateSubscription
  <2>2. /\ p[1].do = "clean" /\ p[2].do = "fetch" /\ p[3].do = "load"
        /\ p[4].do = "apply_new" /\ p[5].do = "apply_current" /\ p[6].do = "save_loaded"
        /\ p[7].do = "defaults_if_failed" /\ p[8].do = "reselect_if_applied"
        /\ p[9].do = "restart_agent"
    BY <2>1, SMT DEF Simply, Step
  <2>3. ASSUME NEW i \in 1..Len(p)
        PROVE  /\ p[i].do \in PlanDos \ {"stop", "threads", "fall_back"}
               /\ p[i].do = "restart_agent" <=> i = 9
               /\ p[i].do = "fetch" => i = 2
               /\ p[i].do \in Chooses => i = 8
    <3>1. i \in {1, 2, 3, 4, 5, 6, 7, 8, 9}
      BY <2>1
    <3>2. p[i].do \in PlanDos \ {"stop", "threads", "fall_back"}
      BY <2>2, <3>1, SMT DEF PlanDos, Chooses
    <3>3. p[i].do = "restart_agent" <=> i = 9
      BY <2>2, <3>1, SMT
    <3>4. p[i].do = "fetch" => i = 2
      BY <2>2, <3>1, SMT
    <3>5. p[i].do \in Chooses => i = 8
      BY <2>2, <3>1, SMT DEF Chooses
    <3> QED BY <3>2, <3>3, <3>4, <3>5
  <2>4. Rest(p, 9) = <<Simply("restart_agent")>>
    <3>1. 9 \in 1..Len(p) /\ Len(p) + 1 = 10
      BY <2>1
    <3>2. Rest(p, 9)[1] = p[9]
      BY <2>0, <3>1, RestIs
    <3>3. Rest(p, 9) \in Seq(Steps) /\ Len(Rest(p, 9)) = 1
      <4>1. 9 \in 1..(Len(p) + 1) /\ Len(p) - 9 + 1 = 1
        BY <2>1
      <4> QED BY <2>0, <4>1, RestEnds
    <3> DEFINE r == Rest(p, 9)
    <3> HIDE DEF r
    <3>4. r \in Seq(Steps) /\ Len(r) = 1 /\ r[1] = p[9]
      BY <3>2, <3>3 DEF r
    <3>5. r = <<p[9]>>
      BY <3>4
    <3> QED BY <2>1, <3>5 DEF r
  <2> QED BY <2>0, <2>1, <2>3, <2>4
<1>2. CASE p = Ending
  <2>1. Len(p) = 2 /\ p[1].do = "ensure_defaults" /\ p[2].do = "restart_agent"
    BY <1>2 DEF Ending, Simply, Step
  <2>2. p \in Seq(Steps)
    <3>1. Simply("ensure_defaults") \in Steps /\ Simply("restart_agent") \in Steps
      BY SMT DEF Simply, Step, Steps, Deeds, Guarded, Decides, Verifies, Late, Engines, Files
    <3> QED BY <1>2, <3>1 DEF Ending
  <2>3. ASSUME NEW i \in 1..Len(p)
        PROVE  /\ p[i].do \in PlanDos \ {"stop", "threads", "fall_back"}
               /\ p[i].do = "restart_agent" <=> i = 2
               /\ p[i].do # "fetch" /\ p[i].do \notin Chooses
    <3>1. i \in {1, 2}
      BY <2>1
    <3> QED BY <2>1, <3>1, SMT DEF PlanDos, Chooses
  <2> QED BY <2>1, <2>2, <2>3
<1> QED BY <1>1, <1>2 DEF Doom

\* An update of the subscription, and a choice.
LEMMA PlansAre ==
  ASSUME NEW p \in Programs, p # Booting, p \notin Doom
  PROVE  /\ p \in Seq(Steps) /\ Len(p) \in {1, 6}
         /\ \A i \in 1..Len(p) :
              /\ p[i].do \in {"fetch", "load", "apply_new", "apply_current", "save_loaded"}
                               \cup Chooses
              /\ p[i].do = "fetch" => i + 5 <= Len(p)
<1>1. CASE p = <<Simply("choose")>>
  <2>1. Simply("choose") \in Steps /\ Simply("choose").do = "choose"
    BY SMT DEF Simply, Step, Steps, Deeds, Guarded, Decides, Verifies, Late, Engines, Files
  <2>2. p \in Seq(Steps) /\ Len(p) = 1 /\ \A i \in 1..Len(p) : p[i].do = "choose"
    BY <1>1, <2>1
  <2> QED BY <2>2 DEF Chooses
<1>2. CASE p = UpdateSubscription \o <<Simply("reselect")>>
  <2>1. /\ Len(p) = 6 /\ p[1] = Simply("fetch") /\ p[2] = Simply("load")
        /\ p[3] = Simply("apply_new") /\ p[4] = Simply("apply_current")
        /\ p[5] = Simply("save_loaded") /\ p[6] = Simply("reselect")
    BY <1>2, SMT DEF UpdateSubscription
  <2>2. p \in Seq(Steps)
    <3>1. Simply("reselect") \in Steps
      BY SMT DEF Simply, Step, Steps, Deeds, Guarded, Decides, Verifies, Late, Engines, Files
    <3> QED BY <1>2, <3>1, UpdateIsSteps
  <2>3. /\ p[1].do = "fetch" /\ p[2].do = "load" /\ p[3].do = "apply_new"
        /\ p[4].do = "apply_current" /\ p[5].do = "save_loaded" /\ p[6].do = "reselect"
    BY <2>1, SMT DEF Simply, Step
  <2>4. ASSUME NEW i \in 1..Len(p)
        PROVE  /\ p[i].do \in {"fetch", "load", "apply_new", "apply_current", "save_loaded"}
                               \cup Chooses
               /\ p[i].do = "fetch" => i = 1
    <3>1. i \in {1, 2, 3, 4, 5, 6}
      BY <2>1
    <3> QED BY <2>3, <3>1, SMT DEF Chooses
  <2> QED BY <2>1, <2>2, <2>4
<1> QED BY <1>1, <1>2 DEF Programs

\* What a step of a program tells of its place.
Place(p, i) ==
  LET do == p[i].do IN
  /\ do = "stop" => \/ i = 1 /\ p[i] = On("stop", "singbox")
                    \/ i = 2 /\ p[i] = On("stop", "xray")
  /\ do = "ensure_defaults" => i = 3
  /\ do = "threads" => i = 4
  /\ do = "fetch" => i = 5
  /\ do = "load" => i = 6
  /\ do = "apply_new" => i = 7
  /\ do = "apply_current" => i = 8
  /\ do = "save_loaded" => i = 9
  /\ do \in Chooses => i = 10
  /\ do = "fall_back" => i = 11
  /\ do = "defaults_if_failed" => i = 12
  /\ do \notin {"clean", "restart_agent"}

LEMMA BootingSteps ==
  ASSUME NEW i \in 1..12
  PROVE  Place(Booting, i)
<1>1. Boots(i, Booting[i])
  BY BootingIs
<1>2. i \in {1, 2, 3, 4, 5, 6, 7, 8, 9, 10, 11, 12}
  OBVIOUS
<1> DEFINE step == Booting[i]
<1>3. i \in {1, 2} => step.do = "stop"
  BY <1>1 DEF Boots, On, Step
<1> HIDE DEF step
<1>4. Boots(i, step)
  BY <1>1 DEF step
<1>5. /\ step.do = "stop" => i \in {1, 2}
      /\ step.do = "ensure_defaults" => i = 3
      /\ step.do = "threads" => i = 4
      /\ step.do = "fetch" => i = 5
      /\ step.do = "load" => i = 6
      /\ step.do = "apply_new" => i = 7
      /\ step.do = "apply_current" => i = 8
      /\ step.do = "save_loaded" => i = 9
      /\ step.do \in Chooses => i = 10
      /\ step.do = "fall_back" => i = 11
      /\ step.do = "defaults_if_failed" => i = 12
      /\ step.do \notin {"clean", "restart_agent"}
  BY <1>2, <1>3, <1>4, SMT DEF Boots, Chooses
<1>6. step.do = "stop" => \/ i = 1 /\ step = On("stop", "singbox")
                          \/ i = 2 /\ step = On("stop", "xray")
  BY <1>4, <1>5 DEF Boots
<1> QED BY <1>5, <1>6 DEF Place, step

\* What a step of a program tells of the program and of its place.
LEMMA ProgramSteps ==
  /\ Booting \notin Doom /\ Booting \in Programs
  /\ \A p \in Programs :
       /\ p \in Seq(Steps) /\ Len(p) \in Nat
       /\ \A i \in 1..Len(p) :
            /\ p[i].do \in PlanDos
            /\ p[i].do = "fetch" => i + 5 <= Len(p)
            /\ p = Booting => Place(p, i)
            /\ p \in Doom => /\ p[i].do = "restart_agent" <=> i = Len(p)
                             /\ p[i].do \in Chooses =>
                                  Rest(p, i + 1) = <<Simply("restart_agent")>>
            /\ p \notin Doom \cup {Booting} =>
                 p[i].do \notin {"stop", "ensure_defaults", "threads", "fall_back",
                                "defaults_if_failed", "clean", "restart_agent"}
<1>1. Booting \notin Doom
  <2>1. ASSUME Booting \in Doom PROVE FALSE
    <3>1. Len(Booting) = 12 /\ Len(Booting) \in {2, 9}
      BY <2>1, BootingIs, DoomIs
    <3> QED BY <3>1
  <2> QED BY <2>1
<1>2. ASSUME NEW p \in Programs, NEW i \in 1..Len(p)
      PROVE  /\ p[i].do \in PlanDos
             /\ p[i].do = "fetch" => i + 5 <= Len(p)
             /\ p = Booting => Place(p, i)
             /\ p \in Doom => /\ p[i].do = "restart_agent" <=> i = Len(p)
                              /\ p[i].do \in Chooses =>
                                   Rest(p, i + 1) = <<Simply("restart_agent")>>
             /\ p \notin Doom \cup {Booting} =>
                  p[i].do \notin {"stop", "ensure_defaults", "threads", "fall_back",
                                 "defaults_if_failed", "clean", "restart_agent"}
  <2>1. CASE p = Booting
    <3>1. i \in 1..12 /\ Len(p) = 12
      BY <2>1, BootingIs
    <3>2. Place(p, i) /\ p[i].do \in PlanDos
      BY <2>1, <3>1, BootingIs, BootingSteps
    <3>3. p[i].do = "fetch" => i + 5 <= Len(p)
      BY <3>1, <3>2 DEF Place
    <3> QED BY <1>1, <2>1, <3>2, <3>3
  <2>2. CASE p \in Doom
    <3>1. p # Booting
      BY <1>1, <2>2
    <3> QED BY <2>2, <3>1, DoomIs
  <2>3. CASE p \notin Doom \cup {Booting}
    <3>1. /\ p[i].do \in {"fetch", "load", "apply_new", "apply_current", "save_loaded"}
                            \cup Chooses
          /\ p[i].do = "fetch" => i + 5 <= Len(p)
      BY <2>3, PlansAre
    <3>2. /\ p[i].do \in PlanDos
          /\ p[i].do \notin {"stop", "ensure_defaults", "threads", "fall_back",
                             "defaults_if_failed", "clean", "restart_agent"}
      BY <3>1, SMT DEF PlanDos, Chooses
    <3> QED BY <2>3, <3>1, <3>2
  <2> QED BY <2>1, <2>2, <2>3
<1>3. ASSUME NEW p \in Programs PROVE p \in Seq(Steps) /\ Len(p) \in Nat
  BY BootingIs, DoomIs, PlansAre, LenProperties
<1>4. Booting \in Programs
  BY DEF Programs
<1> QED BY <1>1, <1>2, <1>3, <1>4

-----------------------------------------------------------------------------
(* The worker's hands. *)

\* What the list of the worker begins with.
LEMMA Reading ==
  ASSUME Typed, NEW f, NEW j, NEW p, NEW i, NEW e, NEW n, Standing(f, j, p, i, e, n)
  PROVE  LET q == todo["worker"] IN
         /\ f \in Seq(Steps) /\ p \in Seq(Steps) /\ Len(f) \in Nat /\ Len(p) \in Nat
         /\ j \in Nat \ {0} /\ i \in Nat \ {0} /\ q \in Seq(Steps)
         /\ j <= Len(f) => /\ q # <<>> /\ q[1] = f[j] /\ j \in 1..Len(f)
                           /\ Tail(q) = Stack(f, j + 1, p, i)
                           /\ f[j] \in Steps /\ f[j].do \in HandDos
         /\ j > Len(f) /\ i <= Len(p) =>
              /\ j = Len(f) + 1 /\ i \in 1..Len(p)
              /\ q # <<>> /\ q[1] = p[i] /\ q = Rest(p, i) /\ Tail(q) = Rest(p, i + 1)
              /\ p[i] \in Steps /\ p[i].do \in PlanDos
         /\ j > Len(f) /\ i > Len(p) => q = <<>>
<1>1. /\ f \in Seq(Steps) /\ p \in Seq(Steps) /\ Len(f) \in Nat /\ Len(p) \in Nat
      /\ j \in 1..(Len(f) + 1) /\ i \in 1..(Len(p) + 1)
      /\ todo["worker"] = Stack(f, j, p, i)
      /\ \A k \in 1..Len(f) : f[k].do \in HandDos
      /\ \A k \in 1..Len(p) : p[k].do \in PlanDos
  BY ProgramSteps DEF Standing, Turn
<1>0. PICK q : q = todo["worker"] /\ q = Stack(f, j, p, i)
  BY <1>1
<1>2. /\ q \in Seq(Steps)
      /\ j <= Len(f) => q # <<>> /\ q[1] = f[j] /\ Tail(q) = Stack(f, j + 1, p, i)
      /\ j > Len(f) => q = Rest(p, i)
      /\ j > Len(f) /\ i > Len(p) => q = <<>>
  <2>1. f \in Seq(Steps) /\ p \in Seq(Steps)
    BY <1>1
  <2>2. j \in 1..(Len(f) + 1) /\ i \in 1..(Len(p) + 1)
    BY <1>1
  <2> QED BY <1>0, <2>1, <2>2, Stacked, SMTT(30)
<1>3. ASSUME j <= Len(f) PROVE j \in 1..Len(f) /\ f[j] \in Steps /\ f[j].do \in HandDos
  <2>1. j \in 1..Len(f)
    BY <1>1, <1>3
  <2> QED BY <1>1, <2>1
<1>4. ASSUME j > Len(f) PROVE j = Len(f) + 1
  BY <1>1, <1>4
<1>5. ASSUME i <= Len(p) PROVE i \in 1..Len(p) /\ p[i] \in Steps /\ p[i].do \in PlanDos
  <2>1. i \in 1..Len(p)
    BY <1>1, <1>5
  <2> QED BY <1>1, <2>1
<1>6. j \in Nat \ {0} /\ i \in Nat \ {0}
  BY <1>1
<1>7. ASSUME j > Len(f), i <= Len(p)
      PROVE  q # <<>> /\ q[1] = p[i] /\ Tail(q) = Rest(p, i + 1)
  <2>1. p \in Seq(Steps) /\ q = Rest(p, i)
    BY <1>1, <1>2, <1>7
  <2>2. i \in 1..Len(p)
    BY <1>5, <1>7
  <2> QED BY <2>1, <2>2, RestIs
<1> QED BY <1>0, <1>1, <1>2, <1>3, <1>4, <1>5, <1>6, <1>7

\* What the step of a hand may change besides containers and configurations.
Handles(a) ==
  /\ Works(a) /\ UNCHANGED loaded
  /\ a.do = "lock" => lock' = "worker"
  /\ a.do \notin {"lock", "unlock"} => UNCHANGED lock
  /\ a.do \notin {"verify_or_roll_back", "applied_anyway", "see"} => UNCHANGED applied
  /\ a.do = "save_engine" => state'.engine = a.engine
  /\ a.do \in Records => state'.engine \in {state.engine, a.engine}
  /\ a.do \notin Records \cup {"save_engine"} => state'.engine = state.engine

\* The next step of a branch is done.
LEMMA LiveHands ==
  ASSUME Typed, Held, NEW f, NEW j, NEW p, NEW i, NEW e, NEW n, Standing(f, j, p, i, e, n),
         p \notin Doom, j <= Len(f), Handles(f[j]), todo'["health"] = todo["health"]
  PROVE  Live(f, j + 1, p, i, e, n)'
<1> DEFINE a == f[j]
           h == todo["health"]
<1>1. /\ f \in Seq(Steps) /\ Len(f) \in Nat /\ j \in 1..Len(f) /\ a \in Steps
      /\ n \in {0, 8, 9, 12, 13} /\ i \in Nat /\ e \in {"xray", "singbox"}
      /\ h \in Seq(Steps) /\ Len(h) \in Nat
  BY Reading DEF Standing, Turn, Engines, Typed, Listed, Threads
<1>2. Live(f, j, p, i, e, n) /\ Turn(f, e, n)
  BY DEF Standing
<1>3. /\ Sings(a) => j >= 5 /\ e = "singbox"
      /\ Voices(a) => e = "xray" /\ j = IF n = 0 THEN 1 ELSE 5
      /\ a.do = "save_engine" => j = n - 1 /\ a.engine = e
      /\ a.do \in Verifies => j = n
      /\ a.do \in Records => j > n /\ a.engine = e
      /\ a.do = "keep" => j = 1 /\ n = 0
  BY <1>1, <1>2 DEF Turn
<1>4. /\ n > 0 /\ j = 2 => a.do = "lock"
      /\ n > 0 /\ j = 4 => a = On("stop", Other(e))
      /\ n > 0 /\ j = n - 1 => a.do = "save_engine"
  BY <1>2 DEF Turn
<1>16. Asked(f, p, i) => n = 0 /\ ~ Voices(a) /\ i > Len(p)
  <2>1. ASSUME Asked(f, p, i), n > 0 PROVE FALSE
    <3>1. f[2].do \in DockDos
      <4>1. 2 \in 1..Len(f)
        BY <1>1, <1>2, <2>1 DEF Turn
      <4> QED BY <2>1, <4>1, AskedTurns DEF Asked
    <3> QED BY <1>2, <2>1, <3>1 DEF Turn, DockDos
  <2>2. ASSUME Asked(f, p, i) PROVE ~ Voices(a) /\ i > Len(p)
    BY <1>1, <2>2, AskedTurns DEF Asked
  <2> QED BY <1>1, <2>1, <2>2
\* In a play that has begun the lock is held, and the watchdog is idle.
<1>5. n > 0 /\ j \in 3..n => lock = "worker" /\ h = <<>>
  <2>1. ASSUME n > 0, j \in 3..n PROVE lock = "worker"
    <3>1. PICK u \in (n + 1)..Len(f) : f[u].do = "unlock"
      BY <1>2, <2>1 DEF Turn
    <3>2. u \in j..Len(f) /\ j >= 3
      BY <1>1, <2>1
    <3> QED BY <1>2, <3>1, <3>2 DEF Live
  <2> QED BY <2>1 DEF Held
<1>6. h = <<>> => ~ HealthSings
  BY DEF HealthSings
<1>7. Voices(a) => Off /\ ~ HealthSings
  <2>1. ASSUME Voices(a), n = 0 PROVE Off /\ ~ HealthSings
    <3>1. Calm(f, j, p, i, n) /\ j >= n /\ e = "xray"
      BY <1>1, <1>3, <2>1 DEF Calm
    <3> QED BY <1>2, <1>16, <2>1, <3>1 DEF Live, Agree
  <2>2. ASSUME Voices(a), n > 0 PROVE Off /\ ~ HealthSings
    <3>1. j = 5 /\ e = "xray" /\ j \in 5..n /\ j \in 3..n
      BY <1>1, <1>3, <2>2
    <3> QED BY <1>2, <1>5, <1>6, <2>2, <3>1 DEF Live
  <2> QED BY <1>1, <2>1, <2>2
<1>8. Ready(f, j + 1)'
  BY <1>1, <1>2, ReadyOnwards DEF Turn, Live, Handles
<1>9. Ready(todo["health"], 1)'
  <2>1. CASE Voices(a)
    <3>1. \A m \in 1..Len(h) : ~ Sings(h[m])
      BY <1>7, <2>1 DEF HealthSings
    <3> QED BY <3>1 DEF Ready
  <2>2. CASE ~ Voices(a)
    <3>1. Ready(h, 1)'
      BY <1>1, <1>2, <2>2, ReadyAside DEF Live, Handles
    <3> QED BY <3>1 DEF Ready
  <2> QED BY <2>1, <2>2
<1>10. e = "xray" /\ n > 0 /\ j + 1 \in 5..n => Off'
  <2>1. ASSUME e = "xray", n > 0, j = 4 PROVE Off'
    <3>1. a = On("stop", "singbox")
      BY <1>4, <2>1 DEF Other
    <3> QED BY <1>1, <3>1, Worked DEF Handles
  <2>2. ASSUME e = "xray", n > 0, j \in 5..n PROVE Off'
    <3>1. Off /\ ~ Sings(a)
      BY <1>2, <1>3, <2>2 DEF Live
    <3> QED BY <1>1, <3>1, Worked DEF Handles
  <2> QED BY <1>1, <2>1, <2>2
<1>11. ASSUME NEW u \in (j + 1)..Len(f), f[u].do = "unlock", n > 0 => j + 1 >= 3
       PROVE  lock' = "worker"
  <2>1. CASE a.do = "lock"
    BY <2>1 DEF Handles
  <2>2. CASE a.do # "lock"
    <3>1. n > 0 => j >= 3
      BY <1>1, <1>4, <1>11, <2>2
    <3>2. u \in j..Len(f) /\ u \in 1..Len(f) /\ u # j
      BY <1>1
    <3>3. lock = "worker"
      BY <1>2, <1>11, <3>1, <3>2 DEF Live
    <3>4. a.do # "unlock"
      BY <1>1, <1>2, <1>11, <3>2 DEF Turn
    <3> QED BY <2>2, <3>3, <3>4 DEF Handles
  <2> QED BY <2>1, <2>2
<1>12. ~ Asked(f, p, i) => /\ j + 1 >= n => state'.engine = e
                           /\ j >= n => state'.engine = state.engine
  <2>1. ASSUME j >= n, ~ Asked(f, p, i) PROVE state'.engine = e /\ state.engine = e
    <3>1. state.engine = e
      BY <1>2, <2>1 DEF Live
    <3>2. a.do # "save_engine"
      BY <1>1, <1>3, <2>1
    <3>3. a.do \in Records => state'.engine = e
      BY <1>3, <3>1 DEF Handles
    <3> QED BY <3>1, <3>2, <3>3 DEF Handles
  <2>2. ASSUME j + 1 = n PROVE state'.engine = e
    <3>1. n > 0 /\ j = n - 1
      BY <1>1, <2>2
    <3> QED BY <1>3, <1>4, <3>1 DEF Handles
  <2> QED BY <1>1, <2>1, <2>2
<1>13. ASSUME Calm(f, j + 1, p, i, n)' PROVE Agree'
  <2>1. CASE j + 1 = n
    <3>1. n > 0 /\ j + 1 \in 5..n /\ j \in 3..n
      BY <1>1, <2>1
    <3>2. state'.engine = e /\ (e = "xray" => Off')
      BY <1>10, <1>12, <1>16, <2>1, <3>1
    <3>3. ~ HealthSings'
      BY <1>5, <1>6, <3>1 DEF HealthSings
    <3> QED BY <3>2, <3>3 DEF Agree
  <2>2. CASE j + 1 # n
    <3>1. /\ p = Booting /\ i \in 2..11 /\ j + 1 >= n
          /\ ~ (applied'["worker"] /\ i >= 10)
      BY <1>1, <1>13, <2>2 DEF Calm
    <3>2. j >= n
      BY <1>1, <2>2, <3>1
    <3>3. ~ (applied["worker"] /\ i >= 10)
      <4>1. a.do = "see" => i = 12
        BY <1>1, <1>2, <3>1 DEF Live, InBoot
      <4>2. a.do \in {"verify_or_roll_back", "applied_anyway"} => i <= 9
        BY <1>1, <1>2, <3>1 DEF Live, InBoot
      <4> QED BY <3>1, <4>1, <4>2 DEF Handles
    <3>0. ~ Asked(f, p, i)
      <4>1. Len(p) = 12 /\ ~ (i > 12)
        BY <3>1, BootingIs
      <4> QED BY <1>16, <4>1
    <3>4. Agree /\ state.engine = e
      BY <1>2, <3>0, <3>1, <3>2, <3>3 DEF Live, Calm
    <3>5. state'.engine = state.engine
      BY <1>12, <3>0, <3>2
    <3>6. state.engine = "xray" => Off'
      <4>1. state.engine = "xray" => Off /\ ~ Sings(a)
        BY <1>3, <3>4 DEF Agree
      <4> QED BY <1>1, <4>1, Worked DEF Handles
    <3> QED BY <3>4, <3>5, <3>6 DEF Agree, HealthSings
  <2> QED BY <2>1, <2>2
<1>14. ~ (p = Booting /\ i = 1) => Safe'
  <2>1. ASSUME Safe PROVE Safe'
    <3>1. Sings(a) => Silent /\ ~ Voices(a)
      <4>1. ASSUME Sings(a) PROVE Silent
        <5>1. j \in j..Len(f) /\ j - j = 0
          BY <1>1
        <5> QED BY <1>2, <4>1, <5>1 DEF Live, Ready, Silent
      <4>2. ~ (Sings(a) /\ Voices(a))
        BY <1>3
      <4> QED BY <4>1, <4>2
    <3> QED BY <1>1, <1>7, <2>1, <3>1, Worked DEF Safe, Handles
  <2> QED BY <1>2, <2>1 DEF Live
<1>15. p = Booting => InBoot(f, i, e)'
  <2>1. ASSUME p = Booting PROVE InBoot(f, i, e)'
    <3>1. InBoot(f, i, e) /\ f # <<>>
      BY <1>1, <1>2, <2>1 DEF Live
    <3> QED BY <3>1 DEF InBoot, Handles
  <2> QED BY <2>1
<1> QED BY <1>8, <1>9, <1>10, <1>11, <1>12, <1>13, <1>14, <1>15, <1>16 DEF Live

\* A step of a hand is done.
LEMMA Passed ==
  ASSUME Typed, NEW t \in Threads, todo[t] # <<>>, Done(t)
  PROVE  todo' = [todo EXCEPT ![t] = Tail(todo[t])]
<1>1. todo[t] \in Seq(Steps) /\ Tail(todo[t]) \in Seq(Steps)
  BY Heads
<1>2. <<>> \o Tail(todo[t]) = Tail(todo[t])
  BY <1>1
<1> QED BY <1>2 DEF Done, Then

\* Every step of a branch but the decision to roll back is of this kind.
LEMMA MovesHandle ==
  ASSUME Typed, HandMoves("worker") \/ AppliedAnyway("worker") \/ KeepServer("worker"),
         ~ lost', NEW a, a = todo["worker"][1]
  PROVE  Handles(a) /\ todo["worker"] # <<>> /\ Done("worker")
<1>1. /\ "worker" \notin Outsiders /\ state \in States /\ loaded["worker"] \in States
      /\ a = Now("worker") /\ \A do : Does("worker", do) => a.do = do
  BY BoundsAssumption DEF Typed, TypeOK, Threads, Now, Does
<1>2. CASE LockEngine("worker")
  <2>1. a.do = "lock" /\ UNCHANGED <<box, disk, loaded, applied, state>> /\ lock' = "worker"
    BY <1>1, <1>2 DEF LockEngine, files, others, local, update
  <2> QED BY <1>2, <2>1 DEF LockEngine, Does, Handles, Works, DockDos, Records
<1>3. CASE UnlockEngine("worker")
  <2>1. a.do = "unlock" /\ UNCHANGED <<box, disk, loaded, applied, state>>
    BY <1>1, <1>3 DEF UnlockEngine, files, others, local, update
  <2> QED BY <1>3, <2>1 DEF UnlockEngine, Does, Handles, Works, DockDos, Records
<1>4. CASE LockFile("worker") \/ UnlockFile("worker") \/ SaveRollback("worker")
             \/ Verify("worker")
  <2>1. /\ a.do \in {"flock", "funlock", "save_rollback", "verify"}
        /\ UNCHANGED <<box, disk, loaded, applied, state, lock>>
    BY <1>1, <1>4 DEF LockFile, UnlockFile, SaveRollback, Verify, files, others, locks, local, update
  <2>2. todo["worker"] # <<>> /\ Done("worker")
    BY <1>4 DEF LockFile, UnlockFile, SaveRollback, Verify, Does
  <2> QED BY <2>1, <2>2 DEF Handles, Works, DockDos, Records
<1>5. CASE StopContainer("worker")
  <2>1. /\ a.do = "stop" /\ UNCHANGED <<disk, loaded, applied, state, lock>>
        /\ box' = Down(a.engine, "stopped")
    BY <1>1, <1>5 DEF StopContainer, files, others, locks, local, update
  <2> QED BY <1>5, <2>1 DEF StopContainer, Does, Handles, Works, DockDos, Records
<1>6. CASE RunContainer("worker")
  <2>1. /\ a.do \in {"start", "start_once", "restart"} /\ UNCHANGED <<disk, loaded, applied, state, lock>>
        /\ box' \in {box, Up(a.engine), Down(a.engine, "crashed")}
    BY <1>1, <1>6 DEF RunContainer, files, others, locks, local, update
  <2> QED BY <1>6, <2>1 DEF RunContainer, Does, Handles, Works, DockDos, Records
<1>7. CASE WriteConfig("worker")
  <2>1. /\ a.do = "write" /\ UNCHANGED <<box, loaded, applied, state, lock>>
        /\ disk' = [disk EXCEPT ![a.engine] = a.config]
    BY <1>1, <1>7 DEF WriteConfig, locks, local, update
  <2> QED BY <1>7, <2>1 DEF WriteConfig, Does, Handles, Works, DockDos, Records
<1>8. CASE SaveEngine("worker")
  <2>1. a.do = "save_engine" /\ UNCHANGED <<box, disk, loaded, applied, lock>>
    BY <1>1, <1>8 DEF SaveEngine, others, locks, update
  <2>2. state'.engine = a.engine
    <3>1. /\ seen["worker"] = state
          /\ state' = [seen["worker"] EXCEPT !.engine = Now("worker").engine]
      BY <1>8 DEF SaveEngine, Save
    <3>2. state.engine \in Engines /\ state' = [state EXCEPT !.engine = a.engine]
      BY <1>1, <3>1 DEF States
    <3> QED BY <1>1, <3>2 DEF States
  <2> QED BY <1>8, <2>1, <2>2 DEF SaveEngine, Does, Handles, Works, DockDos, Records
<1>9. CASE SaveServer("worker")
  <2>1. a.do \in {"save_manual", "save_smart"} /\ UNCHANGED <<box, disk, loaded, applied, lock>>
    BY <1>1, <1>9 DEF SaveServer, others, locks, local, update
  <2>2. state'.engine = a.engine
    <3>1. \E s, m : state' = [engine |-> Now("worker").engine, server |-> s, mode |-> m]
      BY <1>9, Zenon DEF SaveServer, Save
    <3> QED BY <1>1, <3>1
  <2> QED BY <1>9, <2>1, <2>2 DEF SaveServer, Does, Handles, Works, DockDos, Records
<1>10. CASE SeeFallBack("worker")
  <2>1. a.do = "see" /\ UNCHANGED <<box, disk, loaded, lock>>
    BY <1>1, <1>10 DEF SeeFallBack, others, locks
  <2>2. state'.engine \in {state.engine, a.engine}
    BY <1>1, <1>10 DEF SeeFallBack, Save, View, States
  <2> QED BY <1>10, <2>1, <2>2 DEF SeeFallBack, Does, Handles, Works, DockDos, Records
<1>11. CASE AppliedAnyway("worker")
  <2>1. a.do = "applied_anyway" /\ UNCHANGED <<box, disk, loaded, state, lock>>
    BY <1>1, <1>11 DEF AppliedAnyway, files, others, locks
  <2> QED BY <1>11, <2>1 DEF AppliedAnyway, Does, Handles, Works, DockDos, Records
<1>12. CASE KeepServer("worker")
  <2>1. a.do = "keep" /\ UNCHANGED <<box, disk, loaded, applied, lock>>
    BY <1>1, <1>12 DEF KeepServer, others, locks, update
  <2>2. state'.engine = state.engine
    BY <1>1, <1>12 DEF KeepServer, Save, States
  <2> QED BY <1>12, <2>1, <2>2 DEF KeepServer, Does, Handles, Works, DockDos, Records
<1> QED
  BY <1>2, <1>3, <1>4, <1>5, <1>6, <1>7, <1>8, <1>9, <1>10, <1>11, <1>12 DEF HandMoves

LEMMA StandsHands ==
  ASSUME Typed, Held, Cured, NEW f, NEW j, NEW p, NEW i, NEW e, NEW n,
         Standing(f, j, p, i, e, n), j <= Len(f), Handles(f[j]),
         todo["worker"] # <<>>, Done("worker")
  PROVE  Stands'
<1>1. /\ Tail(todo["worker"]) = Stack(f, j + 1, p, i) /\ j \in 1..Len(f) /\ Len(f) \in Nat
  BY Reading
<1>2. /\ todo'["worker"] = Stack(f, j + 1, p, i) /\ todo'["health"] = todo["health"]
  BY <1>1, Passed DEF Typed, Listed, Threads
<1>3. p \notin Doom => Live(f, j + 1, p, i, e, n)'
  BY <1>2, LiveHands, Reading
<1>4. j + 1 \in 1..(Len(f) + 1)
  BY <1>1
<1>5. Standing(f, j + 1, p, i, e, n)'
  BY <1>2, <1>3, <1>4 DEF Standing
<1>6. Cured'
  BY <1>2 DEF Cured
<1> QED BY <1>5, <1>6 DEF Stands

-----------------------------------------------------------------------------
(* A new branch. *)

\* It comes before what is left.
LEMMA Restacked ==
  ASSUME NEW g \in Seq(Steps), NEW p, NEW i
  PROVE  Stack(g, 1, p, i) = g \o Rest(p, i)
<1>1. Rest(g, 1) = g
  BY RestEnds
<1> QED BY <1>1 DEF Stack

\* What it takes to begin it.
LEMMA Anew ==
  ASSUME NEW f, NEW p, NEW i, NEW e, NEW n, Turn(f, e, n),
         Ready(todo["health"], 1)',
         n = 0 => state'.engine = e \/ Asked(f, p, i),
         n = 0 => \A u \in 1..Len(f) : f[u].do = "unlock" => lock' = "worker",
         Calm(f, 1, p, i, n)' => Agree',
         ~ (p = Booting /\ i = 1) => Safe',
         p = Booting => InBoot(f, i, e)'
  PROVE  Live(f, 1, p, i, e, n)'
<1>1. n \in {0, 8, 9, 12, 13}
  BY DEF Turn
<1>2. Ready(f, 1)'
  <2>1. ASSUME NEW m \in 1..Len(f), Sings(f[m]) PROVE ~ (m - 1 <= 3)
    <3>1. m >= 5
      BY <2>1 DEF Turn
    <3> QED BY <3>1
  <2>2. \A m \in 1..Len(f) : Sings(f[m]) =>
          /\ m - 1 <= 3 => disk'["xray"] = "dummy"
          /\ m - 1 <= 1 => ~ Listens("xray")'
    <3>1. ASSUME NEW m \in 1..Len(f), Sings(f[m]) PROVE ~ (m - 1 <= 3) /\ ~ (m - 1 <= 1)
      <4>1. f \in Seq(Steps) /\ m \in Nat
        BY DEF Turn
      <4> QED BY <2>1, <3>1, <4>1
    <3> QED BY <3>1
  <2> QED BY <2>2 DEF Ready
<1>3. ~ (n > 0 /\ 1 \in 5..n)
  BY <1>1
<1>4. \A u \in 1..Len(f) : f[u].do = "unlock" /\ (n > 0 => 1 >= 3) => lock' = "worker"
  BY <1>1
<1>5. 1 >= n => state'.engine = e \/ Asked(f, p, i)
  BY <1>1
<1> QED BY <1>2, <1>3, <1>4, <1>5 DEF Live

\* What follows a verification that may roll back.
LEMMA RestAfters ==
  ASSUME NEW f, NEW e, NEW n, Turn(f, e, n), NEW j \in 1..Len(f),
         f[j].do = "verify_or_roll_back"
  PROVE  /\ Afters(Rest(f, j + 1), e) /\ j = n /\ n > 0 /\ f[j].engine = e
         /\ \A k \in 1..Len(Rest(f, j + 1)) :
              Rest(f, j + 1)[k].do \in {"unlock", "applied_anyway"}
<1>1. f \in Seq(Steps) /\ Len(f) \in Nat /\ j \in Nat
  BY DEF Turn
<1> DEFINE x == Rest(f, j + 1)
<1>2. x \in Seq(Steps) /\ Len(x) = Len(f) - j
  <2>1. j + 1 \in 1..(Len(f) + 1)
    BY <1>1
  <2>2. x \in Seq(Steps) /\ Len(x) = Len(f) - (j + 1) + 1
    BY <1>1, <2>1, RestEnds
  <2> QED BY <1>1, <2>2
<1>3. \A k \in 1..Len(x) : x[k] = f[j + k]
  <2>1. ASSUME NEW k \in 1..Len(x) PROVE x[k] = f[j + k]
    <3>1. j + 1 \in 1..Len(f) /\ j + k \in (j + 1)..Len(f) /\ (j + k) - (j + 1) + 1 = k
      BY <1>1, <1>2
    <3>2. Rest(f, j + 1)[(j + k) - (j + 1) + 1] = f[j + k]
      BY <1>1, <3>1, RestAt
    <3> QED BY <3>1, <3>2
  <2> QED BY <2>1
<1> HIDE DEF x
<1>4. \A k \in 1..Len(x) : j + k \in (j + 1)..Len(f) /\ j + k \in 1..Len(f)
  BY <1>1, <1>2
<1>5. \A k \in 1..Len(x) : x[k].do \in {"unlock", "applied_anyway"}
  <2>1. \A l \in (j + 1)..Len(f) : f[l].do \in {"unlock", "applied_anyway"}
    BY DEF Turn
  <2> QED BY <1>3, <1>4, <2>1
<1>6. ASSUME NEW k \in 1..Len(x), NEW l \in 1..Len(x), x[k].do = "unlock", x[l].do = "unlock"
      PROVE  k = l
  <2>1. f[j + k].do = "unlock" /\ f[j + l].do = "unlock"
    BY <1>3, <1>6
  <2>2. j + k = j + l
    BY <1>4, <2>1 DEF Turn
  <2> QED BY <1>1, <2>2
<1>7. Afters(x, e)
  BY <1>2, <1>5, <1>6 DEF Afters
<1>8. j = n /\ f[j].engine = e
  BY DEF Turn, Verifies
<1> QED BY <1>1, <1>5, <1>7, <1>8 DEF x

\* The worker rolls back, or does not.
LEMMA StandsRollBack ==
  ASSUME Typed, Held, Cured, NEW f, NEW j, NEW p, NEW i, NEW e, NEW n,
         Standing(f, j, p, i, e, n), j <= Len(f), VerifyOrRollBack("worker"), ~ lost'
  PROVE  Stands'
<1> DEFINE a == f[j]
           q == todo["worker"]
           x == Rest(f, j + 1)
<1>1. /\ f \in Seq(Steps) /\ p \in Seq(Steps) /\ Len(f) \in Nat
      /\ q # <<>> /\ q[1] = a /\ j \in 1..Len(f) /\ Tail(q) = Stack(f, j + 1, p, i)
      /\ i \in 1..(Len(p) + 1) /\ p \in Programs /\ Turn(f, e, n)
      /\ p \in Doom => i <= Len(p)
      /\ p \notin Doom => Live(f, j, p, i, e, n)
  BY Reading DEF Standing
<1>2. a.do = "verify_or_roll_back"
  BY <1>1 DEF VerifyOrRollBack, Does
<1>3. /\ Afters(x, e) /\ j = n /\ n > 0 /\ a.engine = e /\ e \in Engines
      /\ \A k \in 1..Len(x) : x[k].do \in {"unlock", "applied_anyway"}
  <2>1. Turn(f, e, n) /\ j \in 1..Len(f) /\ f[j].do = "verify_or_roll_back"
    BY <1>1, <1>2
  <2>2. e \in Engines
    BY <2>1 DEF Turn
  <2> QED BY <2>1, <2>2, RestAfters
<1>4. PICK c \in Files : c = rollback[e]
  BY <1>3 DEF Typed, TypeOK
<1> DEFINE d == DockerRestart(e)
           g == <<Step("write", e, c)>> \o d
           b == g \o x
<1>5. UNCHANGED <<state, disk, box, lock, loaded>> /\ Now("worker").engine = e
  BY <1>1, <1>3 DEF VerifyOrRollBack, locks, Now
<1>8. Then("worker", IF Healthy(state) \/ c = "none" THEN <<>>
                     ELSE <<Step("write", e, c)>> \o DockerRestart(e))
  <2>1. PICK found :
          /\ View(found)
          /\ Then("worker", IF Healthy(found) \/ c = "none" THEN <<>>
                            ELSE <<Step("write", e, c)>> \o DockerRestart(e))
    BY <1>4, <1>5, Zenon DEF VerifyOrRollBack
  <2>2. found = state
    BY <2>1 DEF View
  <2> QED BY <2>1, <2>2
<1>6. CASE Healthy(state) \/ c = "none"
  <2>1. Done("worker")
    BY <1>6, <1>8, Zenon DEF Done
  <2>2. Handles(f[j])
    BY <1>2, <1>5 DEF Handles, Works, DockDos, Records
  <2> QED BY <1>1, <2>1, <2>2, StandsHands
<1>7. CASE ~ Healthy(state) /\ c # "none"
  <2>1. todo' = [todo EXCEPT !["worker"] = g \o Tail(q)]
    BY <1>7, <1>8, Zenon DEF Then
  <2>2. /\ g \in Seq(Docks) /\ g \in Seq(Steps) /\ x \in Seq(Steps)
        /\ \A k \in 1..Len(g) : g[k].do \in DockDos
    <3>1. g \in Seq(Docks)
      BY <1>3, RestartDocks
    <3>2. \A k \in 1..Len(g) : g[k] \in Docks
      BY <3>1
    <3> QED BY <1>3, <3>1, <3>2, RestartDocks DEF Docks, DockDos, Afters
  <2>3. g \o Tail(q) = Stack(b, 1, p, i) /\ b \in Seq(Steps)
    <3>1. Tail(q) = x \o Rest(p, i)
      BY <1>1 DEF Stack
    <3> HIDE DEF g, x
    <3> DEFINE r == Rest(p, i)
    <3>2. r \in Seq(Steps)
      BY <1>1, RestEnds
    <3>3. b \in Seq(Steps)
      BY <2>2
    <3>5. Tail(q) = x \o r
      BY <3>1
    <3> HIDE DEF r
    <3>6. (g \o x) \o r = g \o (x \o r)
      BY <2>2, <3>2, ConcatAssociative
    <3>7. g \o Tail(q) = b \o r
      BY <3>5, <3>6
    <3>8. Stack(b, 1, p, i) = b \o r
      BY <3>3, Restacked DEF r
    <3> QED BY <3>3, <3>7, <3>8
  <2>4. Turn(b, e, 0)
    BY <1>3, WrittenTurns, DockedIs
  <2>5. ASSUME NEW k \in 1..Len(b)
        PROVE  b[k].do \in DockDos \cup {"unlock", "applied_anyway"}
    <3> HIDE DEF g, x
    <3>1. b[k] = IF k <= Len(g) THEN g[k] ELSE x[k - Len(g)]
      BY <2>2
    <3>2. k > Len(g) => k - Len(g) \in 1..Len(x)
      BY <2>2
    <3>3. k <= Len(g) => k \in 1..Len(g)
      BY <2>2
    <3> QED BY <1>3, <2>2, <3>1, <3>2, <3>3
  <2> HIDE DEF b, g, x
  <2>6. todo'["worker"] = Stack(b, 1, p, i) /\ todo'["health"] = todo["health"]
    BY <2>1, <2>3 DEF Typed, Listed, Threads
  <2>7. ASSUME p \notin Doom PROVE Live(b, 1, p, i, e, 0)'
    <3>1. Live(f, j, p, i, e, n) /\ j \in j..Len(f) /\ j >= n /\ j >= 1
      BY <1>1, <1>3, <2>7
    <3>2. lock = "worker"
      <4>1. PICK u \in (n + 1)..Len(f) : f[u].do = "unlock"
        BY <1>1, <1>3 DEF Turn
      <4>2. u \in j..Len(f) /\ n \in {8, 9, 12, 13}
        BY <1>1, <1>3, <4>1 DEF Turn
      <4>3. j >= 3
        BY <1>3, <4>2
      <4> QED BY <3>1, <4>1, <4>2, <4>3 DEF Live
    <3>6. ~ Asked(f, p, i)
      <4>1. ASSUME f = RestartBoth PROVE FALSE
        BY <1>1, <1>2, <4>1, AskedTurns DEF DockDos
      <4> QED BY <4>1 DEF Asked
    <3>3. state.engine = e /\ Agree /\ Ready(todo["health"], 1)
      BY <1>3, <3>1, <3>6 DEF Live, Calm
    <3>4. ~ (p = Booting /\ i = 1) => Safe
      BY <3>1 DEF Live
    <3>5. p = Booting => InBoot(b, i, e)'
      <4>1. ASSUME p = Booting PROVE InBoot(b, i, e)'
        <5>1. InBoot(f, i, e)
          BY <3>1, <4>1 DEF Live
        <5>2. i <= 9 /\ f # <<>>
          BY <1>1, <1>2, <5>1 DEF InBoot
        <5>3. /\ i <= 4 => todo["health"] = <<>>
              /\ i = 9 => loaded["worker"].engine = e
          BY <5>1, <5>2 DEF InBoot
        <5> QED BY <1>5, <2>5, <2>6, <5>2, <5>3 DEF InBoot, DockDos
      <4> QED BY <4>1
    <3>7. Ready(todo["health"], 1)'
      BY <1>5, <2>6, <3>3 DEF Ready, Listens
    <3>8. Agree'
      BY <1>5, <2>6, <3>3 DEF Agree, Off, HealthSings
    <3>9. ~ (p = Booting /\ i = 1) => Safe'
      BY <1>5, <3>4 DEF Safe, Off, Silent, Listens
    <3>10. state'.engine = e /\ lock' = "worker"
      BY <1>5, <3>2, <3>3
    <3> QED BY <2>4, <3>5, <3>7, <3>8, <3>9, <3>10, Anew
  <2>8. 1 \in 1..(Len(b) + 1)
    <3>1. Len(b) \in Nat
      BY <2>3
    <3> QED BY <3>1
  <2>9. Standing(b, 1, p, i, e, 0)'
    BY <1>1, <2>4, <2>6, <2>7, <2>8 DEF Standing
  <2>10. Cured'
    BY <2>6 DEF Cured
  <2> QED BY <2>9, <2>10 DEF Stands
<1> QED BY <1>6, <1>7

-----------------------------------------------------------------------------
(* The program goes on. *)

\* Nothing but lists and records changes; a dummy stays a dummy.
Still == /\ box' = box /\ (disk["xray"] = "dummy" => disk'["xray"] = "dummy")
         /\ todo'["health"] = todo["health"]

\* What nobody touches stays.
LEMMA StillKeeps ==
  ASSUME Still
  PROVE  /\ Ready(todo["health"], 1) => Ready(todo["health"], 1)'
         /\ Safe => Safe'
         /\ Agree /\ (state'.engine = "xray" => state.engine = "xray") => Agree'
<1>1. Off => Off'
  BY DEF Still, Off
<1>2. Silent => Silent'
  BY DEF Still, Silent, Listens
<1>3. Ready(todo["health"], 1) => Ready(todo["health"], 1)'
  BY DEF Still, Ready, Listens
<1>4. HealthSings' => HealthSings
  BY DEF Still, HealthSings
<1> QED BY <1>1, <1>2, <1>3, <1>4 DEF Safe, Agree

\* What is known when a branch is exhausted.
LEMMA Exhausted ==
  ASSUME Typed, NEW f, NEW j, NEW p, NEW i, NEW e, NEW n, Standing(f, j, p, i, e, n),
         p \notin Doom, j > Len(f), i <= Len(p)
  PROVE  /\ state.engine = e /\ Ready(todo["health"], 1)
         /\ ~ (p = Booting /\ i = 1) => Safe
         /\ p = Booting => /\ i <= 4 => todo["health"] = <<>>
                           /\ i = 9 => loaded["worker"].engine = e \/ applied["worker"]
                           /\ i \in 2..11 /\ ~ (applied["worker"] /\ i >= 10) => Agree
<1>1. Live(f, j, p, i, e, n) /\ Turn(f, e, n)
  BY DEF Standing
<1>2. j = Len(f) + 1 /\ Len(f) \in Nat
  <2>1. j \in 1..(Len(f) + 1) /\ f \in Seq(Steps)
    BY <1>1 DEF Standing, Turn
  <2> QED BY <2>1
<1>3. n \in Nat /\ (n > 0 => n < Len(f))
  BY <1>1 DEF Turn
<1>4. j >= n
  BY <1>2, <1>3
<1>5. p = Booting => InBoot(f, i, e)
  BY <1>1 DEF Live
<1>6. p = Booting /\ i \in 2..11 /\ ~ (applied["worker"] /\ i >= 10) => Agree
  BY <1>1, <1>4 DEF Live, Calm
<1>7. ~ Asked(f, p, i)
  <2>1. i \in Nat /\ Len(p) \in Nat
    BY Reading
  <2> QED BY <2>1 DEF Asked
<1> QED BY <1>1, <1>7, <1>4, <1>5, <1>6 DEF Live, InBoot

\* What the branch may contain, at its place in the boot.
Fits(g, i) == \A k \in 1..Len(g) :
  /\ g[k].do \in {"verify_or_roll_back", "applied_anyway"} => i <= 9
  /\ g[k].do = "see" => i = 12

\* A branch is put in front of the rest of the program.
LEMMA Settled ==
  ASSUME Typed, NEW f, NEW j, NEW p, NEW i, NEW e, NEW n, Standing(f, j, p, i, e, n),
         p \notin Doom, j > Len(f), i <= Len(p), ~ (p = Booting /\ i = 1), Still,
         NEW g, NEW l \in {i + 1, i + 5}, NEW d, NEW m, Turn(g, d, m),
         m = 0 => state'.engine = d /\ Lacks(g, {"unlock"}),
         m = 0 /\ 1 <= Len(g) /\ Voices(g[1]) => Agree',
         m = 0 /\ p = Booting /\ l \in 2..11 /\ ~ (applied'["worker"] /\ l >= 10) => Agree',
         p = Booting => /\ Fits(g, l)
                        /\ l = 9 => \/ loaded'["worker"].engine = d
                                    \/ applied'["worker"] /\ g = <<>>
  PROVE  Live(g, 1, p, l, d, m)'
<1>1. /\ Ready(todo["health"], 1)' /\ Safe'
      /\ p = Booting /\ i <= 4 => todo'["health"] = <<>>
  BY Exhausted, StillKeeps DEF Still
<1>2. m \in {0, 8, 9, 12, 13}
  BY DEF Turn
<1>3. Calm(g, 1, p, l, m)' => Agree'
  <2>1. ASSUME Calm(g, 1, p, l, m)' PROVE Agree'
    <3>1. ~ (m > 0 /\ 1 = m) /\ (1 >= m => m = 0)
      BY <1>2
    <3>2. \/ m = 0 /\ 1 <= Len(g) /\ Voices(g[1])
          \/ m = 0 /\ p = Booting /\ l \in 2..11 /\ ~ (applied'["worker"] /\ l >= 10)
      BY <2>1, <3>1 DEF Calm
    <3> QED BY <3>2
  <2> QED BY <2>1
<1>4. p = Booting => InBoot(g, l, d)'
  <2>1. ASSUME p = Booting, l <= 4 PROVE todo'["health"] = <<>>
    <3>1. i \in Nat
      BY Reading
    <3>2. i <= 4
      BY <2>1, <3>1
    <3> QED BY <1>1, <2>1, <3>2
  <2> QED BY <2>1 DEF InBoot, Fits
<1>5. m = 0 => \A u \in 1..Len(g) : g[u].do = "unlock" => lock' = "worker"
  BY DEF Lacks
<1> QED BY <1>1, <1>3, <1>4, <1>5, Anew

\* The step at the head of the program is done, and g comes before the rest.
LEMMA Onwards ==
  ASSUME Typed, Cured, NEW f, NEW j, NEW p, NEW i, NEW e, NEW n, Standing(f, j, p, i, e, n),
         j > Len(f), i <= Len(p), p[i].do # "restart_agent",
         NEW g, NEW d, NEW m, Turn(g, d, m), Then("worker", g),
         p \notin Doom => Live(g, 1, p, i + 1, d, m)'
  PROVE  Stands'
<1>1. /\ Tail(todo["worker"]) = Rest(p, i + 1) /\ i \in 1..Len(p) /\ Len(p) \in Nat
      /\ p \in Seq(Steps) /\ p \in Programs
  <2>1. p \in Programs
    BY DEF Standing
  <2> QED BY <2>1, Reading
<1>2. g \in Seq(Steps) /\ Len(g) \in Nat
  BY DEF Turn
<1>3. g \o Tail(todo["worker"]) = Stack(g, 1, p, i + 1)
  <2>1. Stack(g, 1, p, i + 1) = g \o Rest(p, i + 1)
    BY <1>2, Restacked
  <2> QED BY <1>1, <2>1
<1>4. /\ todo'["worker"] = Stack(g, 1, p, i + 1) /\ todo'["health"] = todo["health"]
  BY <1>3 DEF Then, Typed, Listed, Threads
<1>5. i + 1 \in 1..(Len(p) + 1) /\ 1 \in 1..(Len(g) + 1)
  BY <1>1, <1>2
<1>6. p \in Doom => i + 1 <= Len(p)
  <2>1. p \in Doom => i # Len(p)
    BY <1>1, ProgramSteps
  <2> QED BY <1>1, <2>1
<1>7. Standing(g, 1, p, i + 1, d, m)'
  BY <1>1, <1>4, <1>5, <1>6 DEF Standing
<1>8. Cured'
  BY <1>4 DEF Cured
<1> QED BY <1>7, <1>8 DEF Stands

\* The step of the program that is at the head of the list.
LEMMA Placed ==
  ASSUME Typed, NEW f, NEW j, NEW p, NEW i, NEW e, NEW n, Standing(f, j, p, i, e, n),
         j > Len(f), i <= Len(p)
  PROVE  /\ todo["worker"] # <<>> /\ todo["worker"][1] = p[i] /\ Now("worker") = p[i]
         /\ \A do : Does("worker", do) => p[i].do = do
         /\ p \in Programs /\ i \in 1..Len(p) /\ e \in Engines
         /\ p[i].do = "fetch" => i + 5 <= Len(p)
         /\ p = Booting => Place(p, i)
         /\ p \in Doom => /\ p[i].do = "restart_agent" <=> i = Len(p)
                          /\ p[i].do \in Chooses =>
                               Rest(p, i + 1) = <<Simply("restart_agent")>>
         /\ p \notin Doom \cup {Booting} =>
              p[i].do \notin {"stop", "ensure_defaults", "threads", "fall_back",
                             "defaults_if_failed", "clean", "restart_agent"}
<1>1. p \in Programs /\ e \in Engines
  BY DEF Standing, Turn
<1>2. todo["worker"] # <<>> /\ todo["worker"][1] = p[i] /\ i \in 1..Len(p)
  BY Reading
<1>3. Now("worker") = p[i] /\ \A do : Does("worker", do) => p[i].do = do
  BY <1>2 DEF Now, Does
<1> QED BY <1>1, <1>2, <1>3, ProgramSteps

LEMMA NothingIs ==
  /\ <<>> \in Seq(Steps) /\ Len(<<>>) = 0
  /\ \A dos : Lacks(<<>>, dos)
  /\ \A i : Fits(<<>>, i)
BY DEF Lacks, Fits

\* Nothing comes before the rest, and the state names the same engine.
LEMMA StandsIdle ==
  ASSUME Typed, Cured, NEW f, NEW j, NEW p, NEW i, NEW e, NEW n,
         Standing(f, j, p, i, e, n), j > Len(f), i <= Len(p), p[i].do # "restart_agent",
         Done("worker"),
         p \notin Doom =>
           /\ Still /\ state'.engine = state.engine
           /\ p = Booting => /\ i > 1 /\ i # 9 /\ (i = 8 => applied'["worker"])
                             /\ applied["worker"] /\ i >= 10 => applied'["worker"]
  PROVE  Stands'
<1>1. Turn(<<>>, e, 0)
  BY Placed, ShortTurns
<1>2. ASSUME p \notin Doom PROVE Live(<<>>, 1, p, i + 1, e, 0)'
  <2>1. i \in Nat
    BY Reading
  <2>2. ~ (p = Booting /\ i = 1) /\ i + 1 \in {i + 1, i + 5} /\ state'.engine = e
    BY <1>2, Exhausted
  <2>3. ASSUME p = Booting, i + 1 \in 2..11, ~ (applied'["worker"] /\ i + 1 >= 10)
        PROVE  Agree'
    <3>1. i \in 2..11 /\ ~ (applied["worker"] /\ i >= 10)
      BY <1>2, <2>1, <2>3
    <3> QED BY <1>2, <2>3, <3>1, Exhausted, StillKeeps
  <2>4. p = Booting => /\ Fits(<<>>, i + 1)
                       /\ i + 1 = 9 => applied'["worker"]
    BY <1>2, <2>1, NothingIs
  <2> QED BY <1>1, <1>2, <2>2, <2>3, <2>4, NothingIs, Settled
<1> QED BY <1>1, <1>2, Onwards DEF Done

\* main stops both containers.
LEMMA StandsStop ==
  ASSUME Typed, Cured, NEW f, NEW j, NEW p, NEW i, NEW e, NEW n,
         Standing(f, j, p, i, e, n), j > Len(f), i <= Len(p), StopContainer("worker")
  PROVE  Stands'
<1>1. /\ p[i].do = "stop" /\ box' = Down(p[i].engine, "stopped") /\ Done("worker")
      /\ UNCHANGED <<disk, state, applied, loaded>> /\ p[i] \in Steps
      /\ todo["worker"] # <<>>
  BY Placed, Reading DEF StopContainer, files, others, local, update
<1>2. Turn(<<>>, e, 0)
  BY Placed, ShortTurns
<1>3. ASSUME p \notin Doom PROVE Live(<<>>, 1, p, i + 1, e, 0)'
  <2>1. p = Booting /\ Place(p, i)
    BY <1>1, <1>3, Placed
  <2>2. \/ i = 1 /\ p[i] = On("stop", "singbox")
        \/ i = 2 /\ p[i] = On("stop", "xray")
    BY <1>1, <2>1 DEF Place
  <2>3. Works(p[i]) /\ ~ Sings(p[i]) /\ ~ Voices(p[i])
    BY <1>1 DEF Works, DockDos, Sings, Voices
  <2>4. todo["health"] = <<>> /\ todo'["health"] = <<>>
    <3>1. todo["health"] = <<>>
      BY <1>3, <2>1, <2>2, Exhausted
    <3> QED BY <1>1, <3>1, Passed DEF Typed, Listed, Threads
  <2>5. Ready(todo["health"], 1)' /\ ~ HealthSings'
    BY <2>4 DEF Ready, HealthSings
  <2>6. state'.engine = e
    BY <1>1, <1>3, Exhausted
  <2>7. Agree' /\ Safe'
    <3>1. CASE i = 1
      <4>1. Off'
        BY <1>1, <2>2, <2>3, <3>1, Worked
      <4> QED BY <2>5, <4>1 DEF Agree, Safe
    <3>2. CASE i = 2
      <4>1. Agree /\ Safe
        BY <1>3, <2>1, <3>2, Exhausted
      <4>2. (Off => Off') /\ (Silent => Silent')
        BY <1>1, <2>3, Worked
      <4> QED BY <1>1, <2>5, <4>1, <4>2 DEF Agree, Safe
    <3> QED BY <2>2, <3>1, <3>2
  <2>8. InBoot(<<>>, i + 1, e)'
    <3>1. i + 1 # 9
      BY <2>2
    <3> QED BY <2>4, <3>1, NothingIs DEF InBoot
  <2>9. ~ (1 <= Len(<<>>)) /\ Len(<<>>) = 0
    BY NothingIs
  <2> QED BY <1>2, <2>5, <2>6, <2>7, <2>8, <2>9, Anew
<1>4. p[i].do # "restart_agent"
  BY <1>1
<1> QED BY <1>1, <1>2, <1>3, <1>4, Onwards DEF Done

LEMMA StandsStep ==
  ASSUME Typed, Cured, NEW f, NEW j, NEW p, NEW i, NEW e, NEW n,
         Standing(f, j, p, i, e, n), j > Len(f), i <= Len(p),
         Load("worker") \/ AlreadyApplied("worker") \/ StartThreads("worker")
           \/ Clean("worker"), ~ lost'
  PROVE  Stands'
<1>1. /\ p[i].do \in {"load", "apply_current", "threads", "clean"} /\ Done("worker")
      /\ UNCHANGED <<box, applied>> /\ todo'["health"] = todo["health"]
  <2>1. /\ p[i].do \in {"load", "apply_current", "threads", "clean"} /\ Done("worker")
        /\ UNCHANGED <<box, applied>> /\ todo["worker"] # <<>>
    BY Placed DEF Load, AlreadyApplied, StartThreads, Clean, local, update
  <2> QED BY <2>1, Passed DEF Typed, Listed, Threads
<1>2. ASSUME p \notin Doom
      PROVE  /\ Still /\ state'.engine = state.engine
             /\ p = Booting => i \in {4, 6, 8} /\ (i = 8 => applied["worker"])
  <2>1. p[i].do # "clean"
    BY <1>2, Placed DEF Place
  <2>2. ~ Clean("worker")
    BY <2>1, Placed DEF Clean
  <2>3. disk' = disk /\ state'.engine = state.engine
    <3>1. CASE Load("worker")
      <4>1. disk' = disk
        BY <3>1 DEF Load, others
      <4>2. seen["worker"] = state /\ (state' = state \/ \E s : state' = [state EXCEPT !.server = s])
        BY <3>1 DEF Load, View, Save
      <4>3. state \in States
        BY DEF Typed, TypeOK
      <4> QED BY <4>1, <4>2, <4>3 DEF States
    <3> QED BY <1>1, <2>2, <3>1 DEF AlreadyApplied, StartThreads, files, others
  <2>4. p[i].do = "apply_current" => applied["worker"]
    BY <2>2, Placed DEF Load, AlreadyApplied, StartThreads
  <2>5. p = Booting => i \in {4, 6, 8} /\ (i = 8 => applied["worker"])
    BY <1>1, <2>1, <2>4, Placed DEF Place
  <2> QED BY <1>1, <2>3, <2>5 DEF Still
<1>3. p \notin Doom =>
           /\ Still /\ state'.engine = state.engine
           /\ p = Booting => /\ i > 1 /\ i # 9 /\ (i = 8 => applied'["worker"])
                             /\ applied["worker"] /\ i >= 10 => applied'["worker"]
  BY <1>1, <1>2
<1>4. p[i].do # "restart_agent"
  BY <1>1
<1> QED BY <1>1, <1>3, <1>4, StandsIdle

\* A server is applied.
LEMMA StandsPlay ==
  ASSUME Typed, Cured, NEW f, NEW j, NEW p, NEW i, NEW e, NEW n,
         Standing(f, j, p, i, e, n), j > Len(f), i <= Len(p), p[i].do # "restart_agent",
         NEW g, NEW d, NEW m, Turn(g, d, m), m > 0, Then("worker", g),
         p \notin Doom =>
           /\ Still
           /\ p = Booting => /\ i > 1 /\ Fits(g, i + 1)
                             /\ i = 8 => loaded'["worker"].engine = d
  PROVE  Stands'
<1>1. ASSUME p \notin Doom PROVE Live(g, 1, p, i + 1, d, m)'
  <2>1. i \in Nat /\ m # 0
    BY Reading DEF Turn
  <2>2. ~ (p = Booting /\ i = 1) /\ i + 1 \in {i + 1, i + 5}
    BY <1>1
  <2>3. p = Booting => /\ Fits(g, i + 1)
                       /\ i + 1 = 9 => loaded'["worker"].engine = d
    BY <1>1, <2>1
  <2> QED BY <1>1, <2>1, <2>2, <2>3, Settled
<1> QED BY <1>1, Onwards

\* What an update or a choice applies.
LEMMA PlaysFit ==
  ASSUME NEW s \in Servers, NEW save \in {"save_manual", "save_smart"}
  PROVE  LET e == EngineOf(s)
             a == ApplyEngine(e, s)
             b == ApplyEngine(e, s) \o <<Simply("applied_anyway")>>
             f == SelectServer(s, save)
             m == End(e, "verify_or_roll_back") IN
         /\ Turn(a, e, m) /\ Turn(b, e, m) /\ m > 0
         /\ \A i \in Int : i <= 9 => Fits(a, i) /\ Fits(b, i)
         /\ Turn(f, e, End(e, "verify")) /\ End(e, "verify") > 0
         /\ \A i : Fits(f, i)
<1> DEFINE e == EngineOf(s)
           a == ApplyEngine(e, s)
           b == ApplyEngine(e, s) \o <<Simply("applied_anyway")>>
           f == SelectServer(s, save)
<1>1. /\ Turn(a, e, End(e, "verify_or_roll_back")) /\ Lacks(a, {"see"})
      /\ Turn(b, e, End(e, "verify_or_roll_back")) /\ Lacks(b, {"see"})
      /\ Turn(f, e, End(e, "verify"))
      /\ Lacks(f, {"see"}) /\ Lacks(f, {"verify_or_roll_back"}) /\ Lacks(f, {"applied_anyway"})
  BY ApplyTurns
<1>2. End(e, "verify_or_roll_back") > 0 /\ End(e, "verify") > 0
  BY DEF End, Restarted
<1> HIDE DEF a, b, f, e
<1>3. \A i \in Int : i <= 9 => Fits(a, i) /\ Fits(b, i)
  BY <1>1 DEF Fits, Lacks
<1>4. \A i : Fits(f, i)
  BY <1>1 DEF Fits, Lacks
<1> QED BY <1>1, <1>2, <1>3, <1>4 DEF a, b, f, e

\* An update applies the server in use or another one.
LEMMA StandsApply ==
  ASSUME Typed, Cured, NEW f, NEW j, NEW p, NEW i, NEW e, NEW n,
         Standing(f, j, p, i, e, n), j > Len(f), i <= Len(p),
         ApplyNew("worker") \/ ApplyCurrent("worker") \/ ChangeEngine("worker")
  PROVE  Stands'
<1>1. /\ p[i].do \in {"apply_new", "apply_current"} /\ todo["worker"] # <<>>
      /\ p[i].do = "apply_new" <=> ApplyNew("worker")
      /\ p[i].do # "restart_agent" /\ UNCHANGED <<box, disk, applied>>
      /\ i \in Nat /\ todo["worker"][1] = p[i]
  <2>1. /\ ApplyNew("worker") => Does("worker", "apply_new")
        /\ ~ ApplyNew("worker") => Does("worker", "apply_current")
        /\ UNCHANGED <<box, disk, applied>>
    BY DEF ApplyNew, ApplyCurrent, ChangeEngine, files, others, local, update
  <2>2. /\ todo["worker"] # <<>> /\ i \in Nat /\ todo["worker"][1] = p[i]
        /\ \A do : Does("worker", do) => p[i].do = do
    BY <2>1, Placed, Reading
  <2>3. /\ ApplyNew("worker") => p[i].do = "apply_new"
        /\ ~ ApplyNew("worker") => p[i].do = "apply_current"
    BY <2>1, <2>2
  <2> QED BY <2>1, <2>2, <2>3
<1>2. p = Booting => i = IF ApplyNew("worker") THEN 7 ELSE 8
  BY <1>1, Placed DEF Place
<1>3. /\ fetched["worker"] \in Seq(Servers) /\ "none" \notin Servers
      /\ fetched["worker"] # <<>> => fetched["worker"][1] \in Servers
      /\ loaded["worker"] \in States /\ "worker" \in Threads
  BY WhatIsFetched DEF Threads
\* Whatever is put in front, the watchdog's list stays.
<1>4. \A g : Then("worker", g) => Still
  BY <1>1 DEF Then, Still, Typed, Listed, Threads
<1>5. CASE ApplyNew("worker")
  <2> DEFINE s == loaded["worker"].server
  <2>1. CASE s = "none" \/ EngineOf(s) = loaded["worker"].engine
    <3>1. Done("worker") /\ state' = state
      BY <1>5, <2>1 DEF ApplyNew, Done, files
    <3>2. p \notin Doom =>
            /\ Still /\ state'.engine = state.engine
            /\ p = Booting => /\ i > 1 /\ i # 9 /\ (i = 8 => applied'["worker"])
                              /\ applied["worker"] /\ i >= 10 => applied'["worker"]
      BY <1>1, <1>2, <1>4, <1>5, <3>1 DEF Done
    <3> QED BY <1>1, <3>1, <3>2, StandsIdle
  <2>2. CASE ~ (s = "none" \/ EngineOf(s) = loaded["worker"].engine)
    <3>1. PICK c \in Servers : c = s
      BY <1>3, <2>2 DEF States
    <3> DEFINE d == EngineOf(c)
               g == ApplyEngine(d, c)
               m == End(d, "verify_or_roll_back")
    <3>2. Then("worker", g)
      BY <1>5, <2>2, <3>1 DEF ApplyNew
    <3>3. Turn(g, d, m) /\ m > 0 /\ \A k \in Int : k <= 9 => Fits(g, k)
      BY PlaysFit
    <3> HIDE DEF g, d, m
    <3>4. p \notin Doom => /\ Still
                           /\ p = Booting => /\ i > 1 /\ Fits(g, i + 1)
                                             /\ i = 8 => loaded'["worker"].engine = d
      BY <1>2, <1>4, <1>5, <3>2, <3>3
    <3> QED BY <1>1, <3>2, <3>3, <3>4, StandsPlay
  <2> QED BY <2>1, <2>2
<1>6. CASE ApplyCurrent("worker")
  <2>1. /\ loaded["worker"].engine \in Engines
        /\ First("worker", loaded["worker"].engine) # "none"
    BY <1>3, <1>6 DEF ApplyCurrent, States
  <2>2. PICK c \in Servers : /\ c = Own("worker", loaded["worker"].engine)
                             /\ EngineOf(c) = loaded["worker"].engine
    BY <1>3, <2>1, FirstIs DEF Own, States
  <2> DEFINE d == EngineOf(c)
             g == ApplyEngine(d, c)
             m == End(d, "verify_or_roll_back")
  <2>3. Then("worker", g)
    BY <1>6, <2>2 DEF ApplyCurrent
  <2>4. loaded'["worker"].engine = d
    BY <1>3, <1>6, <2>2 DEF ApplyCurrent, States, Typed
  <2>5. Turn(g, d, m) /\ m > 0 /\ \A k \in Int : k <= 9 => Fits(g, k)
    BY PlaysFit
  <2> HIDE DEF g, d, m
  <2>6. p \notin Doom => /\ Still
                         /\ p = Booting => /\ i > 1 /\ Fits(g, i + 1)
                                           /\ i = 8 => loaded'["worker"].engine = d
    <3>1. i = 7 \/ i = 8 => Fits(g, i + 1) /\ i > 1
      BY <2>5
    <3> QED BY <1>2, <1>4, <2>3, <2>4, <3>1
  <2> QED BY <1>1, <2>3, <2>5, <2>6, StandsPlay
<1>7. CASE ChangeEngine("worker")
  <2> DEFINE o == Other(loaded["worker"].engine)
  <2>1. /\ o \in Engines /\ First("worker", Other(o)) = "none"
        /\ todo["worker"][1].do = "apply_current"
    BY <1>3, <1>7, OtherIsOne DEF ChangeEngine, States, Does
  <2>2. fetched["worker"] # <<>>
    BY <1>1, <1>3, <2>1, Heads DEF Late
  <2>3. PICK c \in Servers : c = First("worker", o) /\ EngineOf(c) = o
    <3>1. EngineOf(fetched["worker"][1]) # Other(o)
      BY <1>3, <2>1, <2>2, FirstIs, OtherIsOne
    <3>2. EngineOf(fetched["worker"][1]) = o
      BY <3>1, <2>1, EngineIsOne DEF Other, Engines
    <3> QED BY <3>2, <1>3, <2>1, <2>2, FirstIs
  <2> DEFINE d == EngineOf(c)
             g == ApplyEngine(d, c) \o <<Simply("applied_anyway")>>
             m == End(d, "verify_or_roll_back")
  <2>4. Then("worker", g)
    BY <1>7, <2>3 DEF ChangeEngine
  <2>5. loaded'["worker"].engine = d
    BY <1>3, <1>7, <2>3 DEF ChangeEngine, States, Typed
  <2>6. Turn(g, d, m) /\ m > 0 /\ \A k \in Int : k <= 9 => Fits(g, k)
    BY PlaysFit
  <2> HIDE DEF g, d, m
  <2>7. p \notin Doom => /\ Still
                         /\ p = Booting => /\ i > 1 /\ Fits(g, i + 1)
                                           /\ i = 8 => loaded'["worker"].engine = d
    <3>1. i = 7 \/ i = 8 => Fits(g, i + 1) /\ i > 1
      BY <2>6
    <3> QED BY <1>2, <1>4, <2>4, <2>5, <3>1
  <2> QED BY <1>1, <2>4, <2>6, <2>7, StandsPlay
<1> QED BY <1>5, <1>6, <1>7

\* What is left after a fetch of nothing.
LEMMA RestOfRest ==
  ASSUME NEW q \in Seq(Steps), NEW k \in 1..Len(q), k + 5 <= Len(q)
  PROVE  SubSeq(Rest(q, k), 6, Len(Rest(q, k))) = Rest(q, k + 5)
<1> DEFINE r == Rest(q, k)
           s == Rest(q, k + 5)
           t == SubSeq(r, 6, Len(r))
<1>0. Len(q) \in Nat /\ k \in Nat
  OBVIOUS
<1>1. k \in 1..(Len(q) + 1) /\ k + 5 \in 1..(Len(q) + 1)
  BY <1>0
<1>2. /\ r \in Seq(Steps) /\ Len(r) = Len(q) - k + 1
      /\ \A m \in 1..Len(r) : r[m] = q[k + m - 1]
  BY <1>0, <1>1, SubSeqProperties DEF Rest
<1>3. /\ s \in Seq(Steps) /\ Len(s) = Len(q) - (k + 5) + 1
      /\ \A m \in 1..Len(s) : s[m] = q[(k + 5) + m - 1]
  BY <1>0, <1>1, SubSeqProperties DEF Rest
<1> HIDE DEF r, s
<1>4. 6 \in 1..(Len(r) + 1) /\ Len(r) \in Nat
  BY <1>0, <1>2
<1>5. /\ t \in Seq(Steps) /\ Len(t) = Len(r) - 6 + 1
      /\ \A m \in 1..Len(t) : t[m] = r[6 + m - 1]
  <2>1. \A m \in 6..Len(r) : r[m] \in Steps
    BY <1>2
  <2>2. /\ t \in Seq(Steps) /\ Len(t) = IF 6 <= Len(r) THEN Len(r) - 6 + 1 ELSE 0
        /\ \A m \in 1..(Len(r) - 6 + 1) : t[m] = r[6 + m - 1]
    BY <1>4, <2>1, SubSeqProperties
  <2>3. PICK l, u : l = Len(r) /\ u = Len(t)
    OBVIOUS
  <2>4. u = IF 6 <= l THEN l - 6 + 1 ELSE 0
    BY <2>2, <2>3
  <2>5. 6 \in 1..(l + 1) /\ l \in Nat
    BY <1>4, <2>3
  <2>6. u = l - 6 + 1
    BY <2>4, <2>5
  <2> QED BY <2>2, <2>3, <2>6
<1> HIDE DEF t
<1>6. Len(t) = Len(s)
  BY <1>0, <1>2, <1>3, <1>5
<1>7. ASSUME NEW m \in 1..Len(t) PROVE t[m] = s[m]
  <2>1. m \in Nat /\ m \in 1..Len(s) /\ m + 5 \in 1..Len(r)
    BY <1>0, <1>2, <1>3, <1>5, <1>6
  <2>2. t[m] = r[m + 5]
    <3>1. 6 + m - 1 = m + 5
      BY <2>1
    <3> QED BY <1>5, <3>1
  <2>3. r[m + 5] = q[k + (m + 5) - 1]
    BY <1>2, <2>1
  <2>4. s[m] = q[(k + 5) + m - 1]
    BY <1>3, <2>1
  <2>5. k + (m + 5) - 1 = (k + 5) + m - 1
    BY <1>0, <2>1
  <2> QED BY <2>2, <2>3, <2>4, <2>5
<1>8. t = s
  <2>1. t \in Seq(Steps) /\ s \in Seq(Steps)
    BY <1>3, <1>5
  <2> QED BY <1>6, <1>7, <2>1, SeqEqual
<1> QED BY <1>8 DEF r, s, t

\* A list that is all program.
LEMMA Plain ==
  ASSUME NEW p \in Seq(Steps), NEW i \in 1..(Len(p) + 1)
  PROVE  /\ Stack(<<>>, 1, p, i) = Rest(p, i) /\ Stack(<<>>, 1, p, 1) = p
         /\ 1 \in 1..(Len(<<>>) + 1) /\ 1 \in 1..(Len(p) + 1)
<1>0. Len(p) \in Nat
  OBVIOUS
<1>1. \A k \in 1..(Len(p) + 1) : Rest(p, k) \in Seq(Steps)
  BY RestEnds
<1>2. Rest(p, 1) = p /\ 1 \in 1..(Len(p) + 1)
  BY <1>0, RestEnds
<1>3. ASSUME NEW k \in 1..(Len(p) + 1) PROVE Stack(<<>>, 1, p, k) = Rest(p, k)
  <2> DEFINE r == Rest(p, k)
  <2>1. r \in Seq(Steps)
    BY <1>1
  <2>2. Stack(<<>>, 1, p, k) = <<>> \o r
    BY NothingIs, Restacked
  <2> HIDE DEF r
  <2>3. <<>> \o r = r
    BY <2>1
  <2> QED BY <2>2, <2>3 DEF r
<1> QED BY <1>2, <1>3, NothingIs

\* An update that could fetch nothing ends, the others go on.
LEMMA StandsFetch ==
  ASSUME Typed, Cured, NEW f, NEW j, NEW p, NEW i, NEW e, NEW n,
         Standing(f, j, p, i, e, n), j > Len(f), i <= Len(p), Fetch("worker")
  PROVE  Stands'
<1> DEFINE q == todo["worker"]
<1>1. /\ p[i].do = "fetch" /\ UNCHANGED <<box, disk, state, loaded>>
      /\ i + 5 <= Len(p) /\ i \in 1..Len(p) /\ p \in Seq(Steps) /\ p \in Programs
      /\ q = Rest(p, i) /\ q # <<>> /\ q \in Seq(Steps) /\ Len(p) \in Nat
  BY Placed, Reading DEF Fetch
<1>2. p = Booting => i = 5
  BY <1>1, Placed DEF Place
<1>3. applied'["worker"] = FALSE
  BY DEF Fetch, Typed, TypeOK, Threads
<1>4. PICK list \in Lists : todo' = [todo EXCEPT !["worker"] =
            IF list = <<>> THEN SubSeq(@, Len(UpdateSubscription) + 1, Len(@))
                           ELSE Tail(@)]
  BY DEF Fetch
<1>5. todo'["health"] = todo["health"]
  BY <1>4 DEF Typed, Listed, Threads
<1>6. Still /\ Cured'
  BY <1>1, <1>5 DEF Still, Cured
<1>7. CASE list # <<>>
  <2>1. Done("worker")
    <3>1. <<>> \o Tail(q) = Tail(q)
      <4>1. Tail(q) \in Seq(Steps)
        BY <1>1
      <4> QED BY <4>1
    <3> QED BY <1>4, <1>7, <3>1 DEF Done, Then
  <2>2. p \notin Doom =>
          /\ Still /\ state'.engine = state.engine
          /\ p = Booting => /\ i > 1 /\ i # 9 /\ (i = 8 => applied'["worker"])
                            /\ applied["worker"] /\ i >= 10 => applied'["worker"]
    BY <1>1, <1>2, <1>6
  <2> QED BY <1>1, <2>1, <2>2, StandsIdle
<1>8. CASE list = <<>>
  <2>1. todo'["worker"] = SubSeq(q, 6, Len(q))
    BY <1>4, <1>8, UpdateIsSteps DEF Typed, Listed, Threads
  <2>2. i + 5 \in 1..(Len(p) + 1)
    BY <1>1
  <2>3. todo'["worker"] = Stack(<<>>, 1, p, i + 5)
    <3>1. SubSeq(Rest(p, i), 6, Len(Rest(p, i))) = Rest(p, i + 5)
      BY <1>1, RestOfRest
    <3>2. Stack(<<>>, 1, p, i + 5) = Rest(p, i + 5)
      BY <1>1, <2>2, Plain
    <3> QED BY <1>1, <2>1, <3>1, <3>2
  <2>4. Turn(<<>>, e, 0)
    BY Placed, ShortTurns
  <2>5. ASSUME p \notin Doom PROVE Live(<<>>, 1, p, i + 5, e, 0)'
    <3>1. ~ (p = Booting /\ i = 1) /\ i + 5 \in {i + 1, i + 5} /\ state'.engine = e
      BY <1>1, <1>2, <2>5, Exhausted
    <3>2. p = Booting => Agree'
      <4>1. p = Booting => Agree
        BY <1>2, <2>5, Exhausted
      <4> QED BY <1>1, <1>6, <4>1, StillKeeps
    <3>3. p = Booting => Fits(<<>>, i + 5) /\ i + 5 # 9
      BY <1>2, NothingIs
    <3>4. Lacks(<<>>, {"unlock"}) /\ ~ (1 <= Len(<<>>))
      BY NothingIs DEF Lacks
    <3>5. p = Booting /\ i + 5 \in 2..11 => Agree'
      BY <3>2
    <3> HIDE DEF q
    <3> QED BY <1>6, <2>4, <2>5, <3>1, <3>3, <3>4, <3>5, Settled
  <2>6. Standing(<<>>, 1, p, i + 5, e, 0)'
    BY <1>1, <2>2, <2>3, <2>4, <2>5, Plain DEF Standing
  <2> QED BY <1>6, <2>6 DEF Stands
<1> QED BY <1>7, <1>8

\* An update saves the state it has loaded.
LEMMA StandsSaved ==
  ASSUME Typed, Cured, NEW f, NEW j, NEW p, NEW i, NEW e, NEW n,
         Standing(f, j, p, i, e, n), j > Len(f), i <= Len(p), SaveLoaded("worker"), ~ lost'
  PROVE  Stands'
<1>1. /\ p[i].do = "save_loaded" /\ UNCHANGED <<box, disk, loaded, applied>>
      /\ Done("worker") /\ todo["worker"] # <<>> /\ loaded["worker"] \in States
  BY Placed, WhatIsFetched DEF SaveLoaded, others, local, update, Threads
<1>2. p = Booting => i = 9
  BY <1>1, Placed DEF Place
<1>3. PICK d \in Engines : d = loaded["worker"].engine
  BY <1>1 DEF States
<1>4. state'.engine = d
  <2>1. \E s : state' = [loaded["worker"] EXCEPT !.server = s]
    BY Zenon DEF SaveLoaded, Save
  <2> QED BY <1>1, <1>3, <2>1 DEF States
<1>5. Turn(<<>>, d, 0)
  BY ShortTurns
<1>6. Still
  BY <1>1, Passed DEF Still, Typed, Listed, Threads
<1>7. ASSUME p \notin Doom PROVE Live(<<>>, 1, p, i + 1, d, 0)'
  <2>1. ~ (p = Booting /\ i = 1) /\ i + 1 \in {i + 1, i + 5}
    BY <1>2
  <2>2. p = Booting /\ ~ applied'["worker"] => Agree'
    <3>1. ASSUME p = Booting, ~ applied["worker"] PROVE Agree /\ d = state.engine
      BY <1>2, <1>3, <1>7, <3>1, Exhausted
    <3> QED BY <1>1, <1>4, <1>6, <3>1, StillKeeps
  <2>3. p = Booting => Fits(<<>>, i + 1) /\ i + 1 = 10
    BY <1>2, NothingIs
  <2> QED BY <1>4, <1>5, <1>6, <1>7, <2>1, <2>2, <2>3, NothingIs, Settled
<1>8. p[i].do # "restart_agent"
  BY <1>1
<1> QED BY <1>1, <1>5, <1>7, <1>8, Onwards DEF Done

\* A program that is not main's, or the end of one.
LEMMA Begun ==
  ASSUME Safe', Ready(todo["health"], 1)',
         NEW p \in Programs, p # Booting, NEW i, NEW g, NEW d, NEW m, Turn(g, d, m),
         m = 0 => g = <<>> /\ state'.engine = d
  PROVE  Live(g, 1, p, i, d, m)'
<1>1. m \in {0, 8, 9, 12, 13}
  BY DEF Turn
<1>2. Len(g) \in Nat /\ (m = 0 => Len(g) = 0)
  BY NothingIs DEF Turn
<1>3. ~ Calm(g, 1, p, i, m)'
  BY <1>1, <1>2 DEF Calm
<1>4. m = 0 => \A u \in 1..Len(g) : g[u].do = "unlock" => lock' = "worker"
  BY <1>2
<1> QED BY <1>1, <1>3, <1>4, Anew

\* A program of which nothing is left.
LEMMA NothingLeft ==
  LET p == <<Simply("choose")>> IN
  /\ p \in Programs /\ p # Booting /\ p \notin Doom /\ p \in Seq(Steps)
  /\ 2 \in 1..(Len(p) + 1) /\ Stack(<<>>, 1, p, 2) = <<>>
  /\ \A g \in Seq(Steps) : Stack(g, 1, p, 2) = g
<1> DEFINE p == <<Simply("choose")>>
<1>1. p \in Programs /\ Len(p) = 1
  BY DEF Programs
<1>2. p # Booting /\ p \notin Doom
  <2>1. Len(Booting) = 12 /\ \A d \in Doom : Len(d) \in {2, 9}
    BY BootingIs, DoomIs
  <2> QED BY <1>1, <2>1
<1>3. p \in Seq(Steps) /\ 2 \in 1..(Len(p) + 1)
  BY <1>1, ProgramSteps
<1>4. Rest(p, 2) = <<>>
  <2>1. 2 = Len(p) + 1
    BY <1>1
  <2> HIDE DEF p
  <2> QED BY <1>3, <2>1, RestEnds
<1>5. ASSUME NEW g \in Seq(Steps) PROVE Stack(g, 1, p, 2) = g
  <2>1. Stack(g, 1, p, 2) = g \o Rest(p, 2)
    BY Restacked
  <2>2. g \o <<>> = g
    OBVIOUS
  <2> QED BY <1>4, <2>1, <2>2
<1> QED BY <1>1, <1>2, <1>3, <1>5, NothingIs

\* An exception.
LEMMA StandsRaise ==
  ASSUME Typed, Cured, NEW f, NEW j, NEW p, NEW i, NEW e, NEW n,
         Standing(f, j, p, i, e, n), j > Len(f), i <= Len(p), p[i].do \in Chooses,
         Raise("worker"), UNCHANGED <<box, disk, state>>
  PROVE  Stands'
<1> DEFINE q == todo["worker"]
           r == IF Tail(q) = <<Simply("restart_agent")>> THEN Ending ELSE <<>>
<1>1. /\ p \in Seq(Steps) /\ Len(p) \in Nat /\ p \in Programs /\ i \in 1..Len(p)
      /\ Tail(q) = Rest(p, i + 1)
  BY Placed, Reading
<1>2. todo'["worker"] = r /\ todo'["health"] = todo["health"]
  BY DEF Raise, Ending, Typed, Listed, Threads
<1>3. Still /\ Cured'
  BY <1>2 DEF Still, Cured
<1>4. CASE p \in Doom
  <2>1. r = Ending
    <3>1. Rest(p, i + 1) = <<Simply("restart_agent")>>
      BY <1>4, Placed
    <3> QED BY <1>1, <3>1
  <2>2. /\ Ending \in Programs /\ Ending \in Doom /\ Ending \in Seq(Steps)
        /\ Stack(<<>>, 1, Ending, 1) = Ending /\ 1 \in 1..(Len(Ending) + 1)
        /\ 1 <= Len(Ending)
    <3>1. Ending \in Doom /\ Ending \in Programs
      BY DEF Doom, Programs
    <3>2. Ending \in Seq(Steps) /\ Len(Ending) \in {2, 9}
      BY <3>1, DoomIs
    <3>3. 1 \in 1..(Len(Ending) + 1) /\ 1 <= Len(Ending)
      <4> DEFINE l == Len(Ending)
      <4>1. l \in {2, 9}
        BY <3>2
      <4> HIDE DEF l
      <4>2. 1 \in 1..(l + 1) /\ 1 <= l
        BY <4>1
      <4> QED BY <4>2 DEF l
    <3> HIDE DEF r
    <3> QED BY <3>1, <3>2, <3>3, Plain
  <2>3. Turn(<<>>, e, 0)
    BY Placed, ShortTurns
  <2>4. Standing(<<>>, 1, Ending, 1, e, 0)'
    BY <1>2, <2>1, <2>2, <2>3, NothingIs DEF Standing
  <2> QED BY <1>3, <2>4 DEF Stands
<1>5. CASE p \notin Doom
  <2>1. r = <<>>
    <3>1. ASSUME Rest(p, i + 1) = <<Simply("restart_agent")>> PROVE FALSE
      <4>1. Len(Rest(p, i + 1)) = 1 /\ Rest(p, i + 1)[1].do = "restart_agent"
        BY <3>1 DEF Simply, Step
      <4>2. i + 1 \in 1..(Len(p) + 1)
        BY <1>1
      <4>3. Len(Rest(p, i + 1)) = Len(p) - (i + 1) + 1
        BY <1>1, <4>2, RestEnds
      <4>4. i + 1 \in 1..Len(p)
        BY <1>1, <4>1, <4>3
      <4>5. p[i + 1].do = "restart_agent"
        BY <1>1, <4>1, <4>4, RestIs
      <4>6. p = Booting => Place(p, i + 1)
        BY <1>1, <4>4, ProgramSteps
      <4>7. p # Booting => p[i + 1].do # "restart_agent"
        BY <1>1, <1>5, <4>4, ProgramSteps
      <4> QED BY <4>5, <4>6, <4>7 DEF Place
    <3> QED BY <1>1, <3>1
  <2>2. ~ (p = Booting /\ i = 1)
    BY Placed DEF Place, Chooses
  <2>3. state.engine = e /\ Safe /\ Ready(todo["health"], 1)
    BY <1>5, <2>2, Exhausted
  <2>4. Safe' /\ Ready(todo["health"], 1)'
    BY <1>3, <2>3, StillKeeps
  <2>5. Turn(<<>>, e, 0) /\ state'.engine = e
    BY <2>3, Placed, ShortTurns
  <2> DEFINE c == <<Simply("choose")>>
  <2>6. /\ c \in Programs /\ c # Booting /\ c \notin Doom /\ 2 \in 1..(Len(c) + 1)
        /\ Stack(<<>>, 1, c, 2) = <<>>
    BY NothingLeft
  <2> HIDE DEF c
  <2>7. Live(<<>>, 1, c, 2, e, 0)'
    BY <2>4, <2>5, <2>6, Begun
  <2>8. Standing(<<>>, 1, c, 2, e, 0)'
    BY <1>2, <2>1, <2>5, <2>6, <2>7, NothingIs DEF Standing
  <2> QED BY <1>3, <2>8 DEF Stands
<1> QED BY <1>4, <1>5

\* A mode keeps the server in use, or selects another one.
LEMMA StandsChoose ==
  ASSUME Typed, Cured, NEW f, NEW j, NEW p, NEW i, NEW e, NEW n,
         Standing(f, j, p, i, e, n), j > Len(f), i <= Len(p), Choose("worker")
  PROVE  Stands'
<1>1. /\ p[i].do \in Chooses /\ UNCHANGED <<box, disk, state, applied>>
      /\ p[i].do # "restart_agent" /\ todo["worker"] # <<>> /\ e \in Engines
      /\ i \in Nat /\ (p = Booting => i = 10)
  <2>1. p[i].do \in Chooses /\ UNCHANGED <<box, disk, state, applied>> /\ i \in Nat
    BY Placed, Reading DEF Choose, Chooses, update
  <2>2. p = Booting => i = 10
    BY <2>1, Placed DEF Place
  <2> QED BY <2>1, <2>2, Placed DEF Chooses
<1>2. \A g : Then("worker", g) => Still
  BY <1>1 DEF Then, Still, Typed, Listed, Threads
<1>3. cache \in Seq(Servers) /\ Len(cache) \in Nat /\ bench \in Nat
  BY ServersAssumption DEF Typed, TypeOK
<1>4. CASE Done("worker")
  BY <1>1, <1>2, <1>4, StandsIdle DEF Done
<1>5. CASE Then("worker", <<Simply("keep")>>)
  <2> DEFINE g == <<Simply("keep")>>
  <2>1. Turn(g, e, 0)
    BY <1>1, ShortTurns
  <2>2. Len(g) = 1 /\ g[1].do = "keep" /\ ~ Voices(g[1])
    BY DEF Simply, Step, Voices
  <2>3. Lacks(g, {"unlock"}) /\ \A l : Fits(g, l)
    BY <2>2 DEF Lacks, Fits
  <2> HIDE DEF g
  <2>5. Then("worker", g) /\ Still
    BY <1>2, <1>5 DEF g
  <2>6. ASSUME p \notin Doom PROVE Live(g, 1, p, i + 1, e, 0)'
    <3>1. ~ (p = Booting /\ i = 1) /\ i + 1 \in {i + 1, i + 5} /\ state'.engine = e
      BY <1>1, <2>6, Exhausted
    <3>2. p = Booting /\ ~ applied'["worker"] => Agree'
      <4>1. p = Booting /\ ~ applied["worker"] => Agree
        BY <1>1, <2>6, Exhausted
      <4> QED BY <1>1, <2>5, <4>1, StillKeeps
    <3>3. p = Booting => i + 1 = 11
      BY <1>1
    <3> QED BY <2>1, <2>2, <2>3, <2>5, <2>6, <3>1, <3>2, <3>3, Settled
  <2> QED BY <1>1, <2>1, <2>5, <2>6, Onwards
<1>6. ASSUME NEW k \in 1..Len(cache), Then("worker", SelectServer(cache[k], "save_smart"))
      PROVE  Stands'
  <2>1. PICK s \in Servers : s = cache[k]
    BY <1>3
  <2> DEFINE d == EngineOf(s)
             g == SelectServer(s, "save_smart")
             m == End(d, "verify")
  <2>2. Turn(g, d, m) /\ m > 0 /\ \A l : Fits(g, l)
    BY PlaysFit
  <2>3. Then("worker", g)
    BY <1>6, <2>1
  <2> HIDE DEF d, g, m
  <2>4. p \notin Doom => /\ Still
                         /\ p = Booting => /\ i > 1 /\ Fits(g, i + 1)
                                           /\ i = 8 => loaded'["worker"].engine = d
    BY <1>1, <1>2, <2>2, <2>3
  <2> QED BY <1>1, <2>2, <2>3, <2>4, StandsPlay
<1>7. CASE Raise("worker")
  BY <1>1, <1>7, StandsRaise
<1>8. \/ Done("worker") \/ Raise("worker")
      \/ Then("worker", <<Simply("keep")>>)
      \/ \E k \in 1..Len(cache) : Then("worker", SelectServer(cache[k], "save_smart"))
  <2>1. CASE ~ (Done("worker") \/ Then("worker", <<Simply("keep")>>))
    <3>1. bench' \in {bench, Len(cache)} \ {0}
      BY <2>1, Zenon DEF Choose
    <3>2. \E k \in 1..bench' :
            IF k <= Len(cache)
              THEN \/ Done("worker")
                   \/ Then("worker", SelectServer(cache[k], "save_smart"))
              ELSE Raise("worker")
      BY <2>1, Zenon DEF Choose
    <3>3. bench' \in Nat
      BY <1>3, <3>1
    <3> QED BY <1>3, <2>1, <3>2, <3>3
  <2> QED BY <2>1
<1> QED BY <1>4, <1>5, <1>6, <1>7, <1>8

\* Containers are started, and possibly looked at.
LEMMA StandsDocked ==
  ASSUME Typed, Cured, NEW f, NEW j, NEW p, NEW i, NEW e, NEW n,
         Standing(f, j, p, i, e, n), j > Len(f), i <= Len(p), p[i].do # "restart_agent",
         Still, UNCHANGED <<state, applied>>, NEW g, NEW d, d = state.engine, Turn(g, d, 0),
         Then("worker", g),
         \A k \in 1..Len(g) : g[k].do \in DockDos \cup {"see"},
         p = Booting => /\ i \in {3, 11, 12}
                        /\ Lacks(g, {"see"}) \/ (i = 11 /\ ~ applied["worker"])
                        /\ 1 <= Len(g) /\ Voices(g[1]) => i = 11 /\ ~ applied["worker"],
         p # Booting => p \in Doom
  PROVE  Stands'
<1>1. ASSUME p \notin Doom PROVE Live(g, 1, p, i + 1, d, 0)'
  <2>1. p = Booting
    BY <1>1
  <2>2. ~ (p = Booting /\ i = 1) /\ i + 1 \in {i + 1, i + 5} /\ state'.engine = d
    BY <2>1
  <2>3. Lacks(g, {"unlock"}) /\ Fits(g, i + 1)
    <3>1. Lacks(g, {"unlock"})
      BY DEF Lacks, DockDos
    <3>2. Lacks(g, {"see"}) \/ i + 1 = 12
      BY <2>1
    <3> QED BY <3>1, <3>2 DEF Lacks, Fits, DockDos
  <2>5. i = 3 \/ (i = 11 /\ ~ applied["worker"]) => Agree'
    <3>1. i = 3 \/ (i = 11 /\ ~ applied["worker"]) => Agree
      <4>1. i = 3 \/ (i = 11 /\ ~ applied["worker"]) =>
              i \in 2..11 /\ ~ (applied["worker"] /\ i >= 10)
        OBVIOUS
      <4> QED BY <1>1, <2>1, <4>1, Exhausted
    <3> QED BY <3>1, StillKeeps
  <2>6. 1 <= Len(g) /\ Voices(g[1]) => Agree'
    BY <2>1, <2>5
  <2>7. i + 1 \in 2..11 => Agree'
    BY <2>1, <2>5
  <2>8. i + 1 # 9
    BY <2>1
  <2> QED BY <1>1, <2>1, <2>2, <2>3, <2>6, <2>7, <2>8, Settled
<1> QED BY <1>1, Onwards

LEMMA DocksDo ==
  ASSUME NEW g \in Seq(Docks)
  PROVE  \A k \in 1..Len(g) : g[k].do \in DockDos
BY DEF Docks, DockDos

LEMMA LastIsOne ==
  ASSUME NEW w \in Seq(Steps), NEW x \in Seq(Steps), Len(x) = 1, NEW k \in 1..Len(w \o x)
  PROVE  (w \o x)[k] = x[1] \/ (k \in 1..Len(w) /\ (w \o x)[k] = w[k])
<1>0. Len(w \o x) = Len(w) + Len(x) /\ Len(w) \in Nat
  BY ConcatProperties, LenProperties
<1>1. Len(w \o x) = Len(w) + 1 /\ Len(w) \in Nat
  BY <1>0
<1>2. k \in 1..Len(w) \/ k = Len(w) + 1
  BY <1>1
<1>3. k \in 1..Len(w) => (w \o x)[k] = w[k]
  OBVIOUS
<1>4. k = Len(w) + 1 => (w \o x)[k] = x[1]
  <2>1. (w \o x)[Len(w) + 1] = x[1]
    BY <1>1
  <2> QED BY <2>1
<1> QED BY <1>2, <1>3, <1>4

\* A boot falls back to the last known good configuration.
LEMMA StandsFallBack ==
  ASSUME Typed, Cured, NEW f, NEW j, NEW p, NEW i, NEW e, NEW n,
         Standing(f, j, p, i, e, n), j > Len(f), i <= Len(p), FallBack("worker"), ~ lost'
  PROVE  Stands'
<1>1. /\ p[i].do = "fall_back" /\ UNCHANGED <<box, disk, state, applied>>
      /\ p[i].do # "restart_agent" /\ todo["worker"] # <<>> /\ i \in Nat
      /\ (p = Booting => i = 11) /\ (p # Booting => p \in Doom)
  <2>1. p[i].do = "fall_back" /\ UNCHANGED <<box, disk, state, applied>> /\ i \in Nat
    BY Placed, Reading DEF FallBack, files, others, update
  <2>2. p = Booting => i = 11
    BY <2>1, Placed DEF Place
  <2> QED BY <2>1, <2>2, Placed
<1>2. \A g : Then("worker", g) => Still
  BY <1>1 DEF Then, Still, Typed, Listed, Threads
<1>3. CASE applied["worker"] \/ lkg = "none"
  <2>1. Done("worker")
    BY <1>3 DEF FallBack, Done
  <2> QED BY <1>1, <1>2, <2>1, StandsIdle DEF Done
<1>4. CASE ~ (applied["worker"] \/ lkg = "none")
  <2>1. PICK d \in Engines : d = state.engine
    BY DEF Typed, TypeOK, States
  <2>2. PICK c \in Files : c = lkg
    BY DEF Typed, TypeOK, Files, Configs
  <2> DEFINE w == <<Step("write", d, c)>> \o DockerRestart(d)
             x == <<On("see", d)>>
             g == w \o x
  <2>3. Then("worker", g)
    <3>1. \E found : /\ View(found)
                     /\ Then("worker", <<Step("write", found.engine, lkg)>>
                                         \o DockerRestart(found.engine)
                                         \o <<On("see", found.engine)>>)
      BY <1>4, Zenon DEF FallBack
    <3>2. \A found : View(found) => found = state
      BY Zenon DEF View
    <3>3. Then("worker", <<Step("write", d, c)>> \o DockerRestart(d) \o <<On("see", d)>>)
      BY <2>1, <2>2, <3>1, <3>2, Zenon
    <3> QED BY <3>3, Zenon
  <2>4. Afters(x, d) /\ Len(x) = 1 /\ x[1].do = "see" /\ x \in Seq(Steps)
    <3>1. On("see", d) \in Steps /\ On("see", d).do = "see" /\ On("see", d).engine = d
      BY SMT DEF On, Step, Steps, Deeds, Guarded, Decides, Verifies, Late, Files
    <3> DEFINE s == On("see", d)
    <3> HIDE DEF s
    <3>2. s \in Steps /\ s.do = "see" /\ s.engine = d
      BY <3>1 DEF s
    <3>3. /\ <<s>> \in Seq(Steps) /\ Len(<<s>>) = 1 /\ <<s>>[1] = s
          /\ \A k \in 1..1 : <<s>>[k] = s
      BY <3>2
    <3>4. Afters(<<s>>, d)
      BY <3>2, <3>3 DEF Afters
    <3> QED BY <3>2, <3>3, <3>4 DEF s
  <2>5. Turn(g, d, 0)
    BY <2>4, WrittenTurns, DockedIs
  <2>6. w \in Seq(Docks) /\ w \in Seq(Steps)
    <3>1. w \in Seq(Docks)
      BY RestartDocks
    <3> QED BY <3>1, RestartDocks
  <2>7. ASSUME NEW k \in 1..Len(g)
        PROVE  g[k].do \in DockDos \cup {"see"}
    <3> HIDE DEF w, x
    <3>1. g[k] = x[1] \/ (k \in 1..Len(w) /\ g[k] = w[k])
      <4>1. w \in Seq(Steps) /\ x \in Seq(Steps) /\ Len(x) = 1
        BY <2>4, <2>6
      <4> QED BY <4>1, LastIsOne
    <3>2. k \in 1..Len(w) => w[k].do \in DockDos
      BY <2>6, DocksDo
    <3> QED BY <2>4, <3>1, <3>2
  <2> HIDE DEF g
  <2>8. Still
    BY <1>2, <2>3
  <2> QED BY <1>1, <1>4, <2>1, <2>3, <2>5, <2>7, <2>8, StandsDocked
<1> QED BY <1>3, <1>4

\* The engine the state names is started as it is.
LEMMA StandsDefaults ==
  ASSUME Typed, Cured, NEW f, NEW j, NEW p, NEW i, NEW e, NEW n,
         Standing(f, j, p, i, e, n), j > Len(f), i <= Len(p), StartDefaults("worker"), ~ lost'
  PROVE  Stands'
<1>1. /\ p[i].do \in {"ensure_defaults", "defaults_if_failed"}
      /\ UNCHANGED <<box, state, applied>>
      /\ p[i].do # "restart_agent" /\ todo["worker"] # <<>> /\ i \in Nat
      /\ (p = Booting => i \in {3, 12}) /\ (p # Booting => p \in Doom)
  <2>1. /\ p[i].do \in {"ensure_defaults", "defaults_if_failed"}
        /\ UNCHANGED <<box, state, applied>> /\ i \in Nat
    BY Placed, Reading DEF StartDefaults, local, update
  <2>2. p = Booting => i \in {3, 12}
    BY <2>1, Placed DEF Place
  <2> QED BY <2>1, <2>2, Placed
<1>2. disk["xray"] = "dummy" => disk'["xray"] = "dummy"
  BY DEF StartDefaults, Engines
<1>3. \A g : Then("worker", g) => Still
  BY <1>1, <1>2 DEF Then, Still, Typed, Listed, Threads
<1>4. CASE ~ (Does("worker", "ensure_defaults") \/ ~ applied["worker"])
  <2>1. Done("worker")
    <3>1. \E found : Then("worker", <<>>) /\ View(found)
      BY <1>4, Zenon DEF StartDefaults
    <3> QED BY <3>1 DEF Done
  <2>2. p = Booting => i > 1 /\ i # 9 /\ i # 8
    BY <1>1
  <2> QED BY <1>1, <1>3, <2>1, <2>2, StandsIdle DEF Done
<1>5. CASE Does("worker", "ensure_defaults") \/ ~ applied["worker"]
  <2>1. PICK d \in Engines : d = state.engine
    BY DEF Typed, TypeOK, States
  <2> DEFINE g == EnsureDefaults(d)
  <2>2. Then("worker", g)
    <3>1. \E found : Then("worker", EnsureDefaults(found.engine)) /\ View(found)
      BY <1>5, Zenon DEF StartDefaults
    <3>2. \A found : View(found) => found = state
      BY Zenon DEF View
    <3> QED BY <2>1, <3>1, <3>2, Zenon
  <2>3. g \in Seq(Docks) /\ g \in Seq(Steps) /\ Docked(g, d)
    <3>1. "none" \in Files
      BY DEF Files
    <3>2. g \in Seq(Docks)
      BY <3>1, RestartDocks
    <3>3. Seq(Docks) \subseteq Seq(Steps)
      BY <3>1, RestartDocks
    <3> QED BY <3>2, <3>3, DockedIs
  <2> HIDE DEF g
  <2>4. Turn(g, d, 0) /\ \A k \in 1..Len(g) : ~ Voices(g[k])
    <3>1. Afters(<<>>, d)
      BY NothingIs DEF Afters
    <3>2. g \o <<>> = g
      BY <2>3
    <3> QED BY <2>3, <3>1, <3>2, DockedTurns
  <2>5. \A k \in 1..Len(g) : g[k].do \in DockDos
    BY <2>3, DocksDo
  <2>6. Lacks(g, {"see"})
    BY <2>5 DEF Lacks, DockDos
  <2>7. ~ (1 <= Len(g) /\ Voices(g[1]))
    <3>1. Len(g) \in Nat
      BY <2>3
    <3>2. 1 <= Len(g) => 1 \in 1..Len(g)
      BY <3>1
    <3> QED BY <2>4, <3>2
  <2>8. Still
    BY <1>3, <2>2
  <2>9. p = Booting => /\ i \in {3, 11, 12}
                       /\ Lacks(g, {"see"}) \/ (i = 11 /\ ~ applied["worker"])
                       /\ 1 <= Len(g) /\ Voices(g[1]) => i = 11 /\ ~ applied["worker"]
    <3>1. ASSUME p = Booting PROVE i \in {3, 11, 12}
      BY <1>1, <3>1
    <3>2. (1 <= Len(g) /\ Voices(g[1])) => i = 11 /\ ~ applied["worker"]
      BY <2>7, Zenon
    <3> QED BY <2>6, <3>1, <3>2, Zenon
  <2>10. \A k \in 1..Len(g) : g[k].do \in DockDos \cup {"see"}
    BY <2>5
  <2> QED BY <1>1, <2>1, <2>2, <2>4, <2>8, <2>9, <2>10, StandsDocked
<1> QED BY <1>4, <1>5

-----------------------------------------------------------------------------
(* Beside the worker. *)

\* Who runs has a step to do.
LEMMA RunsOne ==
  ASSUME NEW t \in Threads, Run(t)
  PROVE  todo[t] # <<>> /\ \A do : Does(t, do) => todo[t][1].do = do
<1>1. \E do : Does(t, do)
  BY Zenon
     DEF Run, LockEngine, LockFile, UnlockFile, UnlockEngine, StopContainer, RunContainer,
         FailDocker, WriteConfig, LoadState, SaveEngine, SaveServer, SaveRollback, Verify,
         VerifyOrRollBack, Fetch, Load, ApplyNew, ApplyCurrent, ChangeEngine, AppliedAnyway,
         AlreadyApplied, SaveLoaded, Choose, KeepServer, FallBack, SeeFallBack,
         StartDefaults, Clean, RestartAfterUpdate, StartThreads
<1> QED BY <1>1 DEF Does

\* The worker's list stays as it is.
LEMMA StandsBeside ==
  ASSUME Typed, NEW f, NEW j, NEW p, NEW i, NEW e, NEW n, Standing(f, j, p, i, e, n),
         todo'["worker"] = todo["worker"], UNCHANGED <<state, loaded, applied>>,
         disk["xray"] = "dummy" => disk'["xray"] = "dummy",
         Silent => Silent', Safe => Safe',
         Off /\ lock = "worker" => Off', lock = "worker" => lock' = "worker",
         p \notin Doom /\ Ready(todo["health"], 1) => Ready(todo["health"], 1)',
         p \notin Doom /\ Agree => Agree',
         p = Booting /\ i <= 4 /\ todo["health"] = <<>> => todo'["health"] = <<>>
  PROVE  Standing(f, j, p, i, e, n)'
<1>1. ASSUME p \notin Doom PROVE Live(f, j, p, i, e, n)'
  <2>1. Live(f, j, p, i, e, n) /\ Turn(f, e, n)
    BY <1>1 DEF Standing
  <2>2. /\ f \in Seq(Steps) /\ Len(f) \in Nat /\ j \in 1..(Len(f) + 1)
        /\ n \in {0, 8, 9, 12, 13}
    BY <2>1 DEF Standing, Turn
  <2>3. Ready(f, j)'
    <3>1. ASSUME NEW m \in j..Len(f), Sings(f[m])
          PROVE  /\ m - j <= 3 => disk'["xray"] = "dummy"
                 /\ m - j <= 1 => ~ Listens("xray")'
      <4>1. /\ m - j <= 3 => disk["xray"] = "dummy"
            /\ m - j <= 1 => ~ Listens("xray")
        BY <2>1, <3>1 DEF Live, Ready
      <4>2. m - j <= 1 => m - j <= 3
        BY <2>2
      <4>3. m - j <= 1 => Silent'
        BY <4>1, <4>2 DEF Silent
      <4> QED BY <4>1, <4>3 DEF Silent
    <3> QED BY <3>1 DEF Ready, Listens
  <2>4. e = "xray" /\ n > 0 /\ j \in 5..n => Off'
    <3>1. ASSUME n > 0, j \in 5..n PROVE lock = "worker"
      <4>1. PICK u \in (n + 1)..Len(f) : f[u].do = "unlock"
        BY <2>1, <3>1 DEF Turn
      <4>2. u \in j..Len(f) /\ j >= 3
        BY <2>2, <3>1
      <4> QED BY <2>1, <4>1, <4>2 DEF Live
    <3> QED BY <2>1, <3>1 DEF Live
  <2>5. p = Booting => InBoot(f, i, e)'
    <3>1. ASSUME p = Booting PROVE InBoot(f, i, e)'
      <4>1. InBoot(f, i, e)
        BY <2>1, <3>1 DEF Live
      <4> QED BY <3>1, <4>1 DEF InBoot
    <3> QED BY <3>1
  <2>6. Calm(f, j, p, i, n)' => Agree'
    <3>1. Calm(f, j, p, i, n)' => Calm(f, j, p, i, n)
      BY DEF Calm
    <3> QED BY <1>1, <2>1, <3>1 DEF Live
  <2> QED BY <1>1, <2>1, <2>3, <2>4, <2>5, <2>6 DEF Live
<1> QED BY <1>1 DEF Standing

\* The watchdog starts a container.
LEMMA StandsCures ==
  ASSUME Typed, Held, Cured, NEW f, NEW j, NEW p, NEW i, NEW e, NEW n,
         Standing(f, j, p, i, e, n), Run("health"), ~ failed'
  PROVE  Stands'
<1>0. PICK h : h = todo["health"]
  OBVIOUS
<1> DEFINE a == h[1]
<1>1. /\ h # <<>> /\ a = Now("health") /\ \A do : Does("health", do) => a.do = do
      /\ "health" \in Threads
  <2>1. "health" \in Threads
    BY DEF Threads
  <2> QED BY <1>0, <2>1, RunsOne DEF Now
<1>2. a.do \in {"check", "unlock", "write", "stop", "start", "restart"} /\ a \in Steps
  BY <1>0, <1>1, Heads DEF Cures, Near
<1>3. \/ UnlockEngine("health") \/ StopContainer("health") \/ RunContainer("health")
      \/ WriteConfig("health")
  <2>1. /\ ~ Does("health", "lock") /\ ~ Does("health", "flock") /\ ~ Does("health", "funlock")
        /\ \A do \in Loads : ~ Does("health", do)
        /\ ~ Does("health", "save_engine") /\ ~ Does("health", "load")
        /\ ~ Does("health", "save_manual") /\ ~ Does("health", "save_smart")
        /\ ~ Does("health", "save_rollback") /\ ~ Does("health", "verify")
        /\ ~ Does("health", "verify_or_roll_back") /\ ~ Does("health", "fetch")
        /\ ~ Does("health", "apply_new") /\ ~ Does("health", "apply_current")
        /\ ~ Does("health", "applied_anyway") /\ ~ Does("health", "save_loaded")
        /\ ~ Does("health", "choose") /\ ~ Does("health", "reselect")
        /\ ~ Does("health", "reselect_if_applied") /\ ~ Does("health", "keep")
        /\ ~ Does("health", "fall_back") /\ ~ Does("health", "see")
        /\ ~ Does("health", "ensure_defaults") /\ ~ Does("health", "defaults_if_failed")
        /\ ~ Does("health", "clean") /\ ~ Does("health", "restart_agent")
        /\ ~ Does("health", "threads")
    BY <1>1, <1>2 DEF Loads
  <2>2. ~ FailDocker("health")
    BY DEF FailDocker
  <2>3. /\ ~ LockEngine("health") /\ ~ LockFile("health") /\ ~ UnlockFile("health")
        /\ ~ LoadState("health") /\ ~ SaveEngine("health") /\ ~ SaveServer("health")
        /\ ~ SaveRollback("health") /\ ~ Verify("health")
        /\ ~ VerifyOrRollBack("health") /\ ~ SeeFallBack("health")
        /\ ~ KeepServer("health") /\ ~ AppliedAnyway("health")
    BY <2>1, Zenon
       DEF LockEngine, LockFile, UnlockFile, LoadState, SaveEngine, SaveServer,
           SaveRollback, Verify, VerifyOrRollBack, SeeFallBack, KeepServer, AppliedAnyway
  <2>4. /\ ~ Fetch("health") /\ ~ Load("health") /\ ~ ApplyNew("health")
        /\ ~ ApplyCurrent("health") /\ ~ ChangeEngine("health")
        /\ ~ AlreadyApplied("health") /\ ~ SaveLoaded("health") /\ ~ Choose("health")
        /\ ~ FallBack("health") /\ ~ StartDefaults("health") /\ ~ Clean("health")
        /\ ~ RestartAfterUpdate("health") /\ ~ StartThreads("health")
    BY <2>1, Zenon
       DEF Fetch, Load, ApplyNew, ApplyCurrent, ChangeEngine, AlreadyApplied, SaveLoaded,
           Choose, FallBack, StartDefaults, Clean, RestartAfterUpdate, StartThreads
  <2> QED BY <2>2, <2>3, <2>4 DEF Run
<1>4. Works(a) /\ Done("health") /\ UNCHANGED <<state, loaded, applied>>
  <2>1. CASE UnlockEngine("health")
    <3>1. a.do = "unlock" /\ UNCHANGED <<box, disk>>
      BY <1>1, <2>1 DEF UnlockEngine, files, others
    <3> QED BY <2>1, <3>1 DEF UnlockEngine, Works, DockDos, files, local, update
  <2>2. CASE StopContainer("health")
    BY <1>1, <2>2 DEF StopContainer, Works, files, others, local, update
  <2>3. CASE RunContainer("health")
    <3>1. /\ a.do \in {"start", "restart"} /\ UNCHANGED <<disk, state, loaded, applied>>
          /\ box' \in {box, Up(a.engine), Down(a.engine, "crashed")}
      BY <1>1, <1>2, <2>3 DEF RunContainer, files, others, local, update
    <3> QED BY <2>3, <3>1 DEF RunContainer, Works
  <2>4. CASE WriteConfig("health")
    <3>1. a.do = "write" /\ disk' = [disk EXCEPT ![a.engine] = a.config] /\ UNCHANGED box
      BY <1>1, <2>4 DEF WriteConfig
    <3> QED BY <2>4, <3>1 DEF WriteConfig, Works, local, update
  <2> QED BY <1>3, <2>1, <2>2, <2>3, <2>4
<1>5. /\ todo'["worker"] = todo["worker"] /\ todo'["health"] = Tail(h)
      /\ h \in Seq(Steps) /\ 1 \in 1..Len(h) /\ Len(h) \in Nat
  <2>1. h \in Seq(Steps)
    BY <1>0, <1>1 DEF Typed, Listed
  <2>2. 1 \in 1..Len(h) /\ Len(h) \in Nat
    BY <1>1, <2>1
  <2>3. todo'["worker"] = todo["worker"] /\ todo'["health"] = Tail(h)
    BY <1>0, <1>1, <1>4, Passed DEF Typed, Listed, Threads
  <2> QED BY <2>1, <2>2, <2>3
<1>6. Muted(h) /\ ~ Voices(a) /\ \A k \in 1..Len(h) : ~ Voices(h[k])
  BY <1>0, <1>5 DEF Cured
<1>7. lock = "health"
  BY <1>0, <1>1 DEF Held
<1> HIDE DEF a
<1>8. Muted(Tail(h)) /\ (Ready(h, 2)' => Ready(Tail(h), 1)')
  BY <1>1, <1>5, <1>6, MutedTail
<1>9. \A k \in 1..Len(Tail(h)) : k + 1 \in 1..Len(h) /\ Tail(h)[k] = h[k + 1]
  BY <1>1, <1>5, TailIs
<1>10. Cured'
  BY <1>5, <1>6, <1>8, <1>9 DEF Cured
<1>11. /\ disk["xray"] = "dummy" => disk'["xray"] = "dummy"
       /\ Silent => Silent'
       /\ Off /\ ~ Sings(a) => Off'
  BY <1>2, <1>4, <1>6, Worked
<1>12. p \notin Doom => Ready(h, 1)
  BY <1>0 DEF Standing, Live
<1>13. Ready(h, 1) => Ready(todo["health"], 1)'
  <2>1. ASSUME Ready(h, 1) PROVE Ready(todo["health"], 1)'
    <3>1. Works(h[1])
      BY <1>4 DEF a
    <3>2. Ready(h, 1 + 1)'
      BY <1>5, <1>6, <2>1, <3>1, ReadyOnwards
    <3>3. Ready(Tail(h), 1)'
      <4>1. 1 + 1 = 2
        OBVIOUS
      <4> QED BY <1>8, <3>2, <4>1
    <3> QED BY <1>5, <3>3 DEF Ready
  <2> QED BY <2>1
<1>14. Sings(a) /\ Ready(h, 1) => Silent
  <2>1. ASSUME Sings(a), Ready(h, 1) PROVE Silent
    <3>1. Sings(h[1]) /\ 1 \in 1..Len(h)
      BY <1>5, <2>1 DEF a
    <3>2. 1 - 1 <= 3 /\ 1 - 1 <= 1
      OBVIOUS
    <3> QED BY <2>1, <3>1, <3>2 DEF Ready, Silent
  <2> QED BY <2>1
<1>15. Agree => Agree'
  <2>1. ASSUME Agree, state.engine = "xray" PROVE Off' /\ ~ HealthSings'
    <3>1. Off /\ ~ HealthSings
      BY <2>1 DEF Agree
    <3>2. \A k \in 1..Len(h) : ~ Sings(h[k])
      BY <1>0, <3>1 DEF HealthSings
    <3>3. ~ Sings(a)
      BY <1>5, <3>2 DEF a
    <3>4. \A k \in 1..Len(Tail(h)) : ~ Sings(Tail(h)[k])
      BY <1>9, <3>2
    <3> QED BY <1>5, <1>11, <3>1, <3>3, <3>4 DEF HealthSings
  <2> QED BY <1>4, <2>1 DEF Agree
<1>16. p \notin Doom => (Safe => Safe')
  BY <1>11, <1>12, <1>14 DEF Safe
<1>17. CASE p \notin Doom
  <2>1. todo["health"] # <<>>
    BY <1>0, <1>1
  <2>2. Standing(f, j, p, i, e, n)'
    BY <1>0, <1>4, <1>5, <1>7, <1>11, <1>12, <1>13, <1>15, <1>16, <1>17, <2>1, StandsBeside
  <2> QED BY <1>10, <2>2 DEF Stands
<1>18. CASE p \in Doom
  <2>1. Standing(f, j, p, i, e, n)'
    BY <1>5, <1>18 DEF Standing
  <2> QED BY <1>10, <2>1 DEF Stands
<1> QED BY <1>17, <1>18

\* The watchdog's decision.
LEMMA StandsCheck ==
  ASSUME Typed, Held, Watching, Cured, NEW f, NEW j, NEW p, NEW i, NEW e, NEW n,
         Standing(f, j, p, i, e, n), HealthCheck, ~ lost'
  PROVE  Stands'
<1>1. PICK h : h = todo["health"]
  OBVIOUS
<1>2. PICK d0 \in Engines : d0 = state.engine
  BY DEF Typed, TypeOK, States
<1>3. /\ h # <<>> /\ h[1].do = "check" /\ h \in Seq(Steps)
      /\ UNCHANGED <<box, disk, state, loaded, applied, lock>>
  BY <1>1 DEF HealthCheck, Does, files, others, locks, local, update, Typed, Listed, Threads
<1>4. Tail(h) = <<>>
  <2>1. Len(h) \in Nat \ {0} /\ 1 \in 1..Len(h)
    BY <1>3
  <2>2. 1 = Len(h)
    BY <1>1, <1>3, <2>1 DEF Watching
  <2>3. Tail(h) \in Seq(Steps) /\ Len(Tail(h)) = 0
    BY <1>3, <2>2, TailIs
  <2> QED BY <2>3, EmptySeq
<1>5. PICK x, d :
        /\ d \in Engines /\ Docked(x, d) /\ (d = "singbox" => d0 = "singbox")
        /\ Then("health", x \o <<Simply("unlock")>>)
  <2>1. PICK restart \in BOOLEAN :
          Then("health", (IF restart THEN DockerRestart(d0) ELSE <<>>) \o <<Simply("unlock")>>)
    <3>1. \E found : \E restart \in BOOLEAN :
            /\ View(found)
            /\ Then("health", (IF restart THEN DockerRestart(found.engine) ELSE <<>>)
                               \o <<Simply("unlock")>>)
      BY Zenon DEF HealthCheck
    <3>2. \A found : View(found) => found = state
      BY Zenon DEF View
    <3> QED BY <1>2, <3>1, <3>2, Zenon
  <2>2. CASE restart
    BY <2>1, <2>2, DockedIs
  <2>3. CASE ~ restart
    <3>1. "xray" \in Engines /\ Docked(<<>>, "xray")
      BY NothingIs DEF Docked, Engines
    <3> QED BY <2>1, <2>3, <3>1
  <2> QED BY <2>2, <2>3
<1> DEFINE y == <<Simply("unlock")>>
<1>6. Afters(y, d) /\ y \in Seq(Steps)
  <2>1. Simply("unlock") \in Steps /\ Simply("unlock").do = "unlock"
    BY SMT DEF Simply, Step, Steps, Deeds, Guarded, Decides, Verifies, Late, Engines, Files
  <2>2. y \in Seq(Steps) /\ Len(y) = 1 /\ \A k \in 1..Len(y) : y[k].do = "unlock"
    BY <2>1
  <2> HIDE DEF y
  <2>3. \A k, l \in 1..Len(y) : k = l
    BY <2>2
  <2> QED BY <2>2, <2>3 DEF Afters
<1> HIDE DEF y
<1>7. PICK z : z = x \o y
  OBVIOUS
<1>8. /\ Turn(z, d, 0) /\ \A k \in 1..Len(z) : ~ Voices(z[k])
  BY <1>5, <1>6, <1>7, DockedTurns
<1>9. z \in Seq(Steps) /\ Len(z) \in Nat /\ Muted(z)
  BY <1>8 DEF Turn
<1>10. todo'["worker"] = todo["worker"] /\ todo'["health"] = z
  <2>1. todo' = [todo EXCEPT !["health"] = z \o Tail(h)]
    BY <1>1, <1>5, <1>7 DEF Then, y
  <2>2. z \o <<>> = z
    BY <1>9
  <2> QED BY <1>4, <2>1, <2>2 DEF Typed, Listed, Threads
<1>11. \A k \in 1..Len(z) : Sings(z[k]) => k >= 5 /\ d = "singbox"
  BY <1>8 DEF Turn
<1>12. Cured'
  BY <1>8, <1>9, <1>10 DEF Cured
<1>13. Ready(todo["health"], 1)'
  <2>1. \A m \in 1..Len(z) : Sings(z[m]) => ~ (m - 1 <= 3) /\ ~ (m - 1 <= 1)
    BY <1>9, <1>11
  <2> QED BY <1>10, <2>1 DEF Ready
<1>14. Agree => Agree'
  <2>1. ASSUME Agree, state.engine = "xray" PROVE Off' /\ ~ HealthSings'
    <3>1. Off'
      BY <1>3, <2>1 DEF Agree, Off
    <3>2. d # "singbox"
      BY <1>2, <1>5, <2>1
    <3> QED BY <1>10, <1>11, <3>1, <3>2 DEF HealthSings
  <2> QED BY <1>3, <2>1 DEF Agree
<1>15. (Off => Off') /\ (Silent => Silent')
  BY <1>3 DEF Off, Silent, Listens
<1>16. Safe => Safe'
  BY <1>15 DEF Safe
<1>17. todo["health"] # <<>>
  BY <1>1, <1>3
<1>18. Standing(f, j, p, i, e, n)'
  BY <1>3, <1>10, <1>13, <1>14, <1>15, <1>16, <1>17, StandsBeside
<1> QED BY <1>12, <1>18 DEF Stands

\* It begins its cycle once the worker has brought it up.
LEMMA StandsTryLock ==
  ASSUME Typed, Cured, NEW f, NEW j, NEW p, NEW i, NEW e, NEW n,
         Standing(f, j, p, i, e, n), HealthTryLock
  PROVE  Stands'
<1>1. /\ todo["health"] = <<>> /\ Started /\ lock # "worker"
      /\ UNCHANGED <<box, disk, state, loaded, applied>>
      /\ todo' = [todo EXCEPT !["health"] = <<Simply("check")>>]
  BY DEF HealthTryLock, files, others, local, update
<1> DEFINE z == <<Simply("check")>>
<1>2. todo'["worker"] = todo["worker"] /\ todo'["health"] = z
  BY <1>1 DEF Typed, Listed, Threads
<1>3. /\ Len(z) = 1
      /\ \A k \in 1..Len(z) : ~ Sings(z[k]) /\ ~ Voices(z[k])
  BY DEF Simply, Step, Sings, Voices
<1> HIDE DEF z
<1>4. Cured' /\ Ready(todo["health"], 1)' /\ ~ HealthSings'
  BY <1>2, <1>3 DEF Cured, Muted, Ready, HealthSings
<1>5. (Off => Off') /\ (Silent => Silent') /\ (Agree => Agree')
  BY <1>1, <1>4 DEF Off, Silent, Listens, Agree
<1>6. Safe => Safe'
  BY <1>5 DEF Safe
<1>7. ~ (p = Booting /\ i <= 4)
  <2>1. ASSUME p = Booting, i <= 4 PROVE FALSE
    <3>1. /\ Len(p) = 12 /\ p[4].do = "threads" /\ p \in Seq(Steps)
      <4>1. Boots(4, Booting[4]) /\ Len(Booting) = 12 /\ Booting \in Seq(Steps)
        BY BootingIs
      <4> QED BY <2>1, <4>1 DEF Boots
    <3>2. /\ f \in Seq(Steps) /\ j \in 1..(Len(f) + 1) /\ i \in Nat \ {0} /\ Len(f) \in Nat
      BY Reading DEF Standing
    <3>3. PICK x, y : x = Rest(f, j) /\ y = Rest(p, i)
      OBVIOUS
    <3>4. x \in Seq(Steps) /\ Len(x) \in Nat
      <4>1. x \in Seq(Steps)
        BY <3>2, <3>3, RestEnds
      <4> QED BY <4>1
    <3>5. y \in Seq(Steps) /\ Len(y) = 12 - i + 1 /\ y[4 - i + 1] = p[4]
      <4>1. p \in Seq(Steps) /\ i \in 1..Len(p) /\ 4 \in i..Len(p)
        BY <2>1, <3>1, <3>2
      <4>2. /\ Rest(p, i) \in Seq(Steps) /\ Len(Rest(p, i)) = Len(p) - i + 1
            /\ Rest(p, i)[4 - i + 1] = p[4]
        BY <4>1, RestAt
      <4> QED BY <3>1, <3>3, <4>2
    <3>6. PICK k : k = Len(x) + (4 - i + 1)
      OBVIOUS
    <3>7. /\ k \in (Len(x) + 1)..(Len(x) + Len(y)) /\ k - Len(x) = 4 - i + 1
      BY <2>1, <3>2, <3>4, <3>5, <3>6
    <3>8. Len(x \o y) = Len(x) + Len(y) /\ (x \o y)[k] = y[k - Len(x)]
      BY <3>4, <3>5, <3>7, Joined
    <3>9. k \in 1..Len(x \o y) /\ (x \o y)[k].do = "threads"
      BY <3>1, <3>4, <3>5, <3>7, <3>8
    <3>10. todo["worker"] = x \o y
      BY <3>3 DEF Standing, Stack
    <3> QED BY <1>1, <3>9, <3>10 DEF Started
  <2> QED BY <2>1
<1>8. Standing(f, j, p, i, e, n)'
  BY <1>1, <1>2, <1>4, <1>5, <1>6, <1>7, StandsBeside
<1> QED BY <1>4, <1>8 DEF Stands

\* Docker by itself.
LEMMA StandsDocker ==
  ASSUME Typed, Cured, NEW f, NEW j, NEW p, NEW i, NEW e, NEW n,
         Standing(f, j, p, i, e, n), NEW x \in Engines, CrashContainer(x) \/ Revive(x)
  PROVE  Stands'
<1>1. PICK h : h = todo["health"]
  OBVIOUS
<1>2. /\ UNCHANGED <<todo, lock, disk, state, loaded, applied>>
      /\ box' = Down(x, "crashed") \/ box' = Up(x)
      /\ Off => x = "xray"
  <2>1. Off /\ CrashContainer(x) => x = "xray"
    BY PortsKeep DEF Off, CrashContainer, Running, Engines
  <2>2. Off /\ Revive(x) => x = "xray"
    BY DEF Off, Revive, Engines
  <2> QED BY <2>1, <2>2 DEF CrashContainer, Revive, files, others, locks, local, update
<1>3. Off => Off'
  BY <1>2, PortsKeep DEF Off
<1>4. Silent => Silent'
  <2>1. CASE x = "xray"
    <3>1. Silent => box'["xray"] \in {"dummy", "crashed"}
      BY <1>2, <2>1, PortsKeep DEF Silent
    <3> QED BY <1>2, <3>1, PortsKeep DEF Silent, Listens
  <2>2. CASE x = "singbox"
    <3>1. box'["xray"] = box["xray"]
      BY <1>2, <2>2, PortsKeep
    <3> QED BY <1>2, <3>1 DEF Silent, Listens
  <2> QED BY <2>1, <2>2 DEF Engines
<1>5. Safe => Safe'
  BY <1>3, <1>4 DEF Safe
<1>6. Agree => Agree'
  <2>1. HealthSings' => HealthSings
    BY <1>2 DEF HealthSings
  <2> QED BY <1>2, <1>3, <2>1 DEF Agree
<1>7. Ready(h, 1) => Ready(h, 1)'
  <2>1. ASSUME Ready(h, 1), NEW m \in 1..Len(h), Sings(h[m])
        PROVE  /\ m - 1 <= 3 => disk'["xray"] = "dummy"
               /\ m - 1 <= 1 => ~ Listens("xray")'
    <3>1. /\ m - 1 <= 3 => disk["xray"] = "dummy"
          /\ m - 1 <= 1 => ~ Listens("xray")
      BY <2>1 DEF Ready
    <3>2. m - 1 <= 1 => m - 1 <= 3
      OBVIOUS
    <3>3. m - 1 <= 1 => Silent
      BY <3>1, <3>2 DEF Silent
    <3> QED BY <1>2, <1>4, <3>1, <3>3 DEF Silent
  <2> QED BY <2>1 DEF Ready, Listens
<1>8. Ready(todo["health"], 1) => Ready(todo["health"], 1)'
  <2>1. Ready(todo["health"], 1) => Ready(h, 1)
    BY <1>1
  <2>2. Ready(h, 1)' => Ready(todo["health"], 1)'
    BY <1>1, <1>2 DEF Ready
  <2> QED BY <1>7, <2>1, <2>2
<1>9. Cured'
  BY <1>2 DEF Cured
<1>10. /\ todo'["worker"] = todo["worker"] /\ todo'["health"] = todo["health"]
       /\ lock' = lock /\ (disk["xray"] = "dummy" => disk'["xray"] = "dummy")
       /\ UNCHANGED <<state, loaded, applied>>
  BY <1>2
<1>11. Standing(f, j, p, i, e, n)'
  BY <1>3, <1>4, <1>5, <1>6, <1>8, <1>10, StandsBeside
<1> QED BY <1>9, <1>11 DEF Stands

-----------------------------------------------------------------------------
(* The worker begins. *)

\* The agent starts, and has stopped neither container yet.
LEMMA StandsAtStart ==
  /\ state \in States /\ todo["health"] = <<>> /\ todo["worker"] = Booting
  => Stands
<1> SUFFICES ASSUME state \in States, todo["health"] = <<>>, todo["worker"] = Booting
             PROVE  Stands
  OBVIOUS
<1>1. PICK d \in Engines : d = state.engine
  BY DEF States
<1>2. /\ Booting \in Programs /\ Booting \notin Doom /\ Booting \in Seq(Steps)
      /\ 1 \in 1..(Len(Booting) + 1) /\ 1 \in 1..(Len(<<>>) + 1)
      /\ Stack(<<>>, 1, Booting, 1) = Booting
  <2>1. Booting \in Seq(Steps) /\ 1 \in 1..(Len(Booting) + 1)
    BY BootingIs
  <2> QED BY <2>1, ProgramSteps, Plain
<1>3. Turn(<<>>, d, 0)
  BY ShortTurns
<1>4. Live(<<>>, 1, Booting, 1, d, 0)
  <2>1. ~ Calm(<<>>, 1, Booting, 1, 0)
    BY NothingIs DEF Calm
  <2>2. Ready(<<>>, 1) /\ Ready(todo["health"], 1)
    BY NothingIs DEF Ready
  <2>3. InBoot(<<>>, 1, d)
    BY NothingIs DEF InBoot
  <2>4. 1..Len(<<>>) = {} /\ ~ (1 <= Len(<<>>))
    BY NothingIs
  <2> QED BY <1>1, <2>1, <2>2, <2>3, <2>4 DEF Live
<1>5. Standing(<<>>, 1, Booting, 1, d, 0)
  BY <1>2, <1>3, <1>4 DEF Standing
<1>6. Cured
  BY NothingIs DEF Cured, Muted
<1> QED BY <1>5, <1>6 DEF Stands

LEMMA StandsInit == Init => Stands
<1>1. Init => /\ state \in States /\ todo["health"] = <<>> /\ todo["worker"] = Booting
  BY DEF Init, Blank, Threads, States, Engines, Booting
<1> QED BY <1>1, StandsAtStart

LEMMA StandsRestart ==
  ASSUME Typed, NEW incident \in BOOLEAN, RestartAgent(incident)
  PROVE  Stands'
<1>1. /\ state' \in States /\ todo'["health"] = <<>> /\ todo'["worker"] = Booting
  <2>1. state' \in {state} \cup {Blank : u \in {u \in Savers : Saving(u)}}
    BY DEF RestartAgent
  <2>2. state \in States /\ Blank \in States
    BY DEF Typed, TypeOK, Blank, States, Engines
  <2> QED BY <2>1, <2>2 DEF RestartAgent, Threads, Booting
<1>2. (state \in States /\ todo["health"] = <<>> /\ todo["worker"] = Booting)' => Stands'
  BY StandsAtStart, PTL
<1> QED BY <1>1, <1>2

\* The worker takes its next action.
LEMMA StandsBegin ==
  ASSUME Typed, Cured, NEW f, NEW j, NEW p, NEW i, NEW e, NEW n,
         Standing(f, j, p, i, e, n), Begin("worker")
  PROVE  Stands'
<1>1. cache \in Seq(Servers)
  BY ServersAssumption DEF Typed, TypeOK
<1>2. PICK g : /\ todo' = [todo EXCEPT !["worker"] = g]
               /\ \/ g = UpdateSubscription \o <<Simply("reselect")>>
                  \/ g = <<Simply("choose")>> \/ g = Refresh
                  \/ \E k \in 1..Len(cache) : g = SelectServer(cache[k], "save_manual")
                  \/ g = RestartBoth
  BY DEF Begin
<1>3. /\ todo'["worker"] = g /\ todo'["health"] = todo["health"]
      /\ UNCHANGED <<box, disk, state>> /\ todo["worker"] = <<>>
  BY <1>2 DEF Typed, Listed, Threads, Begin, files, others
<1>4. Still /\ Cured'
  BY <1>3 DEF Still, Cured
<1>5. j > Len(f) /\ i > Len(p) /\ p \notin Doom /\ ~ (p = Booting /\ i = 1)
  <2>1. j > Len(f) /\ i > Len(p)
    <3>1. ~ (j <= Len(f)) /\ ~ (j > Len(f) /\ i <= Len(p))
      BY <1>3, Reading
    <3>2. j \in Nat /\ i \in Nat /\ Len(f) \in Nat /\ Len(p) \in Nat
      BY Reading
    <3> QED BY <3>1, <3>2
  <2>2. p \notin Doom
    <3>1. p \in Doom => i <= Len(p)
      BY DEF Standing
    <3>2. i \in Nat /\ Len(p) \in Nat
      BY Reading
    <3> QED BY <2>1, <3>1, <3>2
  <2>3. Len(Booting) = 12
    BY BootingIs
  <2> QED BY <2>1, <2>2, <2>3
<1>6. Safe /\ Ready(todo["health"], 1)
  BY <1>5 DEF Standing, Live
<1>7. Safe' /\ Ready(todo["health"], 1)'
  BY <1>3, <1>4, <1>6, StillKeeps
<1>8. PICK d0 \in Engines : state'.engine = d0
  BY <1>3 DEF Typed, TypeOK, States
<1>9. ASSUME g \in Programs, g # Booting PROVE Stands'
  <2>1. g \in Seq(Steps) /\ Len(g) \in Nat
    BY <1>9, ProgramSteps
  <2>2. /\ Stack(<<>>, 1, g, 1) = g /\ 1 \in 1..(Len(<<>>) + 1) /\ 1 \in 1..(Len(g) + 1)
    <3>1. 1 \in 1..(Len(g) + 1)
      BY <2>1
    <3> QED BY <2>1, <3>1, Plain
  <2>3. Turn(<<>>, d0, 0)
    BY <1>8, ShortTurns
  <2>4. Live(<<>>, 1, g, 1, d0, 0)'
    BY <1>7, <1>8, <1>9, <2>3, Begun
  <2>5. g \in Doom => 1 <= Len(g)
    <3>1. PICK l : l = Len(g)
      OBVIOUS
    <3>2. g \in Doom => l \in {2, 9}
      BY <3>1, DoomIs
    <3>3. l \in {2, 9} => 1 <= l
      OBVIOUS
    <3> QED BY <3>1, <3>2, <3>3
  <2>6. Standing(<<>>, 1, g, 1, d0, 0)'
    BY <1>3, <1>9, <2>2, <2>3, <2>4, <2>5 DEF Standing
  <2> QED BY <1>4, <2>6 DEF Stands
<1>10. ASSUME NEW k \in 1..Len(cache), g = SelectServer(cache[k], "save_manual")
       PROVE  Stands'
  <2>1. PICK s \in Servers : s = cache[k]
    BY <1>1
  <2> DEFINE d == EngineOf(s)
             m == End(d, "verify")
             c == <<Simply("choose")>>
  <2>2. Turn(g, d, m) /\ m > 0
    BY <1>10, <2>1, PlaysFit
  <2>3. m = 0 => g = <<>> /\ state'.engine = d
    BY <2>2
  <2>4. g \in Seq(Steps) /\ Len(g) \in Nat /\ 1 \in 1..(Len(g) + 1)
    <3>1. g \in Seq(Steps)
      BY <2>2 DEF Turn
    <3> QED BY <3>1
  <2>5. /\ c \in Programs /\ c # Booting /\ c \notin Doom /\ 2 \in 1..(Len(c) + 1)
        /\ Stack(g, 1, c, 2) = g
    BY <2>4, NothingLeft
  <2> HIDE DEF c, d, m
  <2>6. Live(g, 1, c, 2, d, m)'
    BY <1>7, <2>2, <2>3, <2>5, Begun
  <2>7. Standing(g, 1, c, 2, d, m)'
    BY <1>3, <2>2, <2>4, <2>5, <2>6 DEF Standing
  <2> QED BY <1>4, <2>7 DEF Stands
<1>11. CASE g = UpdateSubscription \o <<Simply("reselect")>>
  <2>1. Len(g) = 6 /\ Len(Booting) = 12
    BY <1>11, BootingIs, SMT DEF UpdateSubscription
  <2>2. g \in Programs
    BY <1>11 DEF Programs
  <2>3. g # Booting
    <3>1. ASSUME g = Booting PROVE FALSE
      <4>1. Len(g) = Len(Booting)
        BY <3>1
      <4> QED BY <2>1, <4>1
    <3> QED BY <3>1
  <2> QED BY <1>9, <2>2, <2>3
<1>12. CASE g = <<Simply("choose")>>
  <2> DEFINE c == <<Simply("choose")>>
  <2>1. c \in Programs /\ c # Booting
    BY NothingLeft
  <2>2. g = c
    BY <1>12
  <2>3. g \in Programs /\ g # Booting
    BY <2>1, <2>2
  <2> QED BY <1>9, <2>3
<1>13. CASE g = Refresh
  <2>1. g \in Doom /\ g \in Programs
    BY <1>13 DEF Doom, Programs
  <2> QED BY <1>9, <2>1, ProgramSteps
\* The engines are restarted one after the other, whichever the state names.
<1>14. CASE g = RestartBoth
  <2> DEFINE c == <<Simply("choose")>>
  <2>1. /\ Turn(g, "singbox", 0)
        /\ \A k \in 1..Len(g) : g[k].do \in DockDos /\ ~ Voices(g[k])
    BY <1>14, AskedTurns
  <2>2. g \in Seq(Steps) /\ Len(g) \in Nat /\ 1 \in 1..(Len(g) + 1)
    <3>1. g \in Seq(Steps)
      BY <2>1 DEF Turn
    <3> QED BY <3>1
  <2>3. /\ c \in Programs /\ c # Booting /\ c \notin Doom /\ 2 \in 1..(Len(c) + 1)
        /\ Stack(g, 1, c, 2) = g /\ 2 > Len(c)
    BY <2>2, NothingLeft
  <2> HIDE DEF c
  <2>4. Asked(g, c, 2)
    BY <1>14, <2>3 DEF Asked
  <2>5. ~ Calm(g, 1, c, 2, 0)'
    <3>1. 1 <= Len(g) => 1 \in 1..Len(g)
      BY <2>2
    <3> QED BY <2>1, <2>3, <3>1 DEF Calm
  <2>6. \A u \in 1..Len(g) : g[u].do = "unlock" => lock' = "worker"
    BY <2>1 DEF DockDos
  <2>7. Live(g, 1, c, 2, "singbox", 0)'
    BY <1>7, <2>1, <2>3, <2>4, <2>5, <2>6, Anew
  <2>8. Standing(g, 1, c, 2, "singbox", 0)'
    BY <1>3, <2>1, <2>2, <2>3, <2>7 DEF Standing
  <2> QED BY <1>4, <2>8 DEF Stands
<1> QED BY <1>2, <1>10, <1>11, <1>12, <1>13, <1>14

-----------------------------------------------------------------------------
(* Any step. *)

\* The worker does a step of a branch, or one of its program.
LEMMA StandsWorker ==
  ASSUME Typed, Held, Cured, NEW f, NEW j, NEW p, NEW i, NEW e, NEW n,
         Standing(f, j, p, i, e, n), Run("worker"), ~ LoadState("worker"), ~ failed', ~ lost'
  PROVE  Stands'
<1>1. PICK a : a = todo["worker"][1]
  OBVIOUS
<1>2. todo["worker"] # <<>> /\ \A do : Does("worker", do) => a.do = do
  <2>1. "worker" \in Threads
    BY DEF Threads
  <2> QED BY <1>1, <2>1, RunsOne
<1>3. CASE j <= Len(f)
  <2>1. a = f[j] /\ a.do \in HandDos
    BY <1>1, <1>3, Reading
  <2>2. a.do \notin PlanDos \ {"stop"}
    BY <2>1, SMT DEF HandDos, PlanDos, Hands, Guarded, Verifies, Records, Chooses
  <2>3. \/ HandMoves("worker") \/ AppliedAnyway("worker") \/ KeepServer("worker")
        \/ VerifyOrRollBack("worker")
    BY <1>2, <2>2
       DEF PlanDos, Chooses, Run, HandMoves, Fetch, Load, ApplyNew, ApplyCurrent, ChangeEngine,
           AlreadyApplied, SaveLoaded, Choose, FallBack, StartDefaults, Clean,
           RestartAfterUpdate, StartThreads, FailDocker
  <2>4. CASE VerifyOrRollBack("worker")
    BY <1>3, <2>4, StandsRollBack
  <2>5. CASE ~ VerifyOrRollBack("worker")
    <3>1. Handles(a) /\ todo["worker"] # <<>> /\ Done("worker")
      BY <1>1, <2>3, <2>5, MovesHandle
    <3> QED BY <1>3, <2>1, <3>1, StandsHands
  <2> QED BY <2>4, <2>5
<1>4. CASE j > Len(f) /\ i <= Len(p)
  <2>1. a = p[i] /\ a.do \in PlanDos
    BY <1>1, <1>4, Reading
  <2>2. a.do \notin HandDos \ {"stop"}
    BY <2>1, SMT DEF HandDos, PlanDos, Hands, Guarded, Verifies, Records, Chooses
  <2>3. /\ a.do # "lock" /\ a.do # "flock" /\ a.do # "funlock" /\ a.do # "unlock"
        /\ a.do # "start" /\ a.do # "start_once" /\ a.do # "restart" /\ a.do # "write" /\ a.do # "save_engine"
        /\ a.do # "save_manual" /\ a.do # "save_smart" /\ a.do # "save_rollback"
        /\ a.do # "verify" /\ a.do # "verify_or_roll_back" /\ a.do # "see"
        /\ a.do # "keep" /\ a.do # "applied_anyway"
    BY <2>1, SMT DEF PlanDos, Chooses
  <2>4. \/ StopContainer("worker") \/ Fetch("worker") \/ Load("worker") \/ ApplyNew("worker")
        \/ ApplyCurrent("worker") \/ ChangeEngine("worker") \/ AlreadyApplied("worker")
        \/ SaveLoaded("worker") \/ Choose("worker") \/ FallBack("worker")
        \/ StartDefaults("worker") \/ Clean("worker") \/ RestartAfterUpdate("worker")
        \/ StartThreads("worker")
    BY <1>2, <2>3
       DEF Run, LockEngine, LockFile, UnlockFile, UnlockEngine, RunContainer, WriteConfig,
           SaveEngine, SaveServer, SaveRollback, Verify, VerifyOrRollBack, SeeFallBack,
           KeepServer, AppliedAnyway, FailDocker
  <2>5. CASE RestartAfterUpdate("worker")
    BY <2>5, StandsRestart DEF RestartAfterUpdate
  <2>6. CASE StopContainer("worker")
    BY <1>4, <2>6, StandsStop
  <2>7. CASE Fetch("worker")
    BY <1>4, <2>7, StandsFetch
  <2>8. CASE \/ Load("worker") \/ AlreadyApplied("worker") \/ StartThreads("worker")
             \/ Clean("worker")
    BY <1>4, <2>8, StandsStep
  <2>9. CASE ApplyNew("worker") \/ ApplyCurrent("worker") \/ ChangeEngine("worker")
    BY <1>4, <2>9, StandsApply
  <2>10. CASE SaveLoaded("worker")
    BY <1>4, <2>10, StandsSaved
  <2>11. CASE Choose("worker")
    BY <1>4, <2>11, StandsChoose
  <2>12. CASE FallBack("worker")
    BY <1>4, <2>12, StandsFallBack
  <2>13. CASE StartDefaults("worker")
    BY <1>4, <2>13, StandsDefaults
  <2> QED BY <2>4, <2>5, <2>6, <2>7, <2>8, <2>9, <2>10, <2>11, <2>12, <2>13
<1>5. j <= Len(f) \/ (j > Len(f) /\ i <= Len(p))
  <2>1. j \in Nat /\ i \in Nat /\ Len(f) \in Nat /\ Len(p) \in Nat
    BY Reading
  <2>2. ~ (j > Len(f) /\ i > Len(p))
    BY <1>2, Reading
  <2> QED BY <2>1, <2>2
<1> QED BY <1>3, <1>4, <1>5

\* What went wrong is forgotten only when the agent starts again.
LEMMA HistoryStays ==
  ASSUME [Next]_vars, ~ RestartAgent(TRUE), \A t \in Threads : ~ RestartAfterUpdate(t),
         Typed, ~ failed', ~ lost'
  PROVE  ~ failed /\ ~ lost
<1>0. failed \in BOOLEAN /\ lost \in BOOLEAN
  BY DEF Typed, TypeOK
<1>1. ASSUME NEW t \in Threads, Run(t) PROVE ~ failed /\ ~ lost
  <2>1. CASE \/ LockEngine(t) \/ LockFile(t) \/ UnlockFile(t) \/ UnlockEngine(t)
             \/ StopContainer(t) \/ RunContainer(t) \/ FailDocker(t) \/ WriteConfig(t)
             \/ SaveRollback(t) \/ Fetch(t) \/ ApplyNew(t) \/ ChangeEngine(t)
             \/ AppliedAnyway(t) \/ AlreadyApplied(t) \/ Clean(t) \/ StartThreads(t)
    BY <2>1 DEF LockEngine, LockFile, UnlockFile, UnlockEngine, StopContainer, RunContainer,
       FailDocker, WriteConfig, SaveRollback, Fetch, ApplyNew, ChangeEngine, AppliedAnyway,
       AlreadyApplied, Clean, StartThreads, past
  <2>2. CASE \/ LoadState(t) \/ Verify(t) \/ VerifyOrRollBack(t) \/ Choose(t)
             \/ FallBack(t) \/ StartDefaults(t)
    <3>1. CASE FallBack(t)
      <4>1. failed' = failed
        BY <3>1, Zenon DEF FallBack
      <4>2. CASE applied[t] \/ lkg = "none"
        BY <3>1, <4>1, <4>2 DEF FallBack
      <4>3. CASE ~ (applied[t] \/ lkg = "none")
        <5>1. \E found : View(found)
          BY <3>1, <4>3, Zenon DEF FallBack
        <5> QED BY <4>1, <5>1 DEF View
      <4> QED BY <4>2, <4>3
    <3>2. CASE ~ FallBack(t)
      <4>1. failed' = failed /\ \E found : View(found)
        BY <2>2, <3>2, Zenon
           DEF LoadState, Verify, VerifyOrRollBack, Choose, StartDefaults
      <4> QED BY <4>1 DEF View
    <3> QED BY <3>1, <3>2
  <2>3. CASE \/ SaveEngine(t) \/ SaveServer(t) \/ KeepServer(t) \/ Load(t)
             \/ ApplyCurrent(t) \/ SaveLoaded(t) \/ SeeFallBack(t)
    <3>1. /\ failed' = failed
          /\ \/ lost' = lost \/ (\E found : View(found))
             \/ \E new, stale : lost' = (lost \/ stale \/ state' # new)
      BY <2>3 DEF SaveEngine, SaveServer, KeepServer, Load, ApplyCurrent, SaveLoaded,
                  SeeFallBack, Save
    <3> QED BY <1>0, <3>1 DEF View
  <2> QED BY <1>1, <2>1, <2>2, <2>3 DEF Run
<1>2. CASE \E t \in Threads : Begin(t)
  BY <1>2 DEF Begin
<1>3. CASE HealthTryLock
  BY <1>3 DEF HealthTryLock, past
<1>4. CASE HealthCheck \/ PollLoad \/ PollSave
  <2>1. /\ failed' = failed
        /\ (\E found : View(found)) \/ \E new, stale : lost' = (lost \/ stale \/ state' # new)
    BY <1>4 DEF HealthCheck, PollLoad, PollSave, Save
  <2> QED BY <2>1 DEF View
<1>5. CASE \E x \in Engines : CrashContainer(x) \/ Revive(x)
  BY <1>5 DEF CrashContainer, Revive, past
<1>6. CASE UNCHANGED vars
  BY <1>6 DEF vars, past
<1> QED BY <1>1, <1>2, <1>3, <1>4, <1>5, <1>6 DEF Next

\* Nothing of it changes.
LEMMA StandsUnmoved ==
  ASSUME Typed, Stands, UNCHANGED <<todo, lock, box, disk, state, loaded, applied>>
  PROVE  Stands'
<1>1. PICK f, j, p, i, e, n : Standing(f, j, p, i, e, n)
  BY DEF Stands
<1>2. (Off <=> Off') /\ (Silent <=> Silent')
  BY DEF Off, Silent, Listens
<1>3. (Safe => Safe') /\ (Agree => Agree') /\ Cured'
  BY <1>2 DEF Stands, Safe, Agree, HealthSings, Cured
<1>4. Ready(todo["health"], 1) => Ready(todo["health"], 1)'
  BY DEF Ready, Listens
<1>5. Standing(f, j, p, i, e, n)'
  BY <1>1, <1>2, <1>3, <1>4, StandsBeside
<1> QED BY <1>3, <1>5 DEF Stands

LEMMA StandsNext ==
  Outsiders = {} /\ Typed /\ (failed \/ Sound) /\ (failed \/ lost \/ Stands) /\ [Next]_vars
    => (failed \/ lost \/ Stands)'
<1> SUFFICES ASSUME Outsiders = {}, Typed, failed \/ Sound, failed \/ lost \/ Stands,
                    [Next]_vars, ~ failed', ~ lost'
             PROVE  Stands'
  OBVIOUS
<1>1. ASSUME NEW t \in Threads, RestartAfterUpdate(t) PROVE Stands'
  BY <1>1, StandsRestart DEF RestartAfterUpdate
<1>2. CASE RestartAgent(TRUE)
  BY <1>2, StandsRestart
<1>3. CASE ~ RestartAgent(TRUE) /\ \A t \in Threads : ~ RestartAfterUpdate(t)
  <2>1. ~ failed /\ ~ lost
    BY <1>3, HistoryStays
  <2>2. Sound /\ Cured /\ Held /\ Watching /\ Stands
    BY <2>1 DEF Stands, Sound
  <2>3. PICK f, j, p, i, e, n : Standing(f, j, p, i, e, n)
    BY <2>2 DEF Stands
  <2>4. ASSUME NEW t \in Threads, LoadState(t) PROVE Stands'
    <3>1. UNCHANGED <<todo, lock, box, disk, state, loaded, applied>>
      BY <2>4 DEF LoadState, files, others, locks, update
    <3> QED BY <2>2, <3>1, StandsUnmoved
  <2>5. CASE Run("worker") /\ ~ LoadState("worker")
    BY <2>2, <2>3, <2>5, StandsWorker
  <2>6. CASE Begin("worker")
    BY <2>2, <2>3, <2>6, StandsBegin
  <2>7. CASE Run("health")
    BY <2>2, <2>3, <2>7, StandsCures
  <2>8. CASE HealthTryLock
    BY <2>2, <2>3, <2>8, StandsTryLock
  <2>9. CASE HealthCheck
    BY <2>2, <2>3, <2>9, StandsCheck
  <2>10. ASSUME NEW x \in Engines, CrashContainer(x) \/ Revive(x) PROVE Stands'
    BY <2>2, <2>3, <2>10, StandsDocker
  <2>11. CASE PollLoad \/ PollSave \/ UNCHANGED vars
    <3>1. PollSave => state' = state
      BY Zenon DEF PollSave, Save
    <3>2. UNCHANGED <<todo, lock, box, disk, state, loaded, applied>>
      BY <2>11, <3>1 DEF PollLoad, PollSave, vars, files, others, locks, local, update
    <3> QED BY <2>2, <3>2, StandsUnmoved
  <2> QED BY <1>3, <2>4, <2>5, <2>6, <2>7, <2>8, <2>9, <2>10, <2>11, OneWorker
          DEF Next, Begin
<1> QED BY <1>1, <1>2, <1>3

\* When nobody is in the middle of an operation, the program has come to its end.
LEMMA QuietIsSafe ==
  ASSUME Typed, Stands, Quiet
  PROVE  ~ (Listens("xray") /\ Listens("singbox"))
<1>1. PICK f, j, p, i, e, n : Standing(f, j, p, i, e, n)
  BY DEF Stands
<1>2. todo["worker"] = <<>>
  BY DEF Quiet, Threads
<1>3. j \in Nat /\ i \in Nat /\ Len(f) \in Nat /\ Len(p) \in Nat
  BY <1>1, Reading
<1>4. j > Len(f) /\ i > Len(p)
  <2>1. ~ (j <= Len(f)) /\ ~ (j > Len(f) /\ i <= Len(p))
    BY <1>1, <1>2, Reading
  <2> QED BY <1>3, <2>1
<1>5. p \notin Doom
  <2>1. p \in Doom => i <= Len(p)
    BY <1>1 DEF Standing
  <2> QED BY <1>3, <1>4, <2>1
<1>6. ~ (p = Booting /\ i = 1)
  <2>1. p = Booting => Len(p) = 12
    BY BootingIs
  <2>2. PICK l : l = Len(p)
    OBVIOUS
  <2>3. i > l /\ (p = Booting => l = 12)
    BY <1>4, <2>1, <2>2
  <2> QED BY <2>3
<1>7. Safe
  BY <1>1, <1>5, <1>6 DEF Standing, Live
<1>8. Off => ~ Listens("singbox")
  BY PortsKeep DEF Off, Listens
<1> QED BY <1>7, <1>8 DEF Safe, Silent

\* As long as nobody uses the fleet-cli, xray and sing-box do not both listen
\* on 6357 and 6358 once the worker and the watchdog are done, if no docker
\* command has failed and no save of the state has been undone since the agent
\* started, wherever the agent or a container crashed before or after
\* (_stop_both_engines, _ensure_xray_running, the order in which apply_configs
\* and _apply_outbound_cfg stop and start).
THEOREM PortsAreApart ==
  ASSUME Outsiders = {}
  PROVE  Spec => []OneListener
<1>1. Init => (failed \/ lost \/ Stands)
  BY StandsInit
<1>2. Typed /\ (failed \/ Sound) /\ (failed \/ lost \/ Stands) /\ [Next]_vars
        => (failed \/ lost \/ Stands)'
  BY StandsNext
<1>3. Typed /\ (failed \/ lost \/ Stands) => OneListener
  BY QuietIsSafe DEF OneListener
<1> QED BY <1>1, <1>2, <1>3, SoundAlways, PTL DEF Spec
=============================================================================
