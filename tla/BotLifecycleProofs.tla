------------------------- MODULE BotLifecycleProofs -------------------------
(***************************************************************************)
(* A bot that runs is never deaf, for any number of overlapping reboots.   *)
(*                                                                         *)
(* "running" is set by the Start that is about to make goroutines, and     *)
(* goroutines end only while it is not set: a fetcher that gets the        *)
(* message of a Stop gets it in the step that clears it.  What is to be    *)
(* added is why a fetcher does not end for lack of a connection: a bot     *)
(* that runs has one, as a Start connects with a token it has checked.     *)
(*                                                                         *)
(* And the settings come true after a request that came alone and of which *)
(* no statement failed: it carries them from the table to the bot.         *)
(***************************************************************************)
EXTENDS BotLifecycle, TLAPS

Connected == running => api # None
Checked   == \A r \in Starts : At(r, "connect") => using[r] # None
Inv       == TypeOK /\ Connected /\ Checked /\ NeverDeaf

USE DEF At, Go, bot, routines

LEMMA StartsAreNaturals == Starts \subseteq Nat /\ Requests \subseteq Starts /\ 0 \in Starts
  BY BoundsAssumption DEF Starts, Requests

LEMMA FetcherPlaces ==
  /\ Ended \in Fetchers /\ Asleep("top") \in Fetchers /\ Asleep("polling") \in Fetchers
  /\ Asleep("top") # Ended /\ Asleep("polling") # Ended
  /\ \A s \in Starts : /\ [at |-> "full", on |-> s] \in Fetchers
                       /\ [at |-> "backoff", on |-> s] \in Fetchers
                       /\ [at |-> "full", on |-> s] # Ended
                       /\ [at |-> "backoff", on |-> s] # Ended
  BY StartsAreNaturals DEF Fetchers, Ended, Asleep, Waiting

-----------------------------------------------------------------------------
LEMMA InitInv == Init => Inv
<1> SUFFICES ASSUME Init PROVE Inv
  OBVIOUS
<1>1. TypeOK
  <2>1. PICK f \in First : saved = f.saved /\ token = f.config
    BY DEF Init
  <2>2. f \in [saved : Settings, config : Tokens \cup {None}]
    BY FirstAssumption
  <2>3. saved \in Settings /\ token \in Tokens \cup {None}
    BY <2>1, <2>2
  <2>4. \A r \in Starts : (IF r = 0 THEN "load" ELSE "idle") \in Places
    BY DEF Places
  <2>5. pc \in [Starts -> Places]
    BY <2>4 DEF Init
  <2>6. fetch \in [Starts -> Fetchers]
    BY FetcherPlaces DEF Init
  <2>7. inbox \in [Starts -> 0..Buffer] /\ updates \in 0..MaxUpdates
    BY BoundsAssumption DEF Init
  <2> QED BY <2>3, <2>5, <2>6, <2>7, StartsAreNaturals DEF Init, TypeOK
<1>2. Connected /\ Checked /\ NeverDeaf
  BY DEF Init, Connected, Checked, NeverDeaf
<1> QED BY <1>1, <1>2 DEF Inv

\* The steps of a request and of the program's start.
LEMMA StepOfRequest ==
  ASSUME Inv, NEW r \in Starts, Ask(r) \/ Proceed(r)
  PROVE  Inv'
<1> USE DEF Inv
<1>1. CASE Ask(r)
  <2>1. tidy' \in BOOLEAN
    BY <1>1 DEF Ask, Quiet
  <2>2. TypeOK'
    BY <1>1, <2>1 DEF Ask, TypeOK, Places
  <2>3. (Connected /\ Checked /\ NeverDeaf)'
    BY <1>1 DEF Ask, TypeOK, Connected, Checked, NeverDeaf
  <2> QED BY <2>2, <2>3
<1>2. CASE SaveToken(r)
  <2>1. TypeOK'
    BY <1>2 DEF SaveToken, TypeOK, Places, Settings
  <2>2. (Connected /\ Checked /\ NeverDeaf)'
    BY <1>2 DEF SaveToken, TypeOK, Connected, Checked, NeverDeaf
  <2> QED BY <2>1, <2>2
<1>3. CASE SaveEnabled(r)
  <2>1. TypeOK'
    BY <1>3 DEF SaveEnabled, TypeOK, Places, Settings
  <2>2. (Connected /\ Checked /\ NeverDeaf)'
    BY <1>3 DEF SaveEnabled, TypeOK, Connected, Checked, NeverDeaf
  <2> QED BY <2>1, <2>2
<1>4. CASE StatementFails(r)
  <2>1. TypeOK'
    BY <1>4 DEF StatementFails, TypeOK, Places
  <2>2. (Connected /\ Checked /\ NeverDeaf)'
    BY <1>4 DEF StatementFails, TypeOK, Connected, Checked, NeverDeaf
  <2> QED BY <2>1, <2>2
<1>5. CASE Stop(r)
  <2>1. fetch' \in [Starts -> Fetchers]
    BY <1>5, FetcherPlaces DEF Stop, Told, Unheard, TypeOK
  <2>2. TypeOK'
    BY <1>5, <2>1 DEF Stop, TypeOK, Places
  <2>3. (Connected /\ Checked /\ NeverDeaf)'
    BY <1>5 DEF Stop, TypeOK, Connected, Checked, NeverDeaf
  <2> QED BY <2>2, <2>3
<1>6. CASE Replace(r)
  <2>1. TypeOK'
    BY <1>6 DEF Replace, TypeOK, Places
  <2>2. (Connected /\ Checked /\ NeverDeaf)'
    BY <1>6 DEF Replace, TypeOK, Connected, Checked, NeverDeaf
  <2> QED BY <2>1, <2>2
<1>7. CASE Load(r)
  <2>1. TypeOK'
    BY <1>7 DEF Load, Reads, TypeOK, Places, Settings
  <2>2. (Connected /\ Checked /\ NeverDeaf)'
    BY <1>7 DEF Load, Reads, TypeOK, Connected, Checked, NeverDeaf
  <2> QED BY <2>1, <2>2
<1>8. CASE Check(r)
  <2>1. TypeOK'
    BY <1>8 DEF Check, Reads, TypeOK, Places
  <2>2. (Connected /\ Checked /\ NeverDeaf)'
    BY <1>8 DEF Check, Reads, TypeOK, Connected, Checked, NeverDeaf
  <2> QED BY <2>1, <2>2
<1>9. CASE Connect(r)
  <2>1. TypeOK'
    BY <1>9 DEF Connect, TypeOK, Places
  <2>2. (Connected /\ Checked /\ NeverDeaf)'
    BY <1>9 DEF Connect, TypeOK, Connected, Checked, NeverDeaf
  <2> QED BY <2>1, <2>2
<1>10. CASE Spawn(r)
  <2>1. TypeOK'
    BY <1>10, FetcherPlaces DEF Spawn, TypeOK, Places
  <2>2. (Connected /\ Checked)'
    BY <1>10 DEF Spawn, TypeOK, Connected, Checked
  <2>3. fetch'[r] # Ended /\ poll'[r] = "waiting"
    BY <1>10, FetcherPlaces DEF Spawn, TypeOK
  <2> QED BY <2>1, <2>2, <2>3 DEF NeverDeaf
<1> QED BY <1>1, <1>2, <1>3, <1>4, <1>5, <1>6, <1>7, <1>8, <1>9, <1>10 DEF Proceed

\* A fetcher that goes on, and leaves the rest of the bot alone, disturbs nothing.
LEMMA GoesOn ==
  ASSUME Inv, NEW s \in Starts, NEW f \in Fetchers, f # Ended, fetch[s] # Ended,
         fetch' = [fetch EXCEPT ![s] = f],
         UNCHANGED <<saved, pc, using, bot, poll, tidy>>
  PROVE  (Connected /\ Checked /\ NeverDeaf)' /\ fetch' \in [Starts -> Fetchers]
  BY DEF Inv, TypeOK, Connected, Checked, NeverDeaf

LEMMA StepOfStart ==
  ASSUME Inv, NEW s \in Starts, Fetcher(s) \/ Take(s)
  PROVE  Inv'
<1> USE DEF Inv
<1>1. CASE Fetch(s)
  <2>1. CASE running /\ api # None
    <3>1. fetch' = [fetch EXCEPT ![s] = Asleep("polling")] /\ fetch[s] # Ended
      BY <1>1, <2>1 DEF Fetch, Ended, Asleep
    <3>2. (Connected /\ Checked /\ NeverDeaf)' /\ fetch' \in [Starts -> Fetchers]
      BY <1>1, <3>1, FetcherPlaces, GoesOn DEF Fetch
    <3> QED BY <1>1, <3>2 DEF Fetch, TypeOK
  <2>2. CASE ~ (running /\ api # None)
    <3>1. fetch' \in [Starts -> Fetchers] /\ ~ running'
      BY <1>1, <2>2, FetcherPlaces DEF Fetch, TypeOK, Connected
    <3> QED BY <1>1, <3>1 DEF Fetch, TypeOK, Connected, Checked, NeverDeaf
  <2> QED BY <2>1, <2>2
<1>2. CASE Polled(s)
  <2>1. fetch[s] # Ended /\ stop \in Starts
    BY <1>2 DEF Polled, Ended, Asleep, TypeOK
  <2>2. \E f \in Fetchers : f # Ended /\ fetch' = [fetch EXCEPT ![s] = f]
    BY <1>2, <2>1, FetcherPlaces DEF Polled
  <2>3. (Connected /\ Checked /\ NeverDeaf)' /\ fetch' \in [Starts -> Fetchers]
    BY <1>2, <2>1, <2>2, GoesOn DEF Polled
  <2>4. updates' \in 0..MaxUpdates
    BY <1>2, BoundsAssumption DEF Polled, TypeOK
  <2> QED BY <1>2, <2>3, <2>4 DEF Polled, TypeOK
<1>3. CASE HandOn(s)
  <2>1. fetch' = [fetch EXCEPT ![s] = Asleep("top")] /\ fetch[s] # Ended
    BY <1>3 DEF HandOn, Ended, Asleep
  <2>2. (Connected /\ Checked /\ NeverDeaf)' /\ fetch' \in [Starts -> Fetchers]
    BY <1>3, <2>1, FetcherPlaces, GoesOn DEF HandOn
  <2>3. inbox' \in [Starts -> 0..Buffer]
    BY <1>3, BoundsAssumption DEF HandOn, TypeOK
  <2> QED BY <1>3, <2>2, <2>3 DEF HandOn, TypeOK
<1>4. CASE Retry(s)
  <2>1. fetch' = [fetch EXCEPT ![s] = Asleep("top")] /\ fetch[s] # Ended
    BY <1>4 DEF Retry, Ended, Asleep
  <2>2. (Connected /\ Checked /\ NeverDeaf)' /\ fetch' \in [Starts -> Fetchers]
    BY <1>4, <2>1, FetcherPlaces, GoesOn DEF Retry
  <2> QED BY <1>4, <2>2 DEF Retry, TypeOK
<1>5. CASE Take(s)
  <2>1. inbox' \in [Starts -> 0..Buffer]
    BY <1>5, BoundsAssumption DEF Take, TypeOK
  <2>2. poll' \in [Starts -> {"waiting", "ended"}] /\ (running => poll' = poll)
    BY <1>5 DEF Take, TypeOK
  <2> QED BY <1>5, <2>1, <2>2 DEF Take, TypeOK, Connected, Checked, NeverDeaf
<1> QED BY <1>1, <1>2, <1>3, <1>4, <1>5 DEF Fetcher

LEMMA NextInv == Inv /\ [Next]_vars => Inv'
<1> SUFFICES ASSUME Inv, [Next]_vars PROVE Inv'
  OBVIOUS
<1>1. ASSUME NEW r \in Requests, Ask(r) PROVE Inv'
  BY <1>1, StartsAreNaturals, StepOfRequest
<1>2. ASSUME NEW r \in Starts, Proceed(r) PROVE Inv'
  BY <1>2, StepOfRequest
<1>3. ASSUME NEW s \in Starts, Fetcher(s) \/ Take(s) PROVE Inv'
  BY <1>3, StepOfStart
<1>4. CASE UNCHANGED vars
  BY <1>4 DEF vars, Inv, TypeOK, Connected, Checked, NeverDeaf
<1> QED BY <1>1, <1>2, <1>3, <1>4 DEF Next

LEMMA AlwaysInv == Spec => []Inv
  BY InitInv, NextInv, PTL DEF Spec

-----------------------------------------------------------------------------
\* The bot, its goroutines and the reboots keep to their types; a channel of
\* updates never holds more than its buffer.
THEOREM LifecycleTypes == Spec => []TypeOK
<1>1. Inv => TypeOK
  BY DEF Inv
<1> QED BY <1>1, AlwaysInv, PTL

\* However many reboots overlap, and whoever gets the message of a Stop, a bot
\* that says it runs has a fetcher and a poller, or is about to have them.
THEOREM BotHears == Spec => []NeverDeaf
<1>1. Inv => NeverDeaf
  BY DEF Inv
<1> QED BY <1>1, AlwaysInv, PTL
-----------------------------------------------------------------------------
(* What the settings say comes true: since a request that came alone, one    *)
(* request at most is under way, and from its Stop to its Start the bot does *)
(* not run.                                                                  *)

Served  == saved.enabled /\ (saved.token # None => api = saved.token)
\* How far the request r has carried the settings.
Carries(r) ==
  /\ pc[r] \in {"replace", "load", "check", "connect"} => ~ running
  /\ At(r, "check") /\ saved.token # None => token = saved.token
  /\ At(r, "connect") => saved.enabled
                         /\ (saved.token # None => using[r] = saved.token)
  /\ At(r, "spawn") => Served
Alone   == tidy => \A p, q \in Starts : Busy(p) /\ Busy(q) => p = q
Carried == tidy => \A r \in Starts : Carries(r)
Settled == Alone /\ Carried /\ RunsAsSaved

LEMMA InitSettled == Init => Settled
<1> SUFFICES ASSUME Init PROVE Settled
  OBVIOUS
<1>1. pc = [r \in Starts |-> IF r = 0 THEN "load" ELSE "idle"] /\ ~ running
  BY DEF Init
<1> QED BY <1>1 DEF Settled, Alone, Carried, Carries, RunsAsSaved, Busy

\* A step of the one request that is under way.  The others have nothing to
\* carry, and the bot is judged again once this one is done.
LEMMA OneCarries ==
  ASSUME Inv, Alone, NEW r \in Starts, Busy(r), NEW place \in Places \ {"idle"},
         Go(r, place),
         tidy' => tidy,
         tidy' => Carries(r)',
         tidy' /\ place = "done" /\ running' => Served'
  PROVE  Settled'
<1>1. pc' = [pc EXCEPT ![r] = place] /\ pc \in [Starts -> Places]
  BY DEF Inv, TypeOK
<1>2. ASSUME tidy' PROVE \A q \in Starts : q # r => pc'[q] \in {"idle", "done"}
  BY <1>1, <1>2 DEF Alone, Busy
<1>3. Alone'
  BY <1>2 DEF Alone, Busy
<1>4. Carried'
  BY <1>2 DEF Carried, Carries
<1>5. RunsAsSaved'
  <2> SUFFICES ASSUME tidy', Quiet', running' PROVE Served'
    BY DEF RunsAsSaved, Served
  <2>1. place # "idle" => place = "done"
    BY <1>1 DEF Quiet, Busy
  <2> QED BY <2>1
<1> QED BY <1>3, <1>4, <1>5 DEF Settled

LEMMA RequestSettled ==
  ASSUME Inv, Settled, NEW r \in Starts, Ask(r) \/ Proceed(r)
  PROVE  Settled'
<1> USE DEF Settled
<1>1. CASE Ask(r)
  <2>1. pc' = [pc EXCEPT ![r] = "save_token"] /\ pc \in [Starts -> Places]
        /\ UNCHANGED <<saved, using, bot>> /\ (tidy' => Quiet)
    BY <1>1 DEF Ask, Inv, TypeOK
  <2>2. Alone' /\ Carried'
    BY <2>1 DEF Alone, Carried, Carries, Busy, Quiet
  <2>3. tidy' => Busy(r)'
    BY <2>1 DEF Busy
  <2> QED BY <2>2, <2>3 DEF RunsAsSaved, Quiet
<1>2. ASSUME Proceed(r) PROVE Busy(r)
  BY <1>2 DEF Proceed, StatementFails, SaveToken, SaveEnabled, Stop, Replace,
              Load, Check, Connect, Spawn, Busy
<1>3. ASSUME Proceed(r), tidy PROVE Carries(r)
  BY <1>3 DEF Carried
<1>4. pc \in [Starts -> Places]
  BY DEF Inv, TypeOK
<1>5. CASE StatementFails(r)
  BY <1>2, <1>4, <1>5, OneCarries DEF StatementFails, Proceed, Places
<1>6. CASE SaveToken(r) \/ SaveEnabled(r)
  <2>1. PICK place \in {"save_enabled", "stop"} : Go(r, place)
    BY <1>6 DEF SaveToken, SaveEnabled
  <2>2. Carries(r)' /\ (tidy' => tidy)
    BY <1>4, <1>6, <2>1 DEF SaveToken, SaveEnabled, Carries
  <2> QED BY <1>2, <1>6, <2>1, <2>2, OneCarries DEF Proceed, Places
<1>7. CASE Stop(r)
  <2>1. Carries(r)' /\ (tidy' => tidy)
    BY <1>4, <1>7 DEF Stop, Carries
  <2> QED BY <1>2, <1>7, <2>1, OneCarries DEF Stop, Proceed, Places
<1>8. CASE Replace(r)
  <2>1. tidy => Carries(r)'
    BY <1>3, <1>4, <1>8 DEF Replace, Carries, Proceed
  <2> QED BY <1>2, <1>8, <2>1, OneCarries DEF Replace, Proceed, Places
<1>9. CASE Load(r)
  <2>1. tidy' => tidy /\ token' = IF saved.token = None THEN token ELSE saved.token
    BY <1>9 DEF Load, Reads, Inv, TypeOK
  <2>2. tidy' => Carries(r)'
    BY <1>3, <1>4, <1>9, <2>1 DEF Load, Carries, Proceed
  <2> QED BY <1>2, <1>9, <2>1, <2>2, OneCarries DEF Load, Proceed, Places
<1>10. CASE Check(r)
  <2>1. PICK enabled \in BOOLEAN :
          /\ Reads(saved.enabled, TRUE, enabled)
          /\ IF enabled /\ token # None
               THEN Go(r, "connect") /\ using' = [using EXCEPT ![r] = token]
               ELSE Go(r, "done") /\ UNCHANGED using
    BY <1>10 DEF Check
  <2>2. tidy' => tidy /\ enabled = saved.enabled
    BY <2>1 DEF Reads
  <2>3. tidy' => Carries(r)' /\ ~ running'
    BY <1>3, <1>4, <1>10, <2>1, <2>2 DEF Check, Carries, Proceed, Inv, TypeOK
  <2>4. Go(r, "connect") \/ Go(r, "done")
    BY <2>1
  <2> QED BY <1>2, <1>10, <2>2, <2>3, <2>4, OneCarries DEF Check, Proceed, Places
<1>11. CASE Connect(r)
  <2>1. tidy => Carries(r)' /\ ~ running
    BY <1>3, <1>4, <1>11 DEF Connect, Carries, Served, Proceed
  <2>2. CASE Go(r, "spawn")
    BY <1>2, <1>11, <2>1, <2>2, OneCarries DEF Connect, Proceed, Places
  <2>3. CASE Go(r, "done") /\ running' = running
    BY <1>2, <1>11, <2>1, <2>3, OneCarries DEF Connect, Proceed, Places
  <2> QED BY <1>11, <2>2, <2>3 DEF Connect
<1>12. CASE Spawn(r)
  <2>1. tidy => Carries(r)' /\ Served'
    BY <1>3, <1>4, <1>12 DEF Spawn, Carries, Served, Proceed
  <2> QED BY <1>2, <1>12, <2>1, OneCarries DEF Spawn, Proceed, Places
<1> QED BY <1>1, <1>5, <1>6, <1>7, <1>8, <1>9, <1>10, <1>11, <1>12 DEF Proceed

LEMMA NextSettled == Inv /\ Settled /\ [Next]_vars => Settled'
<1> SUFFICES ASSUME Inv, Settled, [Next]_vars PROVE Settled'
  OBVIOUS
<1>1. ASSUME UNCHANGED <<saved, pc, using, bot, tidy>> PROVE Settled'
  BY <1>1 DEF Settled, Alone, Carried, Carries, Served, RunsAsSaved, Quiet, Busy
<1>2. ASSUME NEW r \in Requests, Ask(r) PROVE Settled'
  BY <1>2, StartsAreNaturals, RequestSettled
<1>3. ASSUME NEW r \in Starts, Proceed(r) PROVE Settled'
  BY <1>3, RequestSettled
<1>4. ASSUME NEW s \in Starts, Fetcher(s) \/ Take(s) PROVE Settled'
  BY <1>1, <1>4 DEF Fetcher, Fetch, Polled, HandOn, Retry, Take
<1>5. CASE UNCHANGED vars
  BY <1>1, <1>5 DEF vars
<1> QED BY <1>2, <1>3, <1>4, <1>5 DEF Next

\* Once a request that came alone is done, and unless a write or a read of a
\* setting failed in it, what the form saved is true: a bot that runs is enabled
\* and uses the token of the settings, whatever failed or overlapped before and
\* whatever Telegram answered.
THEOREM SettingsTakeEffect == Spec => []RunsAsSaved
<1>1. Inv /\ Settled /\ [Next]_vars => (Inv /\ Settled)'
  BY NextInv, NextSettled
<1>2. Settled => RunsAsSaved
  BY DEF Settled
<1> QED BY InitInv, InitSettled, <1>1, <1>2, PTL DEF Spec
=============================================================================
