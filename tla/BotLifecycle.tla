---------------------------- MODULE BotLifecycle ----------------------------
(***************************************************************************)
(* Starting, stopping and rebooting the Telegram bot.  Every Start makes a *)
(* fetcher, which asks Telegram for updates and puts them into a channel   *)
(* of its own, and a poller, which takes them from it.  Nobody waits for   *)
(* them to end: Stop clears "running" and offers one message on the        *)
(* channel b.stop, which goes to a goroutine that happens to wait for it,  *)
(* if any; Reboot then makes another b.stop and starts again.  Every saved *)
(* form of the bot's settings reboots it, in the request's own goroutine,  *)
(* so that reboots overlap with each other and with the program's start.   *)
(*                                                                         *)
(* Goroutines and channels are named by the start they were made for, 0    *)
(* being that of the program.  The two timers that a Start makes as well   *)
(* (backups, menu) are left out, save that they may be the ones that get   *)
(* the message of a Stop.  The checks of b.stop that have a default never  *)
(* see a message, since neither side waits.  Telegram answers with one     *)
(* update, none or an error.  What the updates lead to is in               *)
(* BotConversation.  The settings are two: the administrator's chat, which *)
(* is loaded and checked like the token, and the older names of the        *)
(* settings, which are read where the present ones are empty, are left out *)
(* (a setting that reads as empty or fails to be read is one case here).   *)
(***************************************************************************)
EXTENDS Integers

CONSTANTS
  Tokens,       \* of the bots that may be set
  First,        \* what the settings table says at first, and the
                \* configuration's own token
  MaxRequests,  \* bound: requests that save the bot's settings
  MaxUpdates,   \* bound: updates that Telegram hands out
  Buffer        \* how many of them the channel of a start holds

None     == "none"
Requests == 1..MaxRequests
Starts   == 0..MaxRequests
Settings == [enabled : BOOLEAN, token : Tokens \cup {None}]

ASSUME TokensAssumption == None \notin Tokens
ASSUME FirstAssumption ==
  First \subseteq [saved : Settings, config : Tokens \cup {None}]
ASSUME BoundsAssumption ==
  MaxRequests \in Nat /\ MaxUpdates \in Nat /\ Buffer \in Nat \ {0}

VARIABLES
  saved,    \* settings table: tg_bot_enabled, tg_bot_token
  pc,       \* where each request, or the start of the program, is
  using,    \* the token its Start connects with
  token, api, running, stop,  \* the bot's fields; stop is the start that has
                              \* made the channel
  fetch,    \* each fetcher, and the channel it waits on
  poll,     \* each poller
  inbox,    \* updates in the channel of each start
  updates,  \* how many Telegram has handed out
  tidy      \* the last request came alone, and no statement of it has failed

bot      == <<token, api, running, stop>>
routines == <<fetch, poll, inbox, updates>>
vars     == <<saved, pc, using, bot, routines, tidy>>

Places   == {"idle", "save_token", "save_enabled", "stop", "replace", "load",
             "check", "connect", "spawn", "done"}
\* A fetcher that does not wait for b.stop; one that has ended is as good as
\* one that was never made.
Asleep(at) == [at |-> at, on |-> -1]
Ended    == Asleep("ended")
\* Where it waits for b.stop as well as for time or for room.
Waiting  == {"backoff", "full"}
Fetchers == {Asleep(at) : at \in {"ended", "top", "polling"}}
              \cup [at : Waiting, on : Starts]

-----------------------------------------------------------------------------
(* The goroutine r of a request, or of the program's start. *)

At(r, place) == pc[r] = place
Go(r, place) == pc' = [pc EXCEPT ![r] = place]
Busy(r) == pc[r] \notin {"idle", "done"}
Quiet   == \A r \in Starts : ~ Busy(r)

\* The owner sends the form.
Ask(r) ==
  /\ At(r, "idle") /\ (\A q \in Starts : q < r => ~ At(q, "idle"))
  /\ tidy' = Quiet /\ Go(r, "save_token")
  /\ UNCHANGED <<saved, using, bot, routines>>

\* An empty token leaves the saved one.
SaveToken(r) ==
  /\ At(r, "save_token") /\ Go(r, "save_enabled")
  /\ \E t \in Tokens \cup {saved.token} : saved' = [saved EXCEPT !.token = t]
  /\ UNCHANGED <<using, bot, routines, tidy>>

SaveEnabled(r) ==
  /\ At(r, "save_enabled") /\ Go(r, "stop")
  /\ \E enabled \in BOOLEAN : saved' = [saved EXCEPT !.enabled = enabled]
  /\ UNCHANGED <<using, bot, routines, tidy>>

\* The request ends at the first statement that fails.
StatementFails(r) ==
  /\ At(r, "save_token") \/ At(r, "save_enabled")
  /\ tidy' = FALSE /\ Go(r, "done") /\ UNCHANGED <<saved, using, bot, routines>>

\* A fetcher that waits on the present b.stop gets the message and ends; or a
\* timer that waits on it gets it, or nobody, and every fetcher goes on.
Hears(s) == fetch[s].at \in Waiting /\ fetch[s].on = stop
Told == \E s \in Starts : Hears(s) /\ fetch' = [fetch EXCEPT ![s] = Ended]
Unheard == UNCHANGED fetch

\* (Mutants: the message is offered until somebody takes it; "running" stays.)
StopWaits(r) ==
  /\ At(r, "stop") /\ running' = FALSE /\ Told /\ Go(r, "replace")
  /\ UNCHANGED <<saved, using, token, api, stop, poll, inbox, updates, tidy>>
StopQuietly(r) ==
  /\ At(r, "stop") /\ (Told \/ Unheard) /\ Go(r, "replace")
  /\ UNCHANGED <<saved, using, bot, poll, inbox, updates, tidy>>

Stop(r) ==
  /\ At(r, "stop") /\ running' = FALSE /\ (Told \/ Unheard) /\ Go(r, "replace")
  /\ UNCHANGED <<saved, using, token, api, stop, poll, inbox, updates, tidy>>

\* Reboot, half a second later.
Replace(r) ==
  /\ At(r, "replace") /\ stop' = r /\ Go(r, "load")
  /\ UNCHANGED <<saved, using, token, api, running, routines, tidy>>

\* A setting that cannot be read is taken for one that was never saved: the
\* error is dropped.
Reads(setting, unset, value) ==
  \/ value = setting /\ tidy' = tidy
  \/ value = unset /\ tidy' = FALSE

\* (Mutant: the token is loaded once.)
LoadOnce(r) ==
  /\ At(r, "load") /\ Go(r, "check")
  /\ \E t \in Tokens \cup {None} :
       Reads(saved.token, None, t) /\ token' = IF token = None THEN t ELSE token
  /\ UNCHANGED <<saved, using, api, running, stop, routines>>

\* loadSettingsFromDB
Load(r) ==
  /\ At(r, "load") /\ Go(r, "check")
  /\ \E t \in Tokens \cup {None} :
       Reads(saved.token, None, t) /\ token' = IF t = None THEN token ELSE t
  /\ UNCHANGED <<saved, using, api, running, stop, routines>>

\* A bot that is disabled or has no token is not started.
Check(r) ==
  /\ At(r, "check")
  /\ \E enabled \in BOOLEAN :
       /\ Reads(saved.enabled, TRUE, enabled)
       /\ IF enabled /\ token # None
            THEN Go(r, "connect") /\ using' = [using EXCEPT ![r] = token]
            ELSE Go(r, "done") /\ UNCHANGED using
  /\ UNCHANGED <<saved, bot, routines>>

\* NewBotAPI asks Telegram, which may refuse.
Connect(r) ==
  /\ At(r, "connect")
  /\ \/ api' = using[r] /\ running' = TRUE /\ Go(r, "spawn")
     \/ UNCHANGED <<api, running>> /\ Go(r, "done")
  /\ using' = [using EXCEPT ![r] = None]
  /\ UNCHANGED <<saved, token, stop, routines, tidy>>

Spawn(r) ==
  /\ At(r, "spawn") /\ Go(r, "done")
  /\ fetch' = [fetch EXCEPT ![r] = Asleep("top")]
  /\ poll' = [poll EXCEPT ![r] = "waiting"]
  /\ UNCHANGED <<saved, using, bot, inbox, updates, tidy>>

-----------------------------------------------------------------------------
(* The goroutines of start s. *)

\* (Mutant: it looks whether the bot runs only when it has been told.)
FetchAnyhow(s) ==
  /\ fetch[s].at = "top"
  /\ fetch' = [fetch EXCEPT ![s] = IF api # None THEN Asleep("polling") ELSE Ended]
  /\ UNCHANGED <<saved, pc, using, bot, poll, inbox, updates, tidy>>

\* fetchUpdates goes on as long as the bot runs, whichever Start made it run.
Fetch(s) ==
  /\ fetch[s].at = "top"
  /\ fetch' = [fetch EXCEPT ![s] =
       IF running /\ api # None THEN Asleep("polling") ELSE Ended]
  /\ UNCHANGED <<saved, pc, using, bot, poll, inbox, updates, tidy>>

\* GetUpdates: an update, nothing within a minute, or an error, as when somebody
\* else polls with this token.
Polled(s) ==
  /\ fetch[s].at = "polling"
  /\ \/ /\ updates < MaxUpdates /\ updates' = updates + 1
        /\ fetch' = [fetch EXCEPT ![s] = [at |-> "full", on |-> stop]]
     \/ /\ UNCHANGED updates
        /\ \E then \in {Asleep("top"), [at |-> "backoff", on |-> stop]} :
             fetch' = [fetch EXCEPT ![s] = then]
  /\ UNCHANGED <<saved, pc, using, bot, poll, inbox, tidy>>

\* (Mutant: the channel holds whatever is sent.)
HandOnAlways(s) ==
  /\ fetch[s].at = "full" /\ inbox' = [inbox EXCEPT ![s] = @ + 1]
  /\ fetch' = [fetch EXCEPT ![s] = Asleep("top")]
  /\ UNCHANGED <<saved, pc, using, bot, poll, updates, tidy>>

HandOn(s) ==
  /\ fetch[s].at = "full" /\ inbox[s] < Buffer /\ inbox' = [inbox EXCEPT ![s] = @ + 1]
  /\ fetch' = [fetch EXCEPT ![s] = Asleep("top")]
  /\ UNCHANGED <<saved, pc, using, bot, poll, updates, tidy>>

Retry(s) ==
  /\ fetch[s].at = "backoff" /\ fetch' = [fetch EXCEPT ![s] = Asleep("top")]
  /\ UNCHANGED <<saved, pc, using, bot, poll, inbox, updates, tidy>>

\* pollUpdates handles the update, or ends if the bot does not run.
Take(s) ==
  /\ poll[s] = "waiting" /\ inbox[s] > 0 /\ inbox' = [inbox EXCEPT ![s] = @ - 1]
  /\ poll' = IF running THEN poll ELSE [poll EXCEPT ![s] = "ended"]
  /\ UNCHANGED <<saved, pc, using, bot, fetch, updates, tidy>>

-----------------------------------------------------------------------------
Init ==
  /\ \E f \in First : saved = f.saved /\ token = f.config
  /\ pc = [r \in Starts |-> IF r = 0 THEN "load" ELSE "idle"]
  /\ using = [r \in Starts |-> None]
  /\ api = None /\ running = FALSE /\ stop = 0
  /\ fetch = [s \in Starts |-> Ended] /\ poll = [s \in Starts |-> "ended"]
  /\ inbox = [s \in Starts |-> 0] /\ updates = 0 /\ tidy = TRUE

Proceed(r) ==
  \/ StatementFails(r) \/ SaveToken(r) \/ SaveEnabled(r) \/ Stop(r) \/ Replace(r)
  \/ Load(r) \/ Check(r) \/ Connect(r) \/ Spawn(r)
Fetcher(s) == Fetch(s) \/ Polled(s) \/ HandOn(s) \/ Retry(s)

Next ==
  \/ \E r \in Requests : Ask(r)
  \/ \E r \in Starts : Proceed(r)
  \/ \E s \in Starts : Fetcher(s) \/ Take(s)

\* Goroutines are scheduled, and every call to Telegram has a timeout.
Fairness == /\ \A r \in Starts : WF_vars(Proceed(r))
            /\ \A s \in Starts : WF_vars(Fetcher(s)) /\ WF_vars(Take(s))

Spec == Init /\ [][Next]_vars /\ Fairness

-----------------------------------------------------------------------------
\* Types; a channel never holds more than it has room for.
TypeOK ==
  /\ saved \in Settings /\ pc \in [Starts -> Places]
  /\ using \in [Starts -> Tokens \cup {None}]
  /\ token \in Tokens \cup {None} /\ api \in Tokens \cup {None}
  /\ running \in BOOLEAN /\ stop \in Starts
  /\ fetch \in [Starts -> Fetchers] /\ poll \in [Starts -> {"waiting", "ended"}]
  /\ inbox \in [Starts -> 0..Buffer] /\ updates \in 0..MaxUpdates
  /\ tidy \in BOOLEAN

\* A bot that says it runs is not deaf: some start is about to make its
\* goroutines, or has a fetcher and a poller that both still work, however
\* reboots overlap and whichever goroutine gets the message of a Stop.
NeverDeaf ==
  running => \E s \in Starts :
    At(s, "spawn") \/ (fetch[s] # Ended /\ poll[s] = "waiting")

\* What the form saves takes effect, whatever has gone wrong before: once a
\* request that came alone is done, and neither a write nor a read of a setting
\* has failed in it, the bot runs only if the settings enable it, and with the
\* token saved last.  (A read that fails is no error to the program: the bot
\* then starts although it is disabled, or with the token it had.)
RunsAsSaved ==
  tidy /\ Quiet /\ running
    => saved.enabled /\ (saved.token # None => api = saved.token)

\* Every request that saves settings is answered, so that none is left when no
\* more come: Stop waits for nobody, though of a bot that was never started
\* nobody listens.
RebootEnds == ~ Quiet ~> Quiet

\* A bot that is switched off for good falls silent: whatever fetchers have
\* piled up through reboots, none of them asks Telegram for ever.
FallsSilent ==
  <>[](~ running) => <>[](\A s \in Starts : fetch[s].at # "polling")
=============================================================================
