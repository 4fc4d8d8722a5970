----------------------------- MODULE WebServer ------------------------------
(***************************************************************************)
(* The race page of the web server, with the wrapping every page has (the  *)
(* recovery of panics, the flash message, the SQL log kept for the page    *)
(* after a redirect), and `duckstore bench` in a process of its own.       *)
(* One browser sends the requests, from several tabs.                      *)
(***************************************************************************)
EXTENDS EngineRace

CONSTANTS
  Request,        \* requests in progress at one time
  Command,        \* the bench command
  Offered,        \* scenarios each visitor chooses from
  Asked,          \* scenarios the command runs, in order
  MaxRequests,    \* bounds: requests in all,
  MaxBeside       \* and where the command is run

ASSUME WebServerAssumption ==
  /\ Racer = Request \cup {Command} /\ Command \notin Request
  /\ Offered \in [1..MaxRequests -> SUBSET DOMAIN scenarios] /\ Asked \in Seq(DOMAIN scenarios)
  /\ MaxRequests \in Nat /\ MaxBeside \in 0..MaxRequests

None == "none"

VARIABLES
  running, results,    \* raceState
  req,                 \* the handler of each request, and the cookies it was sent
  jar,                 \* the browser's cookies: flash, and the token prevq
  prev,                \* prevStore: the tokens kept, and which are fresh
  count,               \* requests so far; a token is the number of its request
  shown,               \* how often the log under a token was shown
  command              \* what the command runs next

webVars == <<running, results, req, jar, prev, count, shown, command>>
vars == <<raceVars, webVars>>

Free == [at |-> "free", id |-> 0, flash |-> None, prevq |-> 0]
Stopped == Len(Asked) + 1
NoCookies == [flash |-> None, prevq |-> 0]

Init ==
  /\ RaceInit
  /\ running = None /\ results = [id \in {} |-> <<>>]
  /\ req = [r \in Request |-> Free]
  /\ jar = NoCookies
  /\ prev = [kept |-> {}, fresh |-> {}]
  /\ shown = [t \in 1..MaxRequests |-> 0]
  /\ \/ count = 0 /\ command = Stopped
     \/ count = MaxRequests - MaxBeside /\ command = 1

-----------------------------------------------------------------------------
(* wrap, render.                                                           *)

(* readFlash: a message that was sent is cleared by the response.          *)
Arrive(r, handler) ==
  /\ req[r] = Free /\ count < MaxRequests
  /\ count' = count + 1
  /\ req' = [req EXCEPT ![r] = [at |-> handler, id |-> count', flash |-> jar.flash, prevq |-> jar.prevq]]

Answered(r) == req' = [req EXCEPT ![r] = Free]
FlashAfter(r, flash) == IF flash # None THEN flash ELSE IF req[r].flash # None THEN None ELSE jar.flash

(* A redirect may set a message, and the token of a kept log.              *)
Redirect(r, flash, token) ==
  /\ Answered(r)
  /\ jar' = [flash |-> FlashAfter(r, flash), prevq |-> IF token = 0 THEN jar.prevq ELSE token]

(* takePrevQueries: the page shows the log the request had the token of.   *)
take_Keeps(token) ==
  /\ prev' = prev
  /\ shown' = IF token \in prev.kept THEN [shown EXCEPT ![token] = @ + 1] ELSE shown
take(token) ==
  /\ prev' = [prev EXCEPT !.kept = @ \ {token}, !.fresh = @ \ {token}]
  /\ shown' = IF token \in prev.kept THEN [shown EXCEPT ![token] = @ + 1] ELSE shown

Render(r) ==
  /\ Answered(r)
  /\ take(req[r].prevq)
  /\ jar' = [flash |-> FlashAfter(r, None), prevq |-> IF req[r].prevq = 0 THEN jar.prevq ELSE 0]

(* put: what was kept for more than 5 minutes is thrown away.              *)
put(token) == prev' = [kept |-> prev.fresh \cup {token}, fresh |-> prev.fresh \cup {token}]

(* The middleware answers a panic: no page, no redirect.                   *)
Recover(r) ==
  /\ Answered(r)
  /\ jar' = [jar EXCEPT !.flash = FlashAfter(r, None)]

(* 5 minutes pass: the cookies expire.                                     *)
Pause ==
  /\ jar # NoCookies /\ jar' = NoCookies
  /\ prev' = [prev EXCEPT !.fresh = {}]
  /\ UNCHANGED <<raceVars, running, results, req, count, shown, command>>

-----------------------------------------------------------------------------
(* raceRun.                                                                *)

RaceArrives(r) ==
  /\ Arrive(r, "race") /\ Offered[count + 1] # {}
  /\ UNCHANGED <<raceVars, running, results, jar, prev, shown, command>>

MayStart_Always == TRUE
MayStart == running = None

StartRace(r) ==
  /\ req[r].at = "race" /\ MayStart
  /\ \E id \in Offered[req[r].id] :
       /\ running' = id /\ Begin(r, id)
       /\ req' = [req EXCEPT ![r].at = "racing"]
  /\ UNCHANGED <<db, opened, path, wal, disturbed, results, jar, prev, count, shown, command>>

RefuseRace(r) ==
  /\ req[r].at = "race" /\ ~MayStart
  /\ Redirect(r, running, 0)
  /\ UNCHANGED <<raceVars, running, results, prev, count, shown, command>>

Clears_OnSuccess(r) == running' = IF At(r, "done") THEN None ELSE running
Clears(r) == running' = None

PublishRace(r) ==
  /\ req[r].at = "racing" /\ run[r].pc \in {"done", "failed"}
  /\ Clears(r)
  /\ run' = [run EXCEPT ![r] = Idle]
  /\ \/ /\ At(r, "done")
        /\ results' = [id \in DOMAIN results \cup {run[r].sc} |->
                       IF id = run[r].sc THEN run[r].res ELSE results[id]]
        /\ Redirect(r, None, 0) /\ UNCHANGED <<prev, shown>>
     \/ At(r, "failed") /\ Render(r) /\ UNCHANGED results
  /\ UNCHANGED <<db, opened, path, wal, disturbed, count, command>>

RacePanics(r) ==
  /\ req[r].at = "racing" /\ At(r, "panic")
  /\ run' = [run EXCEPT ![r] = Idle]
  /\ Recover(r)
  /\ UNCHANGED <<db, opened, path, wal, disturbed, running, results, prev, count, shown, command>>

(* raceList, and any other page: shows, changes nothing else.              *)
ShowPage(r) ==
  /\ \/ Arrive(r, "page") /\ UNCHANGED <<jar, prev, shown>>
     \/ req[r].at = "page" /\ Render(r) /\ UNCHANGED count
  /\ UNCHANGED <<raceVars, running, results, command>>

(* A POST of the store: its log is kept under a new token (keepQueries),   *)
(* unless it fails, which shows a page.                                    *)
Post(r) ==
  /\ \/ Arrive(r, "post") /\ UNCHANGED <<jar, prev, shown>>
     \/ req[r].at = "post" /\ put(req[r].id) /\ Redirect(r, None, req[r].id) /\ UNCHANGED <<count, shown>>
     \/ req[r].at = "post" /\ Render(r) /\ UNCHANGED count
  /\ UNCHANGED <<raceVars, running, results, command>>

Handle(r) ==
  \/ StartRace(r) \/ RefuseRace(r) \/ PublishRace(r) \/ RacePanics(r)
  \/ req[r] # Free /\ (ShowPage(r) \/ Post(r))

Serve(p) == Race(p) /\ UNCHANGED webVars

-----------------------------------------------------------------------------
(* runBench: the first error stops the command; a panic ends its process.  *)
CommandRaces ==
  /\ At(Command, "idle") /\ command \in DOMAIN Asked
  /\ Begin(Command, Asked[command])
  /\ UNCHANGED <<db, opened, path, wal, disturbed, webVars>>

CommandPrints ==
  /\ run[Command].pc \in {"done", "failed", "panic"}
  /\ command' = IF At(Command, "done") THEN command + 1 ELSE Stopped
  /\ run' = [run EXCEPT ![Command] = Idle]
  /\ UNCHANGED <<db, opened, path, wal, disturbed, running, results, req, jar, prev, count, shown>>

(* The process is killed: its transaction is rolled back, its scratch file *)
(* stays.                                                                  *)
KillCommand ==
  /\ ~At(Command, "idle")
  /\ command' = Stopped
  /\ run' = [run EXCEPT ![Command] = Idle]
  /\ opened' = [opened EXCEPT ![Command] = NoFile] /\ UNCHANGED <<path, wal>>
  /\ Files(db) /\ disturbed' = disturbed \ {Command}
  /\ UNCHANGED <<running, results, req, jar, prev, count, shown>>

Next ==
  \/ \E r \in Request : RaceArrives(r) \/ StartRace(r) \/ RefuseRace(r) \/ PublishRace(r) \/ RacePanics(r)
                        \/ ShowPage(r) \/ Post(r)
  \/ \E p \in Racer : Serve(p)
  \/ CommandRaces \/ CommandPrints \/ KillCommand \/ Pause

(* A handler runs on; the commands that wait are cut off by the deadline   *)
(* of the race.  Nothing is assumed of the other process.                  *)
Fairness == \A r \in Request : WF_vars(Handle(r)) /\ WF_vars(Serve(r))

Spec == Init /\ [][Next]_vars
FairSpec == Spec /\ Fairness

-----------------------------------------------------------------------------
(* Every variable has its type.                                            *)
Message == DOMAIN scenarios \cup {None}
Handler == [at : {"free", "race", "racing", "page", "post"}, id : 0..MaxRequests,
            flash : Message, prevq : Nat]
TypeOK ==
  /\ RaceTypeOK
  /\ running \in Message
  /\ DOMAIN results \subseteq DOMAIN scenarios
  /\ \A id \in DOMAIN results : results[id] \in Seq(Measurement)
  /\ req \in [Request -> Handler] /\ jar \in [flash : Message, prevq : 0..count]
  /\ prev \in [kept : SUBSET (1..count), fresh : SUBSET (1..count)] /\ prev.fresh \subseteq prev.kept
  /\ count \in 0..MaxRequests /\ shown \in [1..MaxRequests -> Nat]
  /\ command \in Nat

(* Races asked for by two tabs at once: at most one request measures, and  *)
(* it is the one the flag was set for (raceState.mu, raceRun).             *)
MeasuredAlone ==
  \A r, s \in {q \in Request : req[q].at = "racing"} : r = s /\ run[r].sc = running

(* When a visitor is refused because a race "is still running", one is     *)
(* (raceRun's message); false when a handler panics with the flag set.     *)
RefusedOnlyWhileRunning ==
  running # None => \E r \in Request : req[r].at = "racing" 

(* "closing the tab must not leave half-measured results": whatever was    *)
(* cancelled or timed out, a result on the page has one measurement for    *)
(* each variant, all of one run.                                           *)
ResultsAreWhole ==
  \A id \in DOMAIN results : Len(results[id]) = Len(scenarios[id].variants)

(* However the writers of a test conflict, fail or wait, a measurement     *)
(* without an error accounts for every update that was to be made, and on  *)
(* Postgres, where the second writer waits, every update succeeds.         *)
EveryUpdateIsCounted ==
  \A p \in Racer : \A i \in DOMAIN run[p].res : Right(Variants(p)[i], run[p].res[i])

(* What a DuckDB write test counts as done is in the file it has open,     *)
(* although a test of the other process may take the names of the file and *)
(* of its log away at any time, or leave a log of its own (scratch); and   *)
(* what a Postgres write test counts is in its table, unless another racer *)
(* wrote to that table after this one had made it.  Nothing is said of     *)
(* such a table, and nothing could be: an update that finds no row counts. *)
TablesHoldTheirOps ==
  \A p \in Racer :
    /\ At(p, "close") \/ (At(p, "measured") /\ Undisturbed(p))
    /\ ~run[p].m.err /\ Variant(p).exec \notin {"read", "bulk"}
    => Done(p) = run[p].m.ops

(* The measurements of a write test count what was done, no more and no    *)
(* less: on DuckDB whatever runs beside it, on Postgres as long as nobody  *)
(* else writes to its table; and every update is accounted for anyway.     *)
CountsAreTrue == EveryUpdateIsCounted /\ TablesHoldTheirOps

(* A log is shown on one page at most, whatever two tabs ask for at once   *)
(* (prevStore.take).                                                       *)
ShownOnce == \A t \in DOMAIN shown : shown[t] <= 1

(* A request has a run of its own while it measures, and at no other time. *)
RunsAreOwned ==
  \A r \in Request : req[r].at = "racing" <=> run[r].pc # "idle"

(* A token belongs to one request.  The log under it was not shown before  *)
(* it is kept, nor while it is.                                            *)
TokensAreUnique ==
  /\ \A r \in Request : IF req[r].at = "free" THEN req[r] = Free ELSE req[r].id \in 1..count
  /\ \A r, s \in Request : req[r].at # "free" /\ req[r].id = req[s].id => r = s
  /\ \A r \in Request : req[r].at = "post" => shown[req[r].id] = 0 /\ req[r].id \notin prev.kept
  /\ \A t \in 1..MaxRequests : t \in prev.kept \/ t > count => shown[t] = 0

(* Together: the inductive invariant of the server.                        *)
ServerInv ==
  TypeOK /\ MeasuredAlone /\ RunsAreOwned /\ TokensAreUnique /\ ResultsAreWhole /\ ShownOnce
  /\ \A p \in Racer : RacerInv(p)

(* The flag is cleared: a race ends whatever it waits for, fails or is cut *)
(* off, and the next one may start; unless the handler panics, the one way *)
(* out of raceRun that leaves the flag set.                                *)
FlagIsCleared == (<>\E r \in Request : At(r, "panic")) \/ []<>(running = None)
=============================================================================
