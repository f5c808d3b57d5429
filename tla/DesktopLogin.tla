---------------------------- MODULE DesktopLogin ----------------------------
(***************************************************************************)
(* The browser login of the desktop app's main process                     *)
(* (web/apps/electron/src/main/oidc-login-flow.ts).                        *)
(*                                                                         *)
(* Every call of runLogin is an attempt with a closure of its own: the     *)
(* continuation it waits for (task) and the result its promise resolved    *)
(* with, which is also the closure's settled flag.  The module variables   *)
(* inProgress and current are shared by all the attempts.  A redirect whose*)
(* state matches no live flow changes nothing and is not an action.        *)
(***************************************************************************)
EXTENDS Naturals, FiniteSets

CONSTANTS MaxAttempts, \* bound: calls of auth:login
          Transport,   \* how the redirect is caught: "loopback" or "scheme"
          None

ASSUME LoginAssumption ==
    /\ MaxAttempts \in Nat \ {0}
    /\ Transport \in {"loopback", "scheme"}

VARIABLES inProgress, \* the slot claimed synchronously by runLogin
          current,    \* the live flow: its attempt and whether state is filled
          task,       \* what the attempt's closure is waiting for
          result,     \* what the attempt resolved with, "unset" until then
          exchanges   \* observer: code exchanges started by the attempt

loginVars == <<inProgress, current, task, result, exchanges>>

(* The calls, numbered in the order they are made. *)
Attempts == 1..MaxAttempts

Tasks == {"new", "discover", "listen", "build", "browser", "exchange", "done"}

(* No live flow is told apart from every flow. *)
ASSUME NoFlowAssumption == None \notin Attempts \cup [flow : Attempts, state : BOOLEAN]

(* Every error code is "failed". *)
Results == {"unset", "ok", "failed"}

(* A login's task, result and slot, its redirect transport and the codes it   *)
(* has seen.                                                                *)
LoginTypeOK ==
    /\ inProgress \in BOOLEAN
    /\ current \in [flow : Attempts, state : BOOLEAN] \cup {None}
    /\ task \in [Attempts -> Tasks]
    /\ result \in [Attempts -> Results]
    /\ exchanges \in [Attempts -> 0..2]

LoginInit ==
    /\ inProgress = FALSE
    /\ current = None
    /\ task = [f \in Attempts |-> "new"]
    /\ result = [f \in Attempts |-> "unset"]
    /\ exchanges = [f \in Attempts |-> 0]

Settled(f) == result[f] # "unset"

(* The attempt holds the slot: runLogin has claimed it and has not settled. *)
Live(f) == task[f] # "new" /\ ~Settled(f)

(* The next call of auth:login. *)
IsNext(f) == task[f] = "new" /\ \A e \in 1..(f - 1) : task[e] # "new"

Goto(f, t) == task' = [task EXCEPT ![f] = t]

(* finish: the single settle path.  It is idempotent, and the first call    *)
(* frees the slot and the live flow whatever the attempt waits for.         *)
Finish(f, r) ==
    IF Settled(f)
      THEN UNCHANGED <<result, current, inProgress>>
      ELSE /\ result' = [result EXCEPT ![f] = r]
           /\ current' = None
           /\ inProgress' = FALSE

(* What a flow still waits for once it is settled: the open browser, no more.*)
Drop(f) ==
    Goto(f, IF task[f] = "browser" THEN "done" ELSE task[f])

(* auth:login while another login holds the slot. *)
RunLoginBusy(f) ==
    /\ IsNext(f)
    /\ inProgress
    /\ Goto(f, "done")
    /\ result' = [result EXCEPT ![f] = "failed"]
    /\ UNCHANGED <<inProgress, current, exchanges>>

(* auth:login claims the slot and waits for the provider's configuration.   *)
RunLogin(f) ==
    /\ IsNext(f)
    /\ ~inProgress
    /\ inProgress' = TRUE
    /\ Goto(f, "discover")
    /\ UNCHANGED <<current, result, exchanges>>

DiscoveryFailed(f) ==
    /\ task[f] = "discover"
    /\ inProgress' = FALSE
    /\ result' = [result EXCEPT ![f] = "failed"]
    /\ Goto(f, "done")
    /\ UNCHANGED <<current, exchanges>>

(* The promise's executor: the flow is registered with an empty state, the  *)
(* timer is set, and the loopback server is bound or begin called directly. *)
Discovered(f) ==
    /\ task[f] = "discover"
    /\ current' = [flow |-> f, state |-> FALSE]
    /\ Goto(f, IF Transport = "scheme" THEN "build" ELSE "listen")
    /\ UNCHANGED <<inProgress, result, exchanges>>

(* The server's listening callback; a settled flow still calls begin.       *)
Listening(f) ==
    /\ task[f] = "listen"
    /\ Goto(f, "build")
    /\ UNCHANGED <<inProgress, current, result, exchanges>>

(* No usable address, or the server's error event, at any time it exists.   *)
ServerError(f) ==
    /\ Transport = "loopback"
    /\ task[f] \in {"listen", "build", "browser", "exchange"}
    /\ Goto(f, IF task[f] \in {"listen", "browser"} THEN "done" ELSE task[f])
    /\ Finish(f, "failed")
    /\ UNCHANGED exchanges

(* begin after the authorize request is built: nothing when the flow was    *)
(* settled meanwhile, otherwise the flow is live and the browser is opened. *)
Built(f) ==
    /\ task[f] = "build"
    /\ IF Settled(f)
         THEN /\ Goto(f, "done")
              /\ UNCHANGED current
         ELSE /\ Goto(f, "browser")
              /\ current' = [flow |-> f, state |-> TRUE]
    /\ UNCHANGED <<inProgress, result, exchanges>>

BuildFailed(f) ==
    /\ task[f] = "build"
    /\ Goto(f, "done")
    /\ Finish(f, "failed")
    /\ UNCHANGED exchanges

(* shell.openExternal rejects; nothing orders it before the redirect.       *)
BrowserOpenFailed(f) ==
    /\ task[f] \in {"browser", "exchange"}
    /\ Drop(f)
    /\ Finish(f, "failed")
    /\ UNCHANGED exchanges

(* Mutant: the timer is cleared when the redirect is caught. *)
Timeout_UntilRedirect(f) ==
    /\ task[f] \in {"listen", "build", "browser"}
    /\ ~Settled(f)
    /\ Drop(f)
    /\ Finish(f, "failed")
    /\ UNCHANGED exchanges

(* The five-minute timer, cleared only by finish. *)
Timeout(f) ==
    /\ task[f] \in {"listen", "build", "browser", "exchange"}
    /\ ~Settled(f)
    /\ Drop(f)
    /\ Finish(f, "failed")
    /\ UNCHANGED exchanges

(* cancelLogin settles the live flow.  Between the redirect and the end of  *)
(* the exchange there is none, and during discovery there is none yet.      *)
CancelLogin ==
    /\ current # None
    /\ Drop(current.flow)
    /\ Finish(current.flow, "failed")
    /\ UNCHANGED exchanges

(* handleLoopback and handleAuthCallbackDeepLink: a redirect that carries   *)
(* the live flow's state consumes the flow before the exchange starts.      *)
Consumes(f) ==
    /\ current = [flow |-> f, state |-> TRUE]
    /\ current' = None

Redirect(f) ==
    /\ Consumes(f)
    /\ Goto(f, "exchange")
    /\ exchanges' = [exchanges EXCEPT ![f] = @ + 1]
    /\ UNCHANGED <<inProgress, result>>

(* A redirect that carries the provider's error: complete settles at once.  *)
RedirectError(f) ==
    /\ current = [flow |-> f, state |-> TRUE]
    /\ Goto(f, "done")
    /\ Finish(f, "failed")
    /\ UNCHANGED exchanges

ExchangeFailed(f) ==
    /\ task[f] = "exchange"
    /\ Goto(f, "done")
    /\ Finish(f, "failed")
    /\ UNCHANGED exchanges

(* The exchange answers with tokens.  login() adopts them in the same turn  *)
(* of the event loop exactly when the attempt resolves with them.           *)
Exchanged(f) ==
    /\ task[f] = "exchange"
    /\ Goto(f, "done")
    /\ Finish(f, "ok")
    /\ UNCHANGED exchanges

(* The process ends: every closure and module variable is gone.             *)
LoginLost ==
    /\ inProgress' = FALSE
    /\ current' = None
    /\ task' = [f \in Attempts |-> IF task[f] = "new" THEN "new" ELSE "done"]
    /\ result' = [f \in Attempts |-> IF Live(f) THEN "failed" ELSE result[f]]
    /\ UNCHANGED exchanges

(* The login's own steps, all but the one that delivers tokens.             *)
LoginStep(f) ==
    \/ DiscoveryFailed(f)
    \/ Discovered(f)
    \/ Listening(f)
    \/ ServerError(f)
    \/ Built(f)
    \/ BuildFailed(f)
    \/ BrowserOpenFailed(f)
    \/ Timeout(f)
    \/ Redirect(f)
    \/ RedirectError(f)
    \/ ExchangeFailed(f)

(* Exactly one login runs at a time: the slot is taken exactly while one    *)
(* attempt is live, and the live flow is that attempt's.                    *)
OneLogin ==
    /\ Cardinality({f \in Attempts : Live(f)}) = (IF inProgress THEN 1 ELSE 0)
    /\ current # None => Live(current.flow)

(* A duplicate callback (a browser retry, a second deep link) never drives  *)
(* a second exchange of the flow's code.                                    *)
CodeExchangedOnce == \A f \in Attempts : exchanges[f] <= 1

=============================================================================
