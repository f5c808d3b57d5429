----------------------------- MODULE WebSession -----------------------------
(***************************************************************************)
(* The web app's server-side session (web/apps/start/src): the web_sessions*)
(* rows (server/oidc/session-store.ts), the single-flighted token refresh  *)
(* (server/oidc/session.ts), the API proxy (routes/api/v1/$.ts), the token *)
(* of a server-side render (server/oidc/ssr-token.ts), sign-in, callback   *)
(* and logout (routes/auth).                                               *)
(*                                                                         *)
(* One browser with several tabs talks to several server processes that    *)
(* share the rows.  Every await is a point where other requests run.  A    *)
(* session is named by the sign-in that created it; its refresh tokens by  *)
(* their generation.                                                       *)
(***************************************************************************)
EXTENDS Naturals, FiniteSets

CONSTANTS Replicas,     \* server processes
          Requests,     \* requests under way at once
          MaxLogins,    \* bound: sign-ins
          MaxGen,       \* bound: refresh-token rotations per session
          MaxFaults,    \* bound: process crashes and lost row updates
          None

ASSUME WebSessionAssumption ==
    /\ MaxLogins \in Nat \ {0}
    /\ MaxGen \in Nat
    /\ MaxFaults \in Nat

VARIABLES rows,      \* web_sessions
          idp,       \* Keycloak: newest generation and revocation, by session
          flight,    \* inflightRefresh of every process, by session
          req,       \* the requests being served
          cookie,    \* the browser's session cookie
          tx,        \* the browser's login-transaction cookie
          login,     \* where each sign-in stands
          faults,
          torn,      \* observer: sessions with a rotation no row received
          crossed,   \* observer: sessions refreshed by two processes at once
          reused     \* observer: sessions whose spent token was presented

observers == <<torn, crossed, reused>>
vars == <<rows, idp, flight, req, cookie, tx, login, faults, observers>>

Sessions == 1..MaxLogins
Gens == 0..MaxGen
Row == [gen : Gens, fresh : BOOLEAN, lapsed : BOOLEAN]
Flight == [stage : {"read", "sent", "granted", "refused", "lapsed"},
           gen : Gens, next : Gens]
Idle == [kind |-> "none"]
Served == [kind : {"proxy", "ssr", "logout"}, sid : Sessions, at : Replicas,
           stage : {"load", "lapsed", "join", "wait", "delete", "clear"}, late : BOOLEAN]

(* No row, no flight and no cookie are told apart from every one there is.  *)
ASSUME NoneAssumption == None \notin Sessions \cup Row \cup Flight

(* Rows, flights and requests have their types, and the cookie names a      *)
(* session or is absent.                                                    *)
TypeOK ==
    /\ rows \in [Sessions -> Row \cup {None}]
    /\ idp \in [Sessions -> [gen : Gens, revoked : BOOLEAN]]
    /\ flight \in [Replicas -> [Sessions -> Flight \cup {None}]]
    /\ req \in [Requests -> Served \cup {Idle}]
    /\ cookie \in Sessions \cup {None}
    /\ tx \in Sessions \cup {None}
    /\ login \in [Sessions -> {"new", "browser", "match", "mismatch", "done"}]
    /\ faults \in 0..MaxFaults
    /\ torn \in SUBSET Sessions
    /\ crossed \in SUBSET Sessions
    /\ reused \in SUBSET Sessions

Init ==
    /\ rows = [s \in Sessions |-> None]
    /\ idp = [s \in Sessions |-> [gen |-> 0, revoked |-> FALSE]]
    /\ flight = [p \in Replicas |-> [s \in Sessions |-> None]]
    /\ req = [q \in Requests |-> Idle]
    /\ cookie = None
    /\ tx = None
    /\ login = [s \in Sessions |-> "new"]
    /\ faults = 0
    /\ torn = {}
    /\ crossed = {}
    /\ reused = {}

-----------------------------------------------------------------------------
(* Sign-in.  The transaction cookie is one per browser.                     *)

SignIn(s) ==
    /\ login[s] = "new" /\ \A e \in 1..(s - 1) : login[e] # "new"
    /\ login' = [login EXCEPT ![s] = "browser"]
    /\ tx' = s
    /\ UNCHANGED <<rows, idp, flight, req, cookie, faults, observers>>

(* Keycloak sends the browser to /auth/callback with sign-in s's state; the *)
(* handler compares it with the transaction the browser holds by then.      *)
Callback(s) ==
    /\ login[s] = "browser"
    /\ login' = [login EXCEPT ![s] = IF tx = s THEN "match" ELSE "mismatch"]
    /\ UNCHANGED <<rows, idp, flight, req, cookie, tx, faults, observers>>

(* createSession under a fresh id; both cookies ride the redirect.          *)
CallbackDone(s) ==
    /\ login[s] = "match"
    /\ login' = [login EXCEPT ![s] = "done"]
    /\ rows' = [rows EXCEPT ![s] = [gen |-> 0, fresh |-> TRUE, lapsed |-> FALSE]]
    /\ cookie' = s
    /\ tx' = None
    /\ UNCHANGED <<idp, flight, req, faults, observers>>

(* No transaction, another one's, or a failed exchange: the transaction     *)
(* cookie is cleared, whichever sign-in wrote it, and the browser restarts. *)
CallbackFails(s) ==
    /\ login[s] \in {"match", "mismatch"}
    /\ login' = [login EXCEPT ![s] = "done"]
    /\ tx' = None
    /\ UNCHANGED <<rows, idp, flight, req, cookie, faults, observers>>

(* Discovery or the insert of the row fails: an error page that leaves the  *)
(* transaction cookie.  As long as the code is not spent, the page can be   *)
(* loaded again.                                                            *)
CallbackBreaks(s) ==
    /\ login[s] \in {"match", "mismatch"}
    /\ \E stage \in {"browser", "done"} : login' = [login EXCEPT ![s] = stage]
    /\ UNCHANGED <<rows, idp, flight, req, cookie, tx, faults, observers>>

-----------------------------------------------------------------------------
(* Requests. *)

Set(q, stage) == req' = [req EXCEPT ![q].stage = stage]

Done(q) == req' = [req EXCEPT ![q] = Idle]

(* An API call, a server-side render or a logout arrives with the cookie.   *)
Arrive(q, kind, p) ==
    /\ req[q] = Idle
    /\ cookie # None
    /\ req' = [req EXCEPT ![q] =
         [kind |-> kind, sid |-> cookie, at |-> p, stage |-> "load",
          late |-> rows[cookie] = None]]
    /\ UNCHANGED <<rows, idp, flight, cookie, tx, login, faults, observers>>

Loading(q) == req[q] # Idle /\ req[q].stage = "load"

(* getSession finds no row: 401 with the cookie left as it is, or null.     *)
LoadNothing(q) ==
    /\ Loading(q) /\ req[q].kind # "logout"
    /\ rows[req[q].sid] = None
    /\ Done(q)
    /\ UNCHANGED <<rows, idp, flight, cookie, tx, login, faults, observers>>

(* getSession finds a row past its horizon, and deletes it next.            *)
LoadLapsed(q) ==
    /\ Loading(q) /\ req[q].kind # "logout"
    /\ rows[req[q].sid] # None /\ rows[req[q].sid].lapsed
    /\ Set(q, "lapsed")
    /\ UNCHANGED <<rows, idp, flight, cookie, tx, login, faults, observers>>

DeleteLapsed(q) ==
    /\ req[q] # Idle /\ req[q].stage = "lapsed"
    /\ rows' = [rows EXCEPT ![req[q].sid] = None]
    /\ Done(q)
    /\ UNCHANGED <<idp, flight, cookie, tx, login, faults, observers>>

(* A fresh access token: the request is forwarded.                          *)
LoadFresh(q) ==
    /\ Loading(q) /\ req[q].kind # "logout"
    /\ rows[req[q].sid] # None
    /\ rows[req[q].sid].fresh /\ ~rows[req[q].sid].lapsed
    /\ Done(q)
    /\ UNCHANGED <<rows, idp, flight, cookie, tx, login, faults, observers>>

(* Mutant: the flight is started for the request, whoever flies already.    *)
Joined_Always(p, s) ==
    [flight EXCEPT ![p][s] = [stage |-> "read", gen |-> 0, next |-> 0]]

(* refreshSession: join this process's flight for the session, or start one.*)
Joined(p, s) ==
    IF flight[p][s] # None THEN flight
    ELSE [flight EXCEPT ![p][s] = [stage |-> "read", gen |-> 0, next |-> 0]]

(* A stale access token, as the row was when it was read.                   *)
LoadStale(q) ==
    /\ Loading(q) /\ req[q].kind # "logout"
    /\ rows[req[q].sid] # None
    /\ ~rows[req[q].sid].fresh /\ ~rows[req[q].sid].lapsed
    /\ Set(q, "join")
    /\ UNCHANGED <<rows, idp, flight, cookie, tx, login, faults, observers>>

JoinFlight(q) ==
    /\ req[q] # Idle /\ req[q].stage = "join"
    /\ Set(q, "wait")
    /\ flight' = Joined(req[q].at, req[q].sid)
    /\ UNCHANGED <<rows, idp, cookie, tx, login, faults, observers>>

(* deleteSession after a failed refresh, and by a logout (whose read of the *)
(* row is for the end-session hint only).                                   *)
DeleteSession(q) ==
    /\ req[q] # Idle
    /\ \/ req[q].stage = "delete"
       \/ req[q].kind = "logout" /\ req[q].stage = "load"
    /\ rows' = [rows EXCEPT ![req[q].sid] = None]
    /\ Set(q, "clear")
    /\ UNCHANGED <<idp, flight, cookie, tx, login, faults, observers>>

(* The response clears the session cookie, whichever session is in it now.  *)
ClearCookie(q) ==
    /\ req[q] # Idle /\ req[q].stage = "clear"
    /\ cookie' = None
    /\ Done(q)
    /\ UNCHANGED <<rows, idp, flight, tx, login, faults, observers>>

-----------------------------------------------------------------------------
(* The flight of session s in process p. *)

Waiting(p, s) ==
    {q \in Requests : req[q] # Idle /\ req[q].stage = "wait"
                      /\ req[q].at = p /\ req[q].sid = s}

(* The flight resolves: every waiting request is forwarded.                 *)
Resolve(p, s) ==
    /\ flight' = [flight EXCEPT ![p][s] = None]
    /\ req' = [q \in Requests |-> IF q \in Waiting(p, s) THEN Idle ELSE req[q]]

(* Mutant: a rejection reaches the proxy's requests only. *)
Reject_ProxyOnly(p, s) ==
    /\ flight' = [flight EXCEPT ![p][s] = None]
    /\ req' = [q \in Requests |->
                 IF q \in Waiting(p, s) /\ req[q].kind = "proxy"
                   THEN [req[q] EXCEPT !.stage = "delete"] ELSE req[q]]

(* The flight rejects: the proxy's requests go on to delete the row, a      *)
(* render does without a token.                                             *)
Reject(p, s) ==
    /\ flight' = [flight EXCEPT ![p][s] = None]
    /\ req' = [q \in Requests |->
                 IF q \notin Waiting(p, s) THEN req[q]
                 ELSE IF req[q].kind = "proxy"
                        THEN [req[q] EXCEPT !.stage = "delete"] ELSE Idle]

(* The row is read again inside the flight: a dead one rejects, a fresh one *)
(* is returned as it is, and only a stale one's token is spent.             *)
FlightReads(p, s) ==
    /\ flight[p][s] # None /\ flight[p][s].stage = "read"
    /\ CASE rows[s] = None -> Reject(p, s) /\ UNCHANGED crossed
         [] rows[s] # None /\ rows[s].lapsed ->
              /\ flight' = [flight EXCEPT ![p][s].stage = "lapsed"]
              /\ UNCHANGED <<req, crossed>>
         [] rows[s] # None /\ ~rows[s].lapsed /\ rows[s].fresh ->
              Resolve(p, s) /\ UNCHANGED crossed
         [] OTHER ->
              /\ flight' = [flight EXCEPT ![p][s] =
                   [stage |-> "sent", gen |-> rows[s].gen, next |-> rows[s].gen]]
              /\ crossed' = IF \E o \in Replicas \ {p} : flight[o][s] # None
                              THEN crossed \cup {s} ELSE crossed
              /\ UNCHANGED req
    /\ UNCHANGED <<rows, idp, cookie, tx, login, faults, torn, reused>>

FlightDeletesLapsed(p, s) ==
    /\ flight[p][s] # None /\ flight[p][s].stage = "lapsed"
    /\ rows' = [rows EXCEPT ![s] = None]
    /\ Reject(p, s)
    /\ UNCHANGED <<idp, cookie, tx, login, faults, observers>>

(* External: Keycloak answers the grant.  A spent token revokes the family. *)
IdpAnswers(p, s) ==
    /\ flight[p][s] # None /\ flight[p][s].stage = "sent"
    /\ IF flight[p][s].gen = idp[s].gen /\ ~idp[s].revoked
         THEN \E g \in {flight[p][s].gen, flight[p][s].gen + 1} \cap Gens :
                /\ flight' = [flight EXCEPT ![p][s].stage = "granted",
                                            ![p][s].next = g]
                /\ idp' = [idp EXCEPT ![s].gen = g]
                /\ UNCHANGED reused
         ELSE /\ flight' = [flight EXCEPT ![p][s].stage = "refused"]
              /\ idp' = [idp EXCEPT ![s].revoked = TRUE]
              /\ reused' = IF idp[s].revoked THEN reused ELSE reused \cup {s}
    /\ UNCHANGED <<rows, req, cookie, tx, login, faults, torn, crossed>>

(* Mutant: the update inserts the row when it is gone. *)
UpdateSession_Upsert(s, g) ==
    rows' = [rows EXCEPT ![s] = [gen |-> g, fresh |-> TRUE, lapsed |-> FALSE]]

(* updateSession: UPDATE ... WHERE id, which changes no row that is gone.   *)
UpdateSession(s, g) ==
    rows' = [rows EXCEPT ![s] =
               IF @ = None THEN None
               ELSE [gen |-> g, fresh |-> TRUE, lapsed |-> FALSE]]

FlightWrites(p, s) ==
    /\ flight[p][s] # None /\ flight[p][s].stage = "granted"
    /\ UpdateSession(s, flight[p][s].next)
    /\ Resolve(p, s)
    /\ UNCHANGED <<idp, cookie, tx, login, faults, observers>>

(* Keycloak refused. *)
FlightRefused(p, s) ==
    /\ flight[p][s] # None /\ flight[p][s].stage = "refused"
    /\ Reject(p, s)
    /\ UNCHANGED <<rows, idp, cookie, tx, login, faults, observers>>

Lost(p, s) == flight[p][s] # None /\ flight[p][s].gen # idp[s].gen
                /\ flight[p][s].stage \in {"sent", "granted"}

(* Discovery, the network or the row update fails. *)
FlightFails(p, s) ==
    /\ flight[p][s] # None
    /\ faults < MaxFaults
    /\ faults' = faults + 1
    /\ torn' = IF Lost(p, s) THEN torn \cup {s} ELSE torn
    /\ Reject(p, s)
    /\ UNCHANGED <<rows, idp, cookie, tx, login, crossed, reused>>

(* A server process dies with its flights and its requests. *)
Crash(p) ==
    /\ faults < MaxFaults
    /\ faults' = faults + 1
    /\ torn' = torn \cup {s \in Sessions : Lost(p, s)}
    /\ flight' = [flight EXCEPT ![p] = [s \in Sessions |-> None]]
    /\ req' = [q \in Requests |->
                 IF req[q] # Idle /\ req[q].at = p THEN Idle ELSE req[q]]
    /\ UNCHANGED <<rows, idp, cookie, tx, login, crossed, reused>>

-----------------------------------------------------------------------------
(* Time. *)

Expire(s) ==
    /\ rows[s] # None /\ rows[s].fresh
    /\ rows' = [rows EXCEPT ![s].fresh = FALSE]
    /\ UNCHANGED <<idp, flight, req, cookie, tx, login, faults, observers>>

(* Thirty days without a refresh. *)
Lapse(s) ==
    /\ rows[s] # None /\ ~rows[s].lapsed
    /\ rows' = [rows EXCEPT ![s].fresh = FALSE, ![s].lapsed = TRUE]
    /\ UNCHANGED <<idp, flight, req, cookie, tx, login, faults, observers>>

(* The worker's purge_web_sessions job: one DELETE of every lapsed row. *)
Purge ==
    /\ \E s \in Sessions : rows[s] # None /\ rows[s].lapsed
    /\ rows' = [s \in Sessions |->
                  IF rows[s] # None /\ rows[s].lapsed THEN None ELSE rows[s]]
    /\ UNCHANGED <<idp, flight, req, cookie, tx, login, faults, observers>>

-----------------------------------------------------------------------------
Handle(q) ==
    \/ LoadNothing(q) \/ LoadLapsed(q) \/ DeleteLapsed(q) \/ LoadFresh(q)
    \/ LoadStale(q) \/ JoinFlight(q) \/ DeleteSession(q) \/ ClearCookie(q)

Fly(p, s) ==
    \/ FlightReads(p, s) \/ FlightDeletesLapsed(p, s) \/ IdpAnswers(p, s)
    \/ FlightWrites(p, s) \/ FlightRefused(p, s)

Next ==
    \/ \E s \in Sessions : SignIn(s) \/ Callback(s)
                           \/ CallbackDone(s) \/ CallbackFails(s) \/ CallbackBreaks(s)
    \/ \E q \in Requests, k \in {"proxy", "ssr", "logout"}, p \in Replicas :
         Arrive(q, k, p)
    \/ \E q \in Requests : Handle(q)
    \/ \E p \in Replicas, s \in Sessions : Fly(p, s) \/ FlightFails(p, s)
    \/ \E p \in Replicas : Crash(p)
    \/ \E s \in Sessions : Expire(s) \/ Lapse(s)
    \/ Purge

(* The database and Keycloak answer every call that is not failed. *)
Fairness ==
    /\ \A q \in Requests : WF_vars(Handle(q))
    /\ \A p \in Replicas, s \in Sessions : WF_vars(Fly(p, s))

Spec == Init /\ [][Next]_vars /\ Fairness

-----------------------------------------------------------------------------
(* One process never spends a refresh token twice, in a burst or in two     *)
(* refreshes one after the other.  Keycloak sees a spent token only when a  *)
(* rotation reached no row or two processes refreshed the session at once.  *)
SpentOncePerProcess == reused \subseteq torn \cup crossed

(* Between refreshes the row holds Keycloak's newest token: no late write   *)
(* puts an older set over a newer one.                                      *)
RowIsCurrent ==
    \A s \in Sessions \ (torn \cup crossed) :
       rows[s] # None /\ (\A p \in Replicas : flight[p][s] = None)
         => rows[s].gen = idp[s].gen

(* Revocation is a row delete, for good: a refresh that was under way when  *)
(* the user signed out does not bring the session back.                     *)
RevokedForGood ==
    [][\A s \in Sessions : login[s] = "done" /\ rows[s] = None => rows'[s] = None]_vars

(* A request that arrives when the session is gone is refused at the first  *)
(* read: it never waits for, or profits from, a flight started earlier.     *)
RefusedOnceGone ==
    \A q \in Requests : req[q] # Idle /\ req[q].late /\ req[q].kind # "logout"
                          => req[q].stage = "load"

(* The tokens in the rows are the ones Keycloak still takes, whatever      *)
(* burst of requests, late flights and sign-outs the session sees, and a   *)
(* session that is gone serves nobody.                                     *)
TokensKept == TypeOK /\ SpentOncePerProcess /\ RowIsCurrent /\ RefusedOnceGone

(* Every request is answered, whatever happens to the flight it joined.     *)
Answered == \A q \in Requests : (req[q] # Idle) ~> (req[q] = Idle)

(* Clearing the cookie of a dead session leaves a newer sign-in alone.      *)
ClearsOwnCookie ==
    [][\A s \in Sessions : cookie = s /\ cookie' = None => rows[s] = None]_vars

=============================================================================
