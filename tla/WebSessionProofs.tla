-------------------------- MODULE WebSessionProofs --------------------------
(***************************************************************************)
(* The web session's rows and Keycloak agree for any number of server      *)
(* processes, requests, sign-ins, rotations and faults.  RowIsCurrent says *)
(* nothing of a session with a refresh under way; the invariant that is    *)
(* inductive follows the refresh token through the flight: the row, the    *)
(* flight's token and Keycloak agree until the grant, the row and the      *)
(* flight's token until the write, and at most one process is past its     *)
(* read.                                                                   *)
(***************************************************************************)
EXTENDS WebSession, TLAPS

At(p, s, stages) == flight[p][s] # None /\ flight[p][s].stage \in stages

(* Nothing of a session exists before its sign-in has ended. *)
SignedInFirst ==
    /\ \A s \in Sessions : login[s] # "done" =>
         /\ rows[s] = None
         /\ idp[s].gen = 0
         /\ cookie # s
         /\ \A p \in Replicas : flight[p][s] = None
    /\ \A q \in Requests : req[q] # Idle => login[req[q].sid] = "done"

(* A session that is neither torn nor crossed. *)
Sound(s) == s \notin torn \cup crossed

OneSpender ==
    \A s \in Sessions : Sound(s) =>
        \A p, o \in Replicas :
            At(p, s, {"sent", "granted"}) /\ At(o, s, {"sent", "granted"}) => p = o

(* Where Keycloak's newest generation is while p refreshes session s.       *)
FlightAgrees(p, s) ==
    /\ ~At(p, s, {"refused"})
    /\ At(p, s, {"sent"}) => flight[p][s].gen = idp[s].gen
    /\ At(p, s, {"granted"}) => flight[p][s].next = idp[s].gen
    /\ At(p, s, {"sent", "granted"}) /\ rows[s] # None => rows[s].gen = flight[p][s].gen

NewestKept ==
    \A s \in Sessions : Sound(s) =>
        /\ ~idp[s].revoked
        /\ \A p \in Replicas : FlightAgrees(p, s)
        /\ rows[s] # None /\ (\A p \in Replicas : ~At(p, s, {"granted"}))
             => rows[s].gen = idp[s].gen

(* A request that came too late stays so, and never leaves its first read.  *)
LateInv ==
    \A q \in Requests : req[q] # Idle /\ req[q].late =>
        /\ rows[req[q].sid] = None
        /\ req[q].kind # "logout" => req[q].stage = "load"

SessionInv == /\ TypeOK
              /\ SignedInFirst
              /\ OneSpender
              /\ NewestKept
              /\ LateInv
              /\ SpentOncePerProcess

-----------------------------------------------------------------------------
(* Nothing has happened yet. *)
LEMMA SessionInit == Init => SessionInv
  BY WebSessionAssumption, NoneAssumption
     DEF Init, SessionInv, TypeOK, SignedInFirst, OneSpender, NewestKept, FlightAgrees, At,
         LateInv, SpentOncePerProcess, Sessions, Gens

(* What the handlers and the flights do to a request: it may end, and it    *)
(* may go on to another stage unless it came late.                          *)
RequestsFollow ==
    \A q \in Requests : req'[q] # Idle =>
        /\ req[q] # Idle
        /\ req'[q].kind = req[q].kind
        /\ req'[q].sid = req[q].sid
        /\ req'[q].late = req[q].late
        /\ req[q].late /\ req[q].kind # "logout" => req'[q].stage = req[q].stage

(* A session that is gone is not brought back, and no stage of a sign-in    *)
(* that has ended is taken again.                                           *)
GoneStays ==
    \A s \in Sessions : login[s] = "done" =>
        /\ login'[s] = "done"
        /\ rows[s] = None => rows'[s] = None

(* Such a step keeps a late request where it is and its session gone. *)
LEMMA LateFollows ==
  ASSUME SessionInv, RequestsFollow, GoneStays
  PROVE  LateInv' /\ \A q \in Requests : req'[q] # Idle => login'[req'[q].sid] = "done"
  <1> SUFFICES ASSUME NEW q \in Requests, req'[q] # Idle
               PROVE  /\ login'[req'[q].sid] = "done"
                      /\ req'[q].late => /\ rows'[req'[q].sid] = None
                                         /\ req'[q].kind # "logout" => req'[q].stage = "load"
    BY DEF LateInv
  <1>1. req[q] \in Served
    BY DEF RequestsFollow, SessionInv, TypeOK
  <1>2. req[q].sid \in Sessions
    BY <1>1 DEF Served
  <1> QED BY <1>2 DEF RequestsFollow, GoneStays, SessionInv, LateInv, SignedInFirst

(* The requests that wait for a flight follow it when it ends. *)
LEMMA WaitersFollow ==
  ASSUME SessionInv, NEW p \in Replicas, NEW s \in Sessions,
         Resolve(p, s) \/ Reject(p, s)
  PROVE  /\ RequestsFollow
         /\ req' \in [Requests -> Served \cup {Idle}]
         /\ flight' = [flight EXCEPT ![p][s] = None]
  <1>1. ASSUME NEW q \in Requests, q \in Waiting(p, s)
        PROVE  /\ req[q] # Idle /\ req[q] \in Served
               /\ ~(req[q].late /\ req[q].kind # "logout")
               /\ req'[q] = Idle \/ req'[q] = [req[q] EXCEPT !.stage = "delete"]
    BY <1>1 DEF Waiting, Resolve, Reject, SessionInv, TypeOK, LateInv
  <1>2. ASSUME NEW q \in Requests, q \notin Waiting(p, s) PROVE req'[q] = req[q]
    BY <1>2 DEF Resolve, Reject
  <1>3. req' \in [Requests -> Served \cup {Idle}]
    <2>1. ASSUME NEW q \in Requests PROVE req'[q] \in Served \cup {Idle}
      <3>1. req[q] \in Served \cup {Idle}
        BY DEF SessionInv, TypeOK
      <3>2. CASE q \in Waiting(p, s)
        <4>1. req[q] \in Served /\ (req'[q] = Idle \/ req'[q] = [req[q] EXCEPT !.stage = "delete"])
          BY <1>1, <3>2
        <4> QED BY <4>1 DEF Served
      <3> QED BY <1>2, <3>1, <3>2
    <2> QED BY <2>1 DEF Resolve, Reject
  <1>4. RequestsFollow
    BY <1>1, <1>2 DEF RequestsFollow, Served
  <1> QED BY <1>3, <1>4 DEF Resolve, Reject

-----------------------------------------------------------------------------
(* Most steps are calm: rows keep their token or go, a flight moves only    *)
(* where it spends no token, and one that ends after Keycloak rotated tears *)
(* its session.                                                             *)
RowsFollow ==
    \A s \in Sessions :
        rows'[s] # None => rows[s] # None /\ rows'[s].gen = rows[s].gen

FlightsFollow ==
    \A p \in Replicas, s \in Sessions :
        \/ flight'[p][s] = flight[p][s]
        \/ /\ ~At(p, s, {"sent", "granted", "refused"})'
           /\ Lost(p, s) => s \in torn'
           /\ login[s] = "done"

LoginsFollow == \A s \in Sessions : login[s] = "done" => login'[s] = "done"

Calm == /\ RowsFollow
        /\ FlightsFollow
        /\ LoginsFollow
        /\ cookie' \in {cookie, None}
        /\ torn \subseteq torn' /\ crossed \subseteq crossed'
        /\ UNCHANGED <<idp, reused>>

(* A calm step keeps Keycloak and the rows in agreement. *)
LEMMA CalmKeeps ==
  ASSUME SessionInv, Calm
  PROVE  /\ OneSpender' /\ NewestKept' /\ SpentOncePerProcess'
         /\ \A s \in Sessions : login'[s] # "done" =>
              /\ rows'[s] = None
              /\ idp'[s].gen = 0
              /\ cookie' # s
              /\ \A p \in Replicas : flight'[p][s] = None
  <1>1. OneSpender'
    BY DEF SessionInv, Calm, FlightsFollow, OneSpender, Sound, At
  <1>2. SpentOncePerProcess'
    BY DEF SessionInv, Calm, SpentOncePerProcess
  <1>3. ASSUME NEW s \in Sessions, Sound(s)' PROVE
              /\ ~idp'[s].revoked
              /\ \A p \in Replicas : FlightAgrees(p, s)'
              /\ rows'[s] # None /\ (\A p \in Replicas : ~At(p, s, {"granted"})')
                   => rows'[s].gen = idp'[s].gen
    <2>1. Sound(s) /\ s \notin torn'
      BY <1>3 DEF Calm, Sound
    <2>2. ~idp'[s].revoked
      BY <2>1 DEF SessionInv, NewestKept, Calm
    <2>3. ASSUME NEW p \in Replicas PROVE FlightAgrees(p, s)'
      <3>1. FlightAgrees(p, s)
        BY <2>1 DEF SessionInv, NewestKept
      <3>2. CASE flight'[p][s] = flight[p][s]
        BY <3>1, <3>2 DEF FlightAgrees, At, Calm, RowsFollow
      <3>3. CASE ~At(p, s, {"sent", "granted", "refused"})'
        BY <3>3 DEF FlightAgrees, At
      <3> QED BY <3>2, <3>3 DEF Calm, FlightsFollow
    <2>4. ASSUME rows'[s] # None, \A p \in Replicas : ~At(p, s, {"granted"})'
          PROVE  rows'[s].gen = idp'[s].gen
      <3>1. rows[s] # None /\ rows'[s].gen = rows[s].gen /\ idp' = idp
        BY <2>4 DEF Calm, RowsFollow
      <3>2. CASE \A p \in Replicas : ~At(p, s, {"granted"})
        BY <2>1, <3>1, <3>2 DEF SessionInv, NewestKept
      <3>3. ASSUME NEW p \in Replicas, At(p, s, {"granted"}) PROVE rows[s].gen = idp[s].gen
        <4>1. FlightAgrees(p, s)
          BY <2>1 DEF SessionInv, NewestKept
        <4>2. ~Lost(p, s)
          BY <2>1, <2>4, <3>3 DEF Calm, FlightsFollow, At
        <4> QED BY <3>1, <3>3, <4>1, <4>2 DEF FlightAgrees, Lost, At
      <3> QED BY <3>1, <3>2, <3>3
    <2> QED BY <2>2, <2>3, <2>4
  <1>4. NewestKept'
    BY <1>3 DEF NewestKept
  <1>5. ASSUME NEW s \in Sessions, login'[s] # "done" PROVE
              /\ rows'[s] = None
              /\ idp'[s].gen = 0
              /\ cookie' # s
              /\ \A p \in Replicas : flight'[p][s] = None
    BY <1>5, NoneAssumption
       DEF SessionInv, SignedInFirst, Calm, RowsFollow, FlightsFollow, LoginsFollow
  <1> QED BY <1>1, <1>2, <1>4, <1>5

(* With the requests following, it keeps the whole invariant. *)
LEMMA CalmStep ==
  ASSUME SessionInv, Calm, RequestsFollow, TypeOK'
  PROVE  SessionInv'
  <1>1. GoneStays
    BY DEF GoneStays, Calm, LoginsFollow, RowsFollow
  <1> QED BY <1>1, CalmKeeps, LateFollows DEF SessionInv, SignedInFirst

-----------------------------------------------------------------------------
(* A request that ends, or moves on having come in time. *)
LEMMA DoneFollows ==
  ASSUME SessionInv, NEW q \in Requests, Done(q)
  PROVE  RequestsFollow /\ req' \in [Requests -> Served \cup {Idle}]
  BY DEF Done, RequestsFollow, SessionInv, TypeOK

(* A request goes on to another stage. *)
LEMMA SetFollows ==
  ASSUME SessionInv, NEW q \in Requests, req[q] # Idle,
         NEW stage \in {"load", "lapsed", "join", "wait", "delete", "clear"}, Set(q, stage),
         ~(req[q].late /\ req[q].kind # "logout")
  PROVE  RequestsFollow /\ req' \in [Requests -> Served \cup {Idle}]
  <1>1. req[q] \in Served
    BY DEF SessionInv, TypeOK
  <1>2. req'[q] = [req[q] EXCEPT !.stage = stage] /\ \A r \in Requests \ {q} : req'[r] = req[r]
    BY DEF Set, SessionInv, TypeOK
  <1>3. req'[q] \in Served
    BY <1>1, <1>2 DEF Served
  <1>4. req' \in [Requests -> Served \cup {Idle}]
    BY <1>2, <1>3 DEF Set, SessionInv, TypeOK
  <1>5. RequestsFollow
    BY <1>1, <1>2 DEF RequestsFollow, Served
  <1> QED BY <1>4, <1>5

(* A session that has a request is signed in. *)
LEMMA RequestSigned ==
  ASSUME SessionInv, NEW q \in Requests, req[q] # Idle
  PROVE  /\ req[q] \in Served
         /\ req[q].sid \in Sessions
         /\ req[q].at \in Replicas
         /\ login[req[q].sid] = "done"
  <1>1. req[q] \in Served
    BY DEF SessionInv, TypeOK
  <1> QED BY <1>1 DEF Served, SessionInv, SignedInFirst

(* The steps of sign-in. *)
LEMMA LoginSteps ==
  ASSUME SessionInv, NEW s \in Sessions,
         SignIn(s) \/ Callback(s) \/ CallbackDone(s) \/ CallbackFails(s) \/ CallbackBreaks(s)
  PROVE  SessionInv'
  <1>1. ASSUME SignIn(s) \/ Callback(s) \/ CallbackFails(s) \/ CallbackBreaks(s) PROVE SessionInv'
    <2>1. TypeOK'
      BY <1>1 DEF SignIn, Callback, CallbackFails, CallbackBreaks, observers, SessionInv, TypeOK
    <2>2. Calm
      BY <1>1 DEF SignIn, Callback, CallbackFails, CallbackBreaks, observers, SessionInv, TypeOK,
                  Calm, RowsFollow, FlightsFollow, LoginsFollow
    <2>3. RequestsFollow
      BY <1>1 DEF SignIn, Callback, CallbackFails, CallbackBreaks, RequestsFollow
    <2> QED BY <2>1, <2>2, <2>3, CalmStep
  <1>2. CASE CallbackDone(s)
    <2>1. rows[s] = None /\ idp[s].gen = 0 /\ \A p \in Replicas : flight[p][s] = None
      BY <1>2 DEF CallbackDone, SessionInv, SignedInFirst
    <2>2. /\ rows' = [rows EXCEPT ![s] = [gen |-> 0, fresh |-> TRUE, lapsed |-> FALSE]]
          /\ login' = [login EXCEPT ![s] = "done"]
          /\ login[s] # "done"
          /\ UNCHANGED <<idp, flight, req, torn, crossed, reused>>
      BY <1>2 DEF CallbackDone, observers
    <2>3. TypeOK'
      BY <1>2, WebSessionAssumption DEF CallbackDone, observers, SessionInv, TypeOK, Row, Gens
    <2>4. rows'[s] # None /\ rows'[s].gen = 0 /\ \A r \in Sessions \ {s} : rows'[r] = rows[r]
      <3>1. [gen |-> 0, fresh |-> TRUE, lapsed |-> FALSE] \in Row
        BY WebSessionAssumption DEF Row, Gens
      <3> QED BY <2>2, <3>1, NoneAssumption DEF SessionInv, TypeOK
    <2>5. OneSpender' /\ SpentOncePerProcess'
      BY <2>2 DEF SessionInv, OneSpender, SpentOncePerProcess, Sound, At
    <2>6. NewestKept'
      BY <2>1, <2>2, <2>4 DEF SessionInv, NewestKept, FlightAgrees, Sound, At
    <2>7. ASSUME NEW q \in Requests, req'[q] # Idle
          PROVE  req'[q].sid # s /\ req[q] # Idle /\ req'[q] = req[q] /\ req[q].sid \in Sessions
      BY <2>2, <2>7, RequestSigned DEF SessionInv
    <2>8. LateInv'
      BY <2>4, <2>7 DEF LateInv, SessionInv
    <2>9. SignedInFirst'
      BY <1>2, <2>2, <2>4, <2>7 DEF CallbackDone, SignedInFirst, SessionInv, TypeOK
    <2> QED BY <2>3, <2>5, <2>6, <2>8, <2>9 DEF SessionInv
  <1> QED BY <1>1, <1>2

(* A request arrives, late when its session is gone already. *)
LEMMA ArriveStep ==
  ASSUME SessionInv, NEW q \in Requests, NEW k \in {"proxy", "ssr", "logout"},
         NEW p \in Replicas, Arrive(q, k, p)
  PROVE  SessionInv'
  <1> DEFINE new == [kind |-> k, sid |-> cookie, at |-> p, stage |-> "load",
                     late |-> rows[cookie] = None]
  <1>1. /\ req' = [req EXCEPT ![q] = new]
        /\ UNCHANGED <<rows, idp, flight, cookie, tx, login, faults, torn, crossed, reused>>
        /\ cookie \in Sessions
    BY DEF Arrive, observers, SessionInv, TypeOK
  <1>2. new \in Served
    BY <1>1 DEF Served
  <1>3. login[cookie] = "done"
    BY <1>1 DEF SessionInv, SignedInFirst
  <1>4. /\ req'[q] = new
        /\ \A r \in Requests \ {q} : req'[r] = req[r]
        /\ req' \in [Requests -> Served \cup {Idle}]
    BY <1>1, <1>2 DEF SessionInv, TypeOK
  <1>5. TypeOK'
    BY <1>1, <1>4 DEF SessionInv, TypeOK
  <1>6. LateInv'
    BY <1>1, <1>4 DEF SessionInv, LateInv
  <1>7. SignedInFirst'
    BY <1>1, <1>3, <1>4 DEF SessionInv, SignedInFirst
  <1>8. OneSpender' /\ NewestKept' /\ SpentOncePerProcess'
    BY <1>1 DEF SessionInv, OneSpender, NewestKept, FlightAgrees, SpentOncePerProcess, Sound, At
  <1> QED BY <1>5, <1>6, <1>7, <1>8 DEF SessionInv

(* The handlers of the requests. *)
LEMMA HandleStep ==
  ASSUME SessionInv, NEW q \in Requests, Handle(q)
  PROVE  SessionInv'
  <1> USE DEF observers
  <1>1. ASSUME LoadNothing(q) \/ LoadFresh(q) \/ ClearCookie(q) PROVE SessionInv'
    <2>1. Done(q) /\ UNCHANGED <<rows, idp, flight, tx, login, faults, torn, crossed, reused>>
          /\ cookie' \in {cookie, None}
      BY <1>1 DEF LoadNothing, LoadFresh, ClearCookie
    <2>2. Calm
      BY <2>1 DEF Calm, RowsFollow, FlightsFollow, LoginsFollow
    <2>3. RequestsFollow /\ TypeOK'
      BY <2>1, DoneFollows DEF SessionInv, TypeOK
    <2> QED BY <2>2, <2>3, CalmStep
  <1>2. ASSUME LoadLapsed(q) \/ LoadStale(q) PROVE SessionInv'
    <2>1. req[q] # Idle /\ (Set(q, "lapsed") \/ Set(q, "join")) /\ ~req[q].late
      BY <1>2 DEF LoadLapsed, LoadStale, Loading, SessionInv, LateInv
    <2>2. RequestsFollow /\ TypeOK'
      BY <1>2, <2>1, SetFollows DEF LoadLapsed, LoadStale, SessionInv, TypeOK
    <2>3. Calm
      BY <1>2 DEF LoadLapsed, LoadStale, Calm, RowsFollow, FlightsFollow, LoginsFollow
    <2> QED BY <2>2, <2>3, CalmStep
  <1>3. CASE DeleteLapsed(q)
    <2>1. req[q].sid \in Sessions
      BY <1>3, RequestSigned DEF DeleteLapsed
    <2>2. RequestsFollow /\ TypeOK'
      BY <1>3, <2>1, DoneFollows DEF DeleteLapsed, SessionInv, TypeOK
    <2>3. Calm
      BY <1>3, <2>1 DEF DeleteLapsed, SessionInv, TypeOK, Calm, RowsFollow, FlightsFollow, LoginsFollow
    <2> QED BY <2>2, <2>3, CalmStep
  <1>4. CASE JoinFlight(q)
    <2> DEFINE p == req[q].at
               s == req[q].sid
    <2>1. req[q] # Idle /\ Set(q, "wait") /\ ~(req[q].late /\ req[q].kind # "logout")
      BY <1>4 DEF JoinFlight, SessionInv, LateInv
    <2>2. p \in Replicas /\ s \in Sessions /\ login[s] = "done"
      BY <2>1, RequestSigned
    <2> HIDE DEF p, s
    <2> DEFINE new == [stage |-> "read", gen |-> 0, next |-> 0]
    <2>3. \/ flight' = flight
          \/ flight[p][s] = None /\ flight' = [flight EXCEPT ![p][s] = new]
      BY <1>4 DEF JoinFlight, Joined, p, s
    <2>4. new \in Flight /\ new.stage = "read"
      BY WebSessionAssumption DEF Flight, Gens
    <2> HIDE DEF new
    <2>5. /\ flight' \in [Replicas -> [Sessions -> Flight \cup {None}]]
          /\ \A o \in Replicas, t \in Sessions :
               \/ flight'[o][t] = flight[o][t]
               \/ flight[o][t] = None /\ login[t] = "done" /\ flight'[o][t] = new
      <3>1. CASE flight' = flight
        BY <3>1 DEF SessionInv, TypeOK
      <3>2. CASE flight[p][s] = None /\ flight' = [flight EXCEPT ![p][s] = new]
        BY <2>2, <2>4, <3>2 DEF SessionInv, TypeOK
      <3> QED BY <2>3, <3>1, <3>2
    <2>6. RequestsFollow /\ TypeOK'
      BY <1>4, <2>1, <2>5, SetFollows DEF JoinFlight, SessionInv, TypeOK
    <2>7. Calm
      BY <1>4, <2>4, <2>5 DEF JoinFlight, Calm, RowsFollow, FlightsFollow, LoginsFollow, Lost, At
    <2> QED BY <2>6, <2>7, CalmStep
  <1>5. CASE DeleteSession(q)
    <2>1. req[q].sid \in Sessions /\ req[q] # Idle
      BY <1>5, RequestSigned DEF DeleteSession
    <2>2. ~(req[q].late /\ req[q].kind # "logout")
      BY <1>5, <2>1 DEF DeleteSession, SessionInv, LateInv
    <2>3. RequestsFollow /\ TypeOK'
      BY <1>5, <2>1, <2>2, SetFollows DEF DeleteSession, SessionInv, TypeOK
    <2>4. Calm
      BY <1>5, <2>1 DEF DeleteSession, SessionInv, TypeOK, Calm, RowsFollow, FlightsFollow, LoginsFollow
    <2> QED BY <2>3, <2>4, CalmStep
  <1> QED BY <1>1, <1>2, <1>3, <1>4, <1>5 DEF Handle

(* Time passes over the rows. *)
LEMMA TimeStep ==
  ASSUME SessionInv, NEW s \in Sessions, Expire(s) \/ Lapse(s)
  PROVE  SessionInv'
  <1>1. rows[s] # None /\ rows[s] \in Row /\ UNCHANGED <<idp, flight, req, cookie, tx, login, faults, torn, crossed, reused>>
    BY DEF Expire, Lapse, observers, SessionInv, TypeOK
  <1>2. PICK row \in Row \cup {None} :
          rows' = [rows EXCEPT ![s] = row] /\ (row # None => row.gen = rows[s].gen)
    <2>1. CASE Expire(s)
      <3>1. rows' = [rows EXCEPT ![s] = [rows[s] EXCEPT !.fresh = FALSE]]
        BY <2>1 DEF Expire
      <3>2. [rows[s] EXCEPT !.fresh = FALSE] \in Row
            /\ [rows[s] EXCEPT !.fresh = FALSE].gen = rows[s].gen
        BY <1>1 DEF Row
      <3> QED BY <3>1, <3>2
    <2>2. CASE Lapse(s)
      <3>1. rows' = [rows EXCEPT ![s] = [rows[s] EXCEPT !.fresh = FALSE, !.lapsed = TRUE]]
        BY <2>2 DEF Lapse, SessionInv, TypeOK
      <3>2. [rows[s] EXCEPT !.fresh = FALSE, !.lapsed = TRUE] \in Row
            /\ [rows[s] EXCEPT !.fresh = FALSE, !.lapsed = TRUE].gen = rows[s].gen
        BY <1>1 DEF Row
      <3> QED BY <3>1, <3>2
    <2> QED BY <2>1, <2>2
  <1>3. TypeOK' /\ RequestsFollow
    BY <1>1, <1>2 DEF SessionInv, TypeOK, RequestsFollow
  <1>4. Calm
    BY <1>1, <1>2 DEF SessionInv, TypeOK, Calm, RowsFollow, FlightsFollow, LoginsFollow
  <1> QED BY <1>3, <1>4, CalmStep

(* The purge only takes rows away. *)
LEMMA PurgeStep == SessionInv /\ Purge => SessionInv'
  <1> SUFFICES ASSUME SessionInv, Purge PROVE SessionInv'
    OBVIOUS
  <1>1. /\ \A s \in Sessions : rows'[s] \in {rows[s], None}
        /\ rows' \in [Sessions -> Row \cup {None}]
        /\ UNCHANGED <<idp, flight, req, cookie, tx, login, faults, torn, crossed, reused>>
    BY DEF Purge, observers, SessionInv, TypeOK
  <1>2. TypeOK' /\ RequestsFollow
    BY <1>1 DEF SessionInv, TypeOK, RequestsFollow
  <1>3. Calm
    BY <1>1 DEF Calm, RowsFollow, FlightsFollow, LoginsFollow
  <1> QED BY <1>2, <1>3, CalmStep

-----------------------------------------------------------------------------
(* The steps of a flight that spend nothing: it ends, or finds a dead row.  *)
LEMMA FlightEnds ==
  ASSUME SessionInv, NEW p \in Replicas, NEW s \in Sessions, flight[p][s] # None,
         Resolve(p, s) \/ Reject(p, s),
         rows' = rows \/ rows' = [rows EXCEPT ![s] = None],
         torn' \in SUBSET Sessions, torn \subseteq torn', Lost(p, s) => s \in torn',
         faults' \in 0..MaxFaults,
         UNCHANGED <<idp, cookie, tx, login, crossed, reused>>
  PROVE  SessionInv'
  <1>1. /\ RequestsFollow
        /\ req' \in [Requests -> Served \cup {Idle}]
        /\ flight' = [flight EXCEPT ![p][s] = None]
    BY WaitersFollow
  <1>2. /\ flight' \in [Replicas -> [Sessions -> Flight \cup {None}]]
        /\ flight'[p][s] = None
        /\ \A o \in Replicas, t \in Sessions : o # p \/ t # s => flight'[o][t] = flight[o][t]
    BY <1>1 DEF SessionInv, TypeOK
  <1>3. TypeOK'
    BY <1>1, <1>2 DEF SessionInv, TypeOK
  <1>4. login[s] = "done"
    BY DEF SessionInv, SignedInFirst
  <1>5. Calm
    BY <1>2, <1>4 DEF SessionInv, TypeOK, Calm, RowsFollow, FlightsFollow, LoginsFollow, At
  <1> QED BY <1>1, <1>3, <1>5, CalmStep

(* The second read of the row, and the token it spends. *)
LEMMA ReadsStep ==
  ASSUME SessionInv, NEW p \in Replicas, NEW s \in Sessions, FlightReads(p, s)
  PROVE  SessionInv'
  <1>1. /\ flight[p][s] # None /\ flight[p][s] \in Flight /\ flight[p][s].stage = "read"
        /\ UNCHANGED <<rows, idp, cookie, tx, login, faults, torn, reused>>
    BY DEF FlightReads, SessionInv, TypeOK
  <1>2. ~Lost(p, s) /\ login[s] = "done"
    BY <1>1 DEF Lost, SessionInv, SignedInFirst
  <1>3. CASE UNCHANGED crossed /\ (Resolve(p, s) \/ Reject(p, s))
    BY <1>1, <1>2, <1>3, FlightEnds DEF SessionInv, TypeOK
  <1>4. CASE flight' = [flight EXCEPT ![p][s].stage = "lapsed"] /\ UNCHANGED <<req, crossed>>
    <2> DEFINE dead == [flight[p][s] EXCEPT !.stage = "lapsed"]
    <2>1. dead \in Flight /\ dead.stage = "lapsed"
      BY <1>1 DEF Flight
    <2>2. flight' = [flight EXCEPT ![p][s] = dead]
      BY <1>4 DEF SessionInv, TypeOK
    <2> HIDE DEF dead
    <2>3. /\ flight' \in [Replicas -> [Sessions -> Flight \cup {None}]]
          /\ flight'[p][s].stage = "lapsed"
          /\ \A o \in Replicas, t \in Sessions : o # p \/ t # s => flight'[o][t] = flight[o][t]
      BY <2>1, <2>2 DEF SessionInv, TypeOK
    <2>4. TypeOK' /\ RequestsFollow
      BY <1>1, <1>4, <2>3 DEF SessionInv, TypeOK, RequestsFollow
    <2>5. Calm
      BY <1>1, <1>2, <1>4, <2>3 DEF Calm, RowsFollow, FlightsFollow, LoginsFollow, At
    <2> QED BY <2>4, <2>5, CalmStep
  <1>5. ASSUME rows[s] # None,
               flight' = [flight EXCEPT ![p][s] =
                   [stage |-> "sent", gen |-> rows[s].gen, next |-> rows[s].gen]],
               crossed' = IF \E o \in Replicas \ {p} : flight[o][s] # None
                            THEN crossed \cup {s} ELSE crossed,
               UNCHANGED req
        PROVE  SessionInv'
    <2> DEFINE sent == [stage |-> "sent", gen |-> rows[s].gen, next |-> rows[s].gen]
    <2>1. rows[s].gen \in Gens
      BY <1>5 DEF SessionInv, TypeOK, Row
    <2>2. /\ sent \in Flight /\ sent.stage = "sent" /\ sent.gen = rows[s].gen
          /\ flight' = [flight EXCEPT ![p][s] = sent]
      BY <1>5, <2>1 DEF Flight
    <2> HIDE DEF sent
    <2>3. /\ flight' \in [Replicas -> [Sessions -> Flight \cup {None}]]
          /\ flight'[p][s] = sent
          /\ \A o \in Replicas, t \in Sessions : o # p \/ t # s => flight'[o][t] = flight[o][t]
      BY <2>2 DEF SessionInv, TypeOK
    <2>4. TypeOK'
      BY <1>1, <1>5, <2>3 DEF SessionInv, TypeOK
    <2>5. LateInv' /\ SignedInFirst' /\ SpentOncePerProcess'
      BY <1>1, <1>2, <1>5, <2>3 DEF SessionInv, LateInv, SignedInFirst, SpentOncePerProcess
    <2>6. ASSUME NEW t \in Sessions, Sound(t)'
          PROVE  Sound(t) /\ (t = s => \A o \in Replicas \ {p} : flight'[o][s] = None)
      BY <1>1, <1>5, <2>3, <2>6 DEF Sound
    <2>7. OneSpender'
      <3> SUFFICES ASSUME NEW t \in Sessions, Sound(t)', NEW o \in Replicas, NEW r \in Replicas,
                          At(o, t, {"sent", "granted"})', At(r, t, {"sent", "granted"})'
                   PROVE  o = r
        BY DEF OneSpender
      <3>1. CASE t = s
        BY <2>6, <3>1 DEF At
      <3>2. CASE t # s
        BY <2>3, <2>6, <3>2 DEF SessionInv, OneSpender, At
      <3> QED BY <3>1, <3>2
    <2>8. NewestKept'
      <3> SUFFICES ASSUME NEW t \in Sessions, Sound(t)'
                   PROVE  /\ ~idp[t].revoked
                          /\ \A o \in Replicas : FlightAgrees(o, t)'
                          /\ rows[t] # None /\ (\A o \in Replicas : ~At(o, t, {"granted"})')
                               => rows[t].gen = idp[t].gen
        BY <1>1 DEF NewestKept
      <3>0. /\ ~idp[t].revoked
            /\ \A o \in Replicas : FlightAgrees(o, t)
            /\ rows[t] # None /\ (\A o \in Replicas : ~At(o, t, {"granted"}))
                 => rows[t].gen = idp[t].gen
        BY <2>6 DEF SessionInv, NewestKept
      <3>1. CASE t # s
        BY <1>1, <2>3, <3>0, <3>1 DEF FlightAgrees, At
      <3>2. CASE t = s
        <4>1. rows[s].gen = idp[s].gen
          <5>1. \A o \in Replicas \ {p} : flight[o][s] = None
            BY <2>3, <2>6, <3>2
          <5> QED BY <1>1, <1>5, <3>0, <3>2, <5>1 DEF At
        <4>2. \A o \in Replicas : FlightAgrees(o, s)'
          BY <1>1, <2>2, <2>3, <2>6, <3>2, <4>1 DEF FlightAgrees, At
        <4> QED BY <3>0, <3>2, <4>1, <4>2
      <3> QED BY <3>1, <3>2
    <2> QED BY <2>4, <2>5, <2>7, <2>8 DEF SessionInv
  <1>6. \/ UNCHANGED crossed /\ (Resolve(p, s) \/ Reject(p, s))
        \/ flight' = [flight EXCEPT ![p][s].stage = "lapsed"] /\ UNCHANGED <<req, crossed>>
        \/ /\ rows[s] # None
           /\ flight' = [flight EXCEPT ![p][s] =
                [stage |-> "sent", gen |-> rows[s].gen, next |-> rows[s].gen]]
           /\ crossed' = IF \E o \in Replicas \ {p} : flight[o][s] # None
                           THEN crossed \cup {s} ELSE crossed
           /\ UNCHANGED req
    <2>1. CASE rows[s] = None
      BY <2>1 DEF FlightReads
    <2>2. CASE rows[s] # None /\ rows[s].lapsed
      BY <2>2 DEF FlightReads
    <2>3. CASE rows[s] # None /\ ~rows[s].lapsed /\ rows[s].fresh
      BY <2>3 DEF FlightReads
    <2>4. CASE rows[s] # None /\ ~rows[s].lapsed /\ ~rows[s].fresh
      BY <2>4 DEF FlightReads
    <2> QED BY <2>1, <2>2, <2>3, <2>4
  <1> QED BY <1>3, <1>4, <1>5, <1>6

(* Keycloak's answer: for a session that is sound it is always a grant. *)
LEMMA IdpStep ==
  ASSUME SessionInv, NEW p \in Replicas, NEW s \in Sessions, IdpAnswers(p, s)
  PROVE  SessionInv'
  <1> DEFINE old == flight[p][s]
  <1>1. /\ old # None /\ old \in Flight /\ old.stage = "sent"
        /\ UNCHANGED <<rows, req, cookie, tx, login, faults, torn, crossed>>
        /\ idp[s] \in [gen : Gens, revoked : BOOLEAN]
    BY DEF IdpAnswers, SessionInv, TypeOK
  <1>2. login[s] = "done"
    BY <1>1 DEF SessionInv, SignedInFirst
  <1>3. ASSUME NEW new \in Flight, NEW grant \in [gen : Gens, revoked : BOOLEAN],
               flight' = [flight EXCEPT ![p][s] = new],
               idp' = [idp EXCEPT ![s] = grant],
               reused' = reused \/ reused' = reused \cup {s},
               new.gen = old.gen,
               ~Sound(s) \/ ( /\ reused' = reused /\ ~grant.revoked
                              /\ new.stage = "granted" /\ new.next = grant.gen )
        PROVE  SessionInv'
    <2>1. /\ flight' \in [Replicas -> [Sessions -> Flight \cup {None}]]
          /\ flight'[p][s] = new
          /\ \A o \in Replicas, t \in Sessions : o # p \/ t # s => flight'[o][t] = flight[o][t]
          /\ idp' \in [Sessions -> [gen : Gens, revoked : BOOLEAN]]
          /\ idp'[s] = grant
          /\ \A t \in Sessions \ {s} : idp'[t] = idp[t]
      BY <1>3 DEF SessionInv, TypeOK
    <2>2. TypeOK'
      BY <1>1, <1>3, <2>1 DEF SessionInv, TypeOK
    <2>3. LateInv'
      BY <1>1 DEF SessionInv, LateInv
    <2>4. SpentOncePerProcess'
      BY <1>1, <1>3 DEF SessionInv, SpentOncePerProcess, Sound
    <2>5. ASSUME NEW t \in Sessions, Sound(t)' PROVE Sound(t)
      BY <1>1, <2>5 DEF Sound
    <2>6. OneSpender'
      BY <1>1, <2>1, <2>5 DEF SessionInv, OneSpender, At
    <2>7. NewestKept'
      <3> SUFFICES ASSUME NEW t \in Sessions, Sound(t)
                   PROVE  /\ ~idp'[t].revoked
                          /\ \A o \in Replicas : FlightAgrees(o, t)'
                          /\ rows[t] # None /\ (\A o \in Replicas : ~At(o, t, {"granted"})')
                               => rows[t].gen = idp'[t].gen
        BY <1>1, <2>5 DEF NewestKept
      <3>1. /\ ~idp[t].revoked
            /\ \A o \in Replicas : FlightAgrees(o, t)
            /\ rows[t] # None /\ (\A o \in Replicas : ~At(o, t, {"granted"}))
                 => rows[t].gen = idp[t].gen
            /\ \A o, r \in Replicas : At(o, t, {"sent", "granted"}) /\ At(r, t, {"sent", "granted"}) => o = r
        BY DEF SessionInv, NewestKept, OneSpender
      <3>2. CASE t # s
        BY <1>1, <2>1, <3>1, <3>2 DEF FlightAgrees, At
      <3>3. CASE t = s
        <4>1. /\ ~grant.revoked /\ new.stage = "granted" /\ new.next = grant.gen
              /\ new # None
          BY <1>3, <3>3, NoneAssumption
        <4>2. \A o \in Replicas \ {p} : ~At(o, s, {"sent", "granted", "refused"})
          BY <1>1, <3>1, <3>3 DEF FlightAgrees, At
        <4>3. \A o \in Replicas : FlightAgrees(o, s)'
          BY <1>1, <1>3, <2>1, <3>1, <3>3, <4>1, <4>2 DEF FlightAgrees, At
        <4>4. At(p, s, {"granted"})'
          BY <2>1, <4>1 DEF At
        <4> QED BY <2>1, <3>3, <4>1, <4>3, <4>4
      <3> QED BY <3>2, <3>3
    <2>8. SignedInFirst'
      <3>1. ASSUME NEW t \in Sessions, login'[t] # "done"
            PROVE  t # s /\ idp'[t] = idp[t] /\ \A o \in Replicas : flight'[o][t] = flight[o][t]
        BY <1>1, <1>2, <2>1, <3>1
      <3> QED BY <1>1, <3>1 DEF SessionInv, SignedInFirst
    <2> QED BY <2>2, <2>3, <2>4, <2>6, <2>7, <2>8 DEF SessionInv
  <1>4. CASE old.gen = idp[s].gen /\ ~idp[s].revoked
    <2>1. PICK g \in Gens : /\ flight' = [flight EXCEPT ![p][s].stage = "granted", ![p][s].next = g]
                            /\ idp' = [idp EXCEPT ![s].gen = g]
                            /\ reused' = reused
      BY <1>4 DEF IdpAnswers
    <2> DEFINE new == [old EXCEPT !.stage = "granted", !.next = g]
               grant == [idp[s] EXCEPT !.gen = g]
    <2>2. /\ new \in Flight /\ new.gen = old.gen /\ new.stage = "granted" /\ new.next = g
          /\ grant \in [gen : Gens, revoked : BOOLEAN] /\ grant.gen = g
          /\ grant.revoked = idp[s].revoked
      BY <1>1 DEF Flight
    <2>3. flight' = [flight EXCEPT ![p][s] = new] /\ idp' = [idp EXCEPT ![s] = grant]
      BY <2>1 DEF SessionInv, TypeOK
    <2> HIDE DEF new, grant
    <2> QED BY <1>3, <1>4, <2>1, <2>2, <2>3
  <1>5. CASE ~(old.gen = idp[s].gen /\ ~idp[s].revoked)
    <2>1. /\ flight' = [flight EXCEPT ![p][s].stage = "refused"]
          /\ idp' = [idp EXCEPT ![s].revoked = TRUE]
          /\ reused' = reused \/ reused' = reused \cup {s}
      BY <1>5 DEF IdpAnswers
    <2> DEFINE new == [old EXCEPT !.stage = "refused"]
               grant == [idp[s] EXCEPT !.revoked = TRUE]
    <2>2. new \in Flight /\ new.gen = old.gen /\ grant \in [gen : Gens, revoked : BOOLEAN]
      BY <1>1 DEF Flight
    <2>3. flight' = [flight EXCEPT ![p][s] = new] /\ idp' = [idp EXCEPT ![s] = grant]
      BY <2>1 DEF SessionInv, TypeOK
    <2>4. ~Sound(s)
      BY <1>1, <1>5 DEF SessionInv, NewestKept, FlightAgrees, At
    <2> HIDE DEF new, grant
    <2> QED BY <1>3, <2>1, <2>2, <2>3, <2>4
  <1> QED BY <1>4, <1>5

(* The write of what was granted, over a row that may be gone. *)
LEMMA WritesStep ==
  ASSUME SessionInv, NEW p \in Replicas, NEW s \in Sessions, FlightWrites(p, s)
  PROVE  SessionInv'
  <1> DEFINE next == flight[p][s].next
             row == [gen |-> next, fresh |-> TRUE, lapsed |-> FALSE]
  <1>1. /\ flight[p][s] # None /\ flight[p][s] \in Flight /\ flight[p][s].stage = "granted"
        /\ UNCHANGED <<idp, cookie, tx, login, faults, torn, crossed, reused>>
        /\ Resolve(p, s)
        /\ rows' = [rows EXCEPT ![s] = IF rows[s] = None THEN None ELSE row]
    BY DEF FlightWrites, UpdateSession, observers, SessionInv, TypeOK
  <1>2. row \in Row /\ row.gen = next /\ next \in Gens
    BY <1>1 DEF Flight, Row
  <1>3. /\ RequestsFollow
        /\ req' \in [Requests -> Served \cup {Idle}]
        /\ flight' = [flight EXCEPT ![p][s] = None]
    BY <1>1, WaitersFollow
  <1> HIDE DEF row
  <1>4. /\ flight' \in [Replicas -> [Sessions -> Flight \cup {None}]]
        /\ flight'[p][s] = None
        /\ \A o \in Replicas, t \in Sessions : o # p \/ t # s => flight'[o][t] = flight[o][t]
        /\ rows' \in [Sessions -> Row \cup {None}]
        /\ rows'[s] = IF rows[s] = None THEN None ELSE row
        /\ \A t \in Sessions \ {s} : rows'[t] = rows[t]
    BY <1>1, <1>2, <1>3 DEF SessionInv, TypeOK
  <1>5. TypeOK'
    BY <1>1, <1>3, <1>4 DEF SessionInv, TypeOK
  <1>6. GoneStays /\ login[s] = "done"
    BY <1>1, <1>4 DEF GoneStays, SessionInv, SignedInFirst
  <1>7. LateInv' /\ SignedInFirst'
    BY <1>1, <1>3, <1>4, <1>6, LateFollows DEF SessionInv, SignedInFirst
  <1>8. SpentOncePerProcess' /\ OneSpender'
    BY <1>1, <1>4 DEF SessionInv, SpentOncePerProcess, OneSpender, Sound, At
  <1>9. NewestKept'
    <2> SUFFICES ASSUME NEW t \in Sessions, Sound(t)
                 PROVE  /\ ~idp[t].revoked
                        /\ \A o \in Replicas : FlightAgrees(o, t)'
                        /\ rows'[t] # None /\ (\A o \in Replicas : ~At(o, t, {"granted"})')
                             => rows'[t].gen = idp[t].gen
      BY <1>1 DEF NewestKept, Sound
    <2>1. /\ ~idp[t].revoked
          /\ \A o \in Replicas : FlightAgrees(o, t)
          /\ rows[t] # None /\ (\A o \in Replicas : ~At(o, t, {"granted"}))
               => rows[t].gen = idp[t].gen
          /\ \A o, r \in Replicas : At(o, t, {"sent", "granted"}) /\ At(r, t, {"sent", "granted"}) => o = r
      BY DEF SessionInv, NewestKept, OneSpender
    <2>2. CASE t # s
      BY <1>1, <1>4, <2>1, <2>2 DEF FlightAgrees, At
    <2>3. CASE t = s
      <3>1. next = idp[s].gen
        BY <1>1, <2>1, <2>3 DEF FlightAgrees, At
      <3>2. \A o \in Replicas : ~At(o, s, {"sent", "granted", "refused"})'
        BY <1>1, <1>4, <2>1, <2>3 DEF FlightAgrees, At
      <3>3. \A o \in Replicas : FlightAgrees(o, s)'
        BY <3>2 DEF FlightAgrees, At
      <3> QED BY <1>2, <1>4, <2>1, <2>3, <3>1, <3>3
    <2> QED BY <2>2, <2>3
  <1> QED BY <1>5, <1>7, <1>8, <1>9 DEF SessionInv

(* A process dies; the sessions it had a rotation for are torn. *)
LEMMA CrashStep ==
  ASSUME SessionInv, NEW p \in Replicas, Crash(p)
  PROVE  SessionInv'
  <1>1. /\ flight' \in [Replicas -> [Sessions -> Flight \cup {None}]]
        /\ \A s \in Sessions : flight'[p][s] = None
        /\ \A o \in Replicas \ {p}, s \in Sessions : flight'[o][s] = flight[o][s]
    BY DEF Crash, SessionInv, TypeOK
  <1>2. req' \in [Requests -> Served \cup {Idle}] /\ RequestsFollow
    BY DEF Crash, SessionInv, TypeOK, RequestsFollow
  <1>3. TypeOK'
    BY <1>1, <1>2, WebSessionAssumption DEF Crash, SessionInv, TypeOK
  <1>4. \A s \in Sessions : flight[p][s] # None => login[s] = "done"
    BY DEF SessionInv, SignedInFirst
  <1>5. Calm
    BY <1>1, <1>4 DEF Crash, Calm, RowsFollow, FlightsFollow, LoginsFollow, At
  <1> QED BY <1>2, <1>3, <1>5, CalmStep

(* Every step preserves the invariant. *)
LEMMA SessionStep == SessionInv /\ [Next]_vars => SessionInv'
  <1> SUFFICES ASSUME SessionInv, [Next]_vars PROVE SessionInv'
    OBVIOUS
  <1>1. ASSUME NEW p \in Replicas, NEW s \in Sessions,
               FlightDeletesLapsed(p, s) \/ FlightRefused(p, s) \/ FlightFails(p, s)
        PROVE  SessionInv'
    <2>1. FlightDeletesLapsed(p, s) \/ FlightRefused(p, s) => ~Lost(p, s)
      BY DEF FlightDeletesLapsed, FlightRefused, Lost
    <2>2. /\ flight[p][s] # None /\ Reject(p, s)
          /\ rows' = rows \/ rows' = [rows EXCEPT ![s] = None]
          /\ torn' \in SUBSET Sessions /\ torn \subseteq torn' /\ (Lost(p, s) => s \in torn')
          /\ faults' \in 0..MaxFaults
          /\ UNCHANGED <<idp, cookie, tx, login, crossed, reused>>
      BY <1>1, <2>1, WebSessionAssumption
         DEF FlightDeletesLapsed, FlightRefused, FlightFails, observers, SessionInv, TypeOK
    <2> QED BY <2>2, FlightEnds
  <1>2. CASE UNCHANGED vars
    <2>1. RequestsFollow /\ Calm /\ TypeOK'
      BY <1>2 DEF vars, observers, SessionInv, TypeOK, RequestsFollow, Calm, RowsFollow,
                  FlightsFollow, LoginsFollow
    <2> QED BY <2>1, CalmStep
  <1> QED BY <1>1, <1>2, LoginSteps, ArriveStep, HandleStep, ReadsStep, IdpStep, WritesStep,
             CrashStep, TimeStep, PurgeStep DEF Next, Fly

-----------------------------------------------------------------------------
(* The rows, the flights and Keycloak agree in every reachable state. *)
THEOREM SessionCorrect == Spec => []SessionInv
  <1> QED BY SessionInit, SessionStep, PTL DEF Spec

(* The tokens in the rows are the ones Keycloak still takes, a token is     *)
(* spent twice only over a lost rotation or by two processes, and a request *)
(* for a session that is gone gets nothing.                                 *)
THEOREM TokensAreKept == Spec => []TokensKept
  <1>1. SessionInv => RowIsCurrent
    BY DEF SessionInv, NewestKept, RowIsCurrent, Sound, At
  <1>2. SessionInv => TokensKept
    BY <1>1 DEF SessionInv, LateInv, RefusedOnceGone, TokensKept
  <1> QED BY <1>2, SessionCorrect, PTL

(* Deleting the row revokes the session for good: updateSession, the only   *)
(* write of a flight, changes no row that is gone.                          *)
THEOREM Revoked == Spec => RevokedForGood
  <1>1. ASSUME TypeOK, [Next]_vars, NEW s \in Sessions, login[s] = "done", rows[s] = None
        PROVE  rows'[s] = None
    <2>1. CASE UNCHANGED vars
      BY <1>1, <2>1 DEF vars
    <2>2. ASSUME NEW r \in Sessions,
                 \/ SignIn(r) \/ Callback(r) \/ CallbackDone(r) \/ CallbackFails(r)
                 \/ CallbackBreaks(r) \/ Expire(r) \/ Lapse(r)
          PROVE  rows'[s] = None
      BY <1>1, <2>2 DEF TypeOK, SignIn, Callback, CallbackDone, CallbackFails, CallbackBreaks,
                        Expire, Lapse
    <2>3. ASSUME NEW q \in Requests, Handle(q) PROVE rows'[s] = None
      BY <1>1, <2>3 DEF TypeOK, Handle, LoadNothing, LoadLapsed, DeleteLapsed, LoadFresh,
                        LoadStale, JoinFlight, DeleteSession, ClearCookie
    <2>4. ASSUME NEW p \in Replicas,
                 Crash(p) \/ \E q \in Requests, k \in {"proxy", "ssr", "logout"} : Arrive(q, k, p)
          PROVE  rows'[s] = None
      BY <1>1, <2>4 DEF Crash, Arrive
    <2>5. ASSUME NEW p \in Replicas, NEW r \in Sessions, Fly(p, r) \/ FlightFails(p, r)
          PROVE  rows'[s] = None
      BY <1>1, <2>5 DEF TypeOK, Fly, FlightReads, FlightDeletesLapsed, IdpAnswers, FlightWrites,
                        UpdateSession, FlightRefused, FlightFails
    <2>6. CASE Purge
      BY <1>1, <2>6 DEF Purge
    <2> QED BY <1>1, <2>1, <2>2, <2>3, <2>4, <2>5, <2>6 DEF Next
  <1>2. TypeOK /\ [Next]_vars =>
          [\A s \in Sessions : login[s] = "done" /\ rows[s] = None => rows'[s] = None]_vars
    BY <1>1
  <1>3. SessionInv => TypeOK
    BY DEF SessionInv
  <1> QED BY <1>2, <1>3, SessionCorrect, PTL DEF Spec, RevokedForGood
=============================================================================
