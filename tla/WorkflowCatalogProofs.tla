------------------------ MODULE WorkflowCatalogProofs ------------------------
(***************************************************************************)
(* The links between workflows, versions and runs hold for any number of   *)
(* them.  CatalogInv is inductive: besides the properties it says which    *)
(* ids have been handed out (ids are never used twice, so a stale read can *)
(* only name the row it saw or a row that is gone), and that an etag a     *)
(* client holds is one of the instants its row has carried.                *)
(***************************************************************************)
EXTENDS WorkflowCatalog, TLAPS, WellFoundedInduction

Shapes == /\ live \subseteq Workflows
          /\ promoted \in [Workflows -> Versions \cup {None}]
          /\ etag \in [Workflows -> Instants \cup {None}]
          /\ stamps \in [Workflows -> SUBSET Instants]
          /\ config \in [Workflows -> Configs \cup {None}]
          /\ DOMAIN version = Versions
          /\ version = [v \in Versions |-> version[v]]
          /\ \A v \in Versions : version[v].wf \in Workflows \cup {None}
          /\ run \in [Runs -> Run]
          /\ \A r \in Runs : run[r].st # "NONE" => run[r].ver # None
          /\ request \in [Runs -> Request]
          /\ seen \in [Clients -> Seen]

(* A version belongs to a live workflow and its id has been handed out.      *)
VersionsLinked ==
    /\ live \subseteq used
    /\ \A v \in Versions : version[v].wf # None => v \in used /\ version[v].wf \in live

(* What a RunWorkflow call read is its workflow's own version or gone.       *)
RequestsLinked ==
    \A r \in Runs : request[r].pc \in {"read", "resolved"} =>
        /\ request[r].pc = "resolved" => request[r].ver # None
        /\ request[r].wf # None
        /\ request[r].ver # None => /\ request[r].ver \in used
                                    /\ version[request[r].ver].wf \in {None, request[r].wf}

(* No client holds an etag its row has not had, so a write at an instant     *)
(* that is new to the row leaves every etag held before behind.              *)
EtagsBehind ==
    /\ \A w \in live : etag[w] \in stamps[w]
    /\ \A c \in Clients : seen[c].wf # None =>
          /\ seen[c].wf \in used
          /\ seen[c].wf \in live => seen[c].etag \in stamps[seen[c].wf]

CatalogInv == /\ Shapes
              /\ VersionsLinked
              /\ PromotedIsOwn
              /\ RunPinsOwnVersion
              /\ RequestsLinked
              /\ EtagsBehind
              /\ EtagIsCurrent

(* CatalogInv holds of the empty catalog.                                    *)
LEMMA CatalogInit == Init => CatalogInv
  BY NoneAssumption DEF Init, CatalogInv, Shapes, VersionsLinked, PromotedIsOwn, RunPinsOwnVersion,
       RequestsLinked, EtagsBehind, EtagIsCurrent, NoVersion, NoWorkflowRun, NoRequest, NothingSeen,
       Run, Request, Seen

(* What the promoted pointer of a workflow denotes. *)
LEMMA PromotedLinked ==
  ASSUME Shapes, PromotedIsOwn, VersionsLinked, NEW w \in Workflows, promoted[w] # None
  PROVE  promoted[w] \in Versions /\ version[promoted[w]].wf = w /\ promoted[w] \in used
<1>1. promoted[w] \in Versions
  BY DEF Shapes
<1>2. w \in live /\ version[promoted[w]].wf = w
  BY DEF PromotedIsOwn
<1>3. w # None
  BY NoneAssumption
<1> QED BY <1>1, <1>2, <1>3 DEF VersionsLinked

(* Every operation of the workflows service preserves it, with its clients'  *)
(* and RunWorkflow calls' stale reads.                                       *)
LEMMA CatalogStep == CatalogInv /\ [Next]_vars => CatalogInv'
  <1> SUFFICES ASSUME CatalogInv, [Next]_vars PROVE CatalogInv'
      OBVIOUS
  <1> USE NoneAssumption DEF CatalogInv
  <1>1. ASSUME NEW w \in Workflows, CreateWorkflow(w)
       PROVE CatalogInv'
    <2> USE <1>1 DEF CreateWorkflow, NewContainer, Bump, containers
    <2>1. Shapes'
      BY DEF Shapes, Run, Request, Seen
    <2>2. VersionsLinked'
      BY DEF Shapes, VersionsLinked, Run, Request, Seen
    <2>3. PromotedIsOwn'
      BY DEF Shapes, PromotedIsOwn, Run, Request, Seen
    <2>4. RunPinsOwnVersion'
      BY DEF Shapes, RunPinsOwnVersion, Run, Request, Seen
    <2>5. RequestsLinked'
      BY DEF Shapes, RequestsLinked, Run, Request, Seen
    <2>6. EtagsBehind'
      BY DEF Shapes, EtagsBehind, Run, Request, Seen
    <2>7. EtagIsCurrent'
      BY DEF Shapes, EtagIsCurrent, EtagsBehind, Run, Request, Seen
    <2> QED BY <2>1, <2>2, <2>3, <2>4, <2>5, <2>6, <2>7
  <1>2. ASSUME NEW w \in Workflows, NEW v \in Versions, CreateWorkflowVersion(w, v)
       PROVE CatalogInv'
    <2> USE <1>2 DEF CreateWorkflowVersion, AddVersion, containers
    <2>1. Shapes'
      BY DEF Shapes, Run, Request, Seen
    <2>2. VersionsLinked'
      BY DEF Shapes, VersionsLinked, Run, Request, Seen
    <2>3. PromotedIsOwn'
      <3> SUFFICES ASSUME NEW u \in Workflows, promoted'[u] # None
                   PROVE  u \in live' /\ version'[promoted'[u]].wf = u
        BY DEF PromotedIsOwn
      <3>1. u \in live /\ promoted[u] \in Versions /\ version[promoted[u]].wf = u
        BY DEF PromotedIsOwn, Shapes
      <3>2. promoted[u] # v
        BY <3>1 DEF VersionsLinked, Shapes
      <3> QED
        BY <3>1, <3>2 DEF Shapes
    <2>4. RunPinsOwnVersion'
      BY DEF Shapes, RunPinsOwnVersion, VersionsLinked, Run, Request, Seen
    <2>5. RequestsLinked'
      BY DEF Shapes, RequestsLinked, Run, Request, Seen
    <2>6. EtagsBehind'
      BY DEF Shapes, EtagsBehind, Run, Request, Seen
    <2>7. EtagIsCurrent'
      BY DEF Shapes, EtagIsCurrent, Run, Request, Seen
    <2> QED BY <2>1, <2>2, <2>3, <2>4, <2>5, <2>6, <2>7
  <1>3. ASSUME NEW w \in Workflows, NEW n \in NumbersOf(w), PromoteWorkflowVersion(w, n)
       PROVE CatalogInv'
    <2>0. PICK v \in Versions : version[v].wf = w /\ promoted' = [promoted EXCEPT ![w] = v]
      BY <1>3 DEF PromoteWorkflowVersion, ByNumber, VersionsOf, IsPromoted
    <2> USE <1>3, <2>0 DEF PromoteWorkflowVersion, Bump, containers
    <2>1. Shapes'
      BY DEF Shapes, Run, Request, Seen
    <2>2. VersionsLinked'
      BY DEF Shapes, VersionsLinked, Run, Request, Seen
    <2>3. PromotedIsOwn'
      <3> SUFFICES ASSUME NEW u \in Workflows, promoted'[u] # None
                   PROVE  u \in live' /\ version'[promoted'[u]].wf = u
        BY DEF PromotedIsOwn
      <3>1. CASE u = w
        BY <3>1 DEF Shapes
      <3>2. CASE u # w
        <4>1. promoted'[u] = promoted[u] /\ live' = live /\ version' = version
          BY <3>2 DEF Shapes
        <4> QED
          BY <4>1 DEF PromotedIsOwn
      <3> QED
        BY <3>1, <3>2
    <2>4. RunPinsOwnVersion'
      BY DEF Shapes, RunPinsOwnVersion, Run, Request, Seen
    <2>5. RequestsLinked'
      BY DEF Shapes, RequestsLinked, Run, Request, Seen
    <2>6. EtagsBehind'
      BY DEF Shapes, EtagsBehind, Run, Request, Seen
    <2>7. EtagIsCurrent'
      BY DEF Shapes, EtagIsCurrent, EtagsBehind, Run, Request, Seen
    <2> QED BY <2>1, <2>2, <2>3, <2>4, <2>5, <2>6, <2>7
  <1>4. ASSUME NEW w \in Workflows, NEW n \in NumbersOf(w), DeleteWorkflowVersion(w, n)
       PROVE CatalogInv'
    <2>0. PICK v \in Versions :
                    /\ version[v].wf = w
                    /\ promoted[w] # v
                    /\ \A r \in Runs : run[r].ver # v
                    /\ version' = [version EXCEPT ![v] = NoVersion]
                    /\ promoted' = [u \in Workflows |-> IF promoted[u] = v THEN None ELSE promoted[u]]
      BY <1>4 DEF DeleteWorkflowVersion, ByNumber, VersionsOf, IsPromoted
    <2> USE <1>4, <2>0 DEF DeleteWorkflowVersion, NoVersion, containers
    <2>1. Shapes'
      BY DEF Shapes, Run, Request, Seen
    <2>2. VersionsLinked'
      BY DEF Shapes, VersionsLinked, Run, Request, Seen
    <2>3. PromotedIsOwn'
      BY DEF Shapes, PromotedIsOwn, Run, Request, Seen
    <2>4. RunPinsOwnVersion'
      BY DEF Shapes, RunPinsOwnVersion, Run, Request, Seen
    <2>5. RequestsLinked'
      BY DEF Shapes, RequestsLinked, Run, Request, Seen
    <2>6. EtagsBehind'
      BY DEF Shapes, EtagsBehind, Run, Request, Seen
    <2>7. EtagIsCurrent'
      <3>1. \A u \in Workflows : promoted[u] # v
        BY DEF PromotedIsOwn, Shapes
      <3>2. promoted' = promoted
        BY <3>1 DEF Shapes
      <3> QED
        BY <3>2 DEF EtagIsCurrent
    <2> QED BY <2>1, <2>2, <2>3, <2>4, <2>5, <2>6, <2>7
  <1>5. ASSUME NEW w \in Workflows, NEW s \in Workflows, NEW v \in Versions, ForkWorkflow(s, w, v)
       PROVE CatalogInv'
    <2> USE <1>5 DEF ForkWorkflow, NewContainer, Bump, AddVersion, containers
    <2>1. Shapes'
      BY DEF Shapes, Run, Request, Seen
    <2>2. VersionsLinked'
      BY DEF Shapes, VersionsLinked, Run, Request, Seen
    <2>3. PromotedIsOwn'
      <3> SUFFICES ASSUME NEW u \in Workflows, promoted'[u] # None
                   PROVE  u \in live' /\ version'[promoted'[u]].wf = u
        BY DEF PromotedIsOwn
      <3>1. u \in live /\ promoted[u] \in Versions /\ version[promoted[u]].wf = u
        BY DEF PromotedIsOwn, Shapes
      <3>2. promoted[u] # v
        BY <3>1 DEF VersionsLinked, Shapes
      <3> QED
        BY <3>1, <3>2 DEF Shapes
    <2>4. RunPinsOwnVersion'
      BY DEF Shapes, RunPinsOwnVersion, VersionsLinked, Run, Request, Seen
    <2>5. RequestsLinked'
      BY DEF Shapes, RequestsLinked, Run, Request, Seen
    <2>6. EtagsBehind'
      BY DEF Shapes, EtagsBehind, Run, Request, Seen
    <2>7. EtagIsCurrent'
      BY DEF Shapes, EtagIsCurrent, EtagsBehind, Run, Request, Seen
    <2> QED BY <2>1, <2>2, <2>3, <2>4, <2>5, <2>6, <2>7
  <1>6. ASSUME NEW w \in Workflows, NEW r \in Runs, RunWorkflow(w, r)
       PROVE CatalogInv'
    <2> USE <1>6 DEF RunWorkflow, containers
    <2>1. Shapes'
      BY DEF Shapes, Run, Request, Seen
    <2>2. VersionsLinked'
      BY DEF Shapes, VersionsLinked, Run, Request, Seen
    <2>3. PromotedIsOwn'
      BY DEF Shapes, PromotedIsOwn, Run, Request, Seen
    <2>4. RunPinsOwnVersion'
      BY DEF Shapes, RunPinsOwnVersion, Run, Request, Seen
    <2>5. RequestsLinked'
      <3> SUFFICES ASSUME NEW q \in Runs, request'[q].pc \in {"read", "resolved"}
                   PROVE  /\ request'[q].pc = "resolved" => request'[q].ver # None
                          /\ request'[q].wf # None
                          /\ request'[q].ver # None =>
                                /\ request'[q].ver \in used'
                                /\ version'[request'[q].ver].wf \in {None, request'[q].wf}
        BY DEF RequestsLinked
      <3>1. CASE q = r
        <4>1. request'[q] = [pc |-> "read", wf |-> w, ver |-> promoted[w]]
          BY <3>1 DEF Shapes
        <4>2. ASSUME promoted[w] # None
              PROVE  promoted[w] \in Versions /\ version[promoted[w]].wf = w /\ promoted[w] \in used
          BY <4>2, PromotedLinked
        <4>3. used' = used /\ version' = version /\ w # None
          OBVIOUS
        <4> QED
          BY <4>1, <4>2, <4>3
      <3>2. CASE q # r
        <4>1. request'[q] = request[q]
          BY <3>2 DEF Shapes
        <4> QED
          BY <4>1 DEF RequestsLinked
      <3> QED
        BY <3>1, <3>2
    <2>6. EtagsBehind'
      BY DEF Shapes, EtagsBehind, Run, Request, Seen
    <2>7. EtagIsCurrent'
      BY DEF EtagIsCurrent
    <2> QED BY <2>1, <2>2, <2>3, <2>4, <2>5, <2>6, <2>7
  <1>7. ASSUME NEW w \in Workflows, NEW c \in Clients, GetWorkflow(c, w)
       PROVE CatalogInv'
    <2> USE <1>7 DEF GetWorkflow, containers
    <2>1. Shapes'
      BY DEF Shapes, Run, Request, Seen
    <2>2. VersionsLinked'
      BY DEF Shapes, VersionsLinked, Run, Request, Seen
    <2>3. PromotedIsOwn'
      BY DEF Shapes, PromotedIsOwn, Run, Request, Seen
    <2>4. RunPinsOwnVersion'
      BY DEF Shapes, RunPinsOwnVersion, Run, Request, Seen
    <2>5. RequestsLinked'
      BY DEF Shapes, RequestsLinked, Run, Request, Seen
    <2>6. EtagsBehind'
      BY DEF Shapes, EtagsBehind, VersionsLinked, Run, Request, Seen
    <2>7. EtagIsCurrent'
      BY DEF Shapes, EtagIsCurrent, Run, Request, Seen
    <2> QED BY <2>1, <2>2, <2>3, <2>4, <2>5, <2>6, <2>7
  <1>8. ASSUME NEW w \in Workflows, NEW c \in Clients \cup {None}, UpdateWorkflow(c, w)
       PROVE CatalogInv'
    <2> USE <1>8 DEF UpdateWorkflow, Bump, containers
    <2>1. Shapes'
      BY DEF Shapes, Run, Request, Seen
    <2>2. VersionsLinked'
      BY DEF Shapes, VersionsLinked, Run, Request, Seen
    <2>3. PromotedIsOwn'
      BY DEF Shapes, PromotedIsOwn, Run, Request, Seen
    <2>4. RunPinsOwnVersion'
      BY DEF Shapes, RunPinsOwnVersion, Run, Request, Seen
    <2>5. RequestsLinked'
      BY DEF Shapes, RequestsLinked, Run, Request, Seen
    <2>6. EtagsBehind'
      BY DEF Shapes, EtagsBehind, Run, Request, Seen
    <2>7. EtagIsCurrent'
      BY DEF Shapes, EtagIsCurrent, EtagsBehind, Run, Request, Seen
    <2> QED BY <2>1, <2>2, <2>3, <2>4, <2>5, <2>6, <2>7
  <1>9. ASSUME NEW w \in Workflows, NEW c \in Clients \cup {None}, NEW force \in BOOLEAN, DeleteWorkflow(c, w, force)
       PROVE CatalogInv'
    <2> USE <1>9 DEF DeleteWorkflow, Cascade, NoVersion, NoWorkflowRun, containers
    <2>1. Shapes'
      BY DEF Shapes, Run, Request, Seen
    <2>2. VersionsLinked'
      BY DEF Shapes, VersionsLinked, Run, Request, Seen
    <2>3. PromotedIsOwn'
      <3> SUFFICES ASSUME NEW u \in Workflows, promoted'[u] # None
                   PROVE  u \in live' /\ version'[promoted'[u]].wf = u
        BY DEF PromotedIsOwn
      <3>1. u # w /\ promoted'[u] = promoted[u] /\ promoted[u] \in Versions
        BY DEF Shapes
      <3>2. u \in live /\ version[promoted[u]].wf = u
        BY <3>1 DEF PromotedIsOwn
      <3> QED
        BY <3>1, <3>2
    <2>4. RunPinsOwnVersion'
      BY DEF Shapes, RunPinsOwnVersion, Run, Request, Seen
    <2>5. RequestsLinked'
      BY DEF Shapes, RequestsLinked, Run, Request, Seen
    <2>6. EtagsBehind'
      BY DEF Shapes, EtagsBehind, Run, Request, Seen
    <2>7. EtagIsCurrent'
      BY DEF Shapes, EtagIsCurrent, Run, Request, Seen
    <2> QED BY <2>1, <2>2, <2>3, <2>4, <2>5, <2>6, <2>7
  <1>10. ASSUME NEW r \in Runs, ResolveRunVersion(r)
       PROVE CatalogInv'
    <2> USE <1>10 DEF ResolveRunVersion, Resolvable, VersionsOf, containers
    <2>1. Shapes'
      <3>1. ASSUME NEW v \in Versions,
                   request' = [request EXCEPT ![r] = [pc |-> "resolved", wf |-> request[r].wf, ver |-> v]]
            PROVE  Shapes'
        BY <3>1 DEF Shapes, Request
      <3>2. CASE request' = [request EXCEPT ![r].pc = "done"]
        BY <3>2 DEF Shapes, Request
      <3> QED
        BY <3>1, <3>2
    <2>2. VersionsLinked'
      BY DEF Shapes, VersionsLinked, Run, Request, Seen
    <2>3. PromotedIsOwn'
      BY DEF Shapes, PromotedIsOwn, Run, Request, Seen
    <2>4. RunPinsOwnVersion'
      BY DEF Shapes, RunPinsOwnVersion, Run, Request, Seen
    <2>5. RequestsLinked'
      <3> SUFFICES ASSUME NEW q \in Runs, request'[q].pc \in {"read", "resolved"}
                   PROVE  /\ request'[q].pc = "resolved" => request'[q].ver # None
                          /\ request'[q].wf # None
                          /\ request'[q].ver # None =>
                                /\ request'[q].ver \in used'
                                /\ version'[request'[q].ver].wf \in {None, request'[q].wf}
        BY DEF RequestsLinked
      <3>0. used' = used /\ version' = version
        OBVIOUS
      <3>1. CASE q # r
        <4>1. request'[q] = request[q]
          BY <3>1 DEF Shapes
        <4> QED
          BY <4>1, <3>0 DEF RequestsLinked
      <3>2. CASE q = r
        <4>1. PICK v \in Resolvable(r) : request'[r] = [pc |-> "resolved", wf |-> request[r].wf, ver |-> v]
          <5>1. request' # [request EXCEPT ![r].pc = "done"]
            BY <3>2 DEF Shapes, Request
          <5> QED
            BY <5>1 DEF Shapes
        <4>2. v \in Versions /\ version[v].wf \in {None, request[r].wf} /\ version[v].wf # None
          BY <4>1 DEF RequestsLinked, Shapes, Request
        <4>3. v \in used
          BY <4>2 DEF VersionsLinked
        <4>4. request[r].wf # None
          BY DEF RequestsLinked
        <4> QED
          BY <3>0, <3>2, <4>1, <4>2, <4>3, <4>4
      <3> QED
        BY <3>1, <3>2
    <2>6. EtagsBehind'
      BY DEF Shapes, EtagsBehind, Run, Request, Seen
    <2>7. EtagIsCurrent'
      BY DEF Shapes, EtagIsCurrent, Run, Request, Seen
    <2> QED BY <2>1, <2>2, <2>3, <2>4, <2>5, <2>6, <2>7
  <1>11. ASSUME NEW r \in Runs, CreateWorkflowRun(r)
       PROVE CatalogInv'
    <2> USE <1>11 DEF CreateWorkflowRun, VersionKey, containers
    <2>1. Shapes'
      BY DEF Shapes, RequestsLinked, Run, Request, Seen
    <2>2. VersionsLinked'
      BY DEF Shapes, VersionsLinked, Run, Request, Seen
    <2>3. PromotedIsOwn'
      BY DEF Shapes, PromotedIsOwn, Run, Request, Seen
    <2>4. RunPinsOwnVersion'
      BY DEF Shapes, RunPinsOwnVersion, RequestsLinked, Run, Request, Seen
    <2>5. RequestsLinked'
      BY DEF Shapes, RequestsLinked, Run, Request, Seen
    <2>6. EtagsBehind'
      BY DEF Shapes, EtagsBehind, Run, Request, Seen
    <2>7. EtagIsCurrent'
      BY DEF Shapes, EtagIsCurrent, Run, Request, Seen
    <2> QED BY <2>1, <2>2, <2>3, <2>4, <2>5, <2>6, <2>7
  <1>12. ASSUME NEW r \in Runs, RunProgress(r)
       PROVE CatalogInv'
    <2> USE <1>12 DEF RunProgress, containers
    <2>1. Shapes'
      BY DEF Shapes, Run, Request, Seen
    <2>2. VersionsLinked'
      BY DEF Shapes, VersionsLinked, Run, Request, Seen
    <2>3. PromotedIsOwn'
      BY DEF Shapes, PromotedIsOwn, Run, Request, Seen
    <2>4. RunPinsOwnVersion'
      BY DEF Shapes, RunPinsOwnVersion, Run, Request, Seen
    <2>5. RequestsLinked'
      BY DEF Shapes, RequestsLinked, Run, Request, Seen
    <2>6. EtagsBehind'
      BY DEF Shapes, EtagsBehind, Run, Request, Seen
    <2>7. EtagIsCurrent'
      BY DEF Shapes, EtagIsCurrent, Run, Request, Seen
    <2> QED BY <2>1, <2>2, <2>3, <2>4, <2>5, <2>6, <2>7
  <1>13. CASE UNCHANGED vars
    <2>1. Shapes'
      BY <1>13 DEF vars, Shapes
    <2>2. VersionsLinked'
      BY <1>13 DEF vars, VersionsLinked
    <2>3. PromotedIsOwn'
      BY <1>13 DEF vars, PromotedIsOwn
    <2>4. RunPinsOwnVersion'
      BY <1>13 DEF vars, RunPinsOwnVersion
    <2>5. RequestsLinked'
      BY <1>13 DEF vars, RequestsLinked
    <2>6. EtagsBehind'
      BY <1>13 DEF vars, EtagsBehind
    <2>7. EtagIsCurrent'
      BY <1>13 DEF vars, EtagIsCurrent
    <2> QED BY <2>1, <2>2, <2>3, <2>4, <2>5, <2>6, <2>7
  <1>14. QED BY <1>1, <1>2, <1>3, <1>4, <1>5, <1>6, <1>7, <1>8, <1>9, <1>10, <1>11, <1>12, <1>13 DEF Next

(* The inductive invariant holds in every reachable state.                   *)
THEOREM CatalogInvariant == Spec => []CatalogInv
  BY CatalogInit, CatalogStep, PTL DEF Spec

(* The promoted pointer names an existing version of its own workflow, for   *)
(* any number of workflows and versions (PromoteWorkflowVersion,             *)
(* DeleteWorkflowVersion, DeleteWorkflow).                                   *)
THEOREM PromotedOwn == Spec => []PromotedIsOwn
  BY CatalogInvariant, PTL DEF CatalogInv

(* A run pins a version of its own workflow although RunWorkflow reads       *)
(* without a lock and inserts later.                                         *)
THEOREM RunsPinOwnVersion == Spec => []RunPinsOwnVersion
  BY CatalogInvariant, PTL DEF CatalogInv

(* A client whose etag matches has seen the row as it is, so a conditional   *)
(* UpdateWorkflow or DeleteWorkflow undoes no change unknown to its caller.  *)
THEOREM EtagsCurrent == Spec => []EtagIsCurrent
  BY CatalogInvariant, PTL DEF CatalogInv

(* A workflow that has a promoted version keeps one for as long as it lives: *)
(* DeleteWorkflowVersion refuses the promoted one, and its pointer belongs   *)
(* to no other workflow.                                                     *)
THEOREM PromotedStays == Spec => StaysPromoted
  <1>1. ASSUME CatalogInv, [Next]_vars, NEW u \in Workflows, promoted[u] # None
        PROVE  promoted'[u] # None \/ u \notin live'
    <2> USE <1>1, NoneAssumption DEF CatalogInv, containers
    <2>1. CASE promoted' = promoted
      BY <2>1
    <2>2. ASSUME NEW w \in Workflows, NEW n \in NumbersOf(w), PromoteWorkflowVersion(w, n)
          PROVE  promoted'[u] # None
      <3>1. PICK v \in Versions : promoted' = [promoted EXCEPT ![w] = v]
        BY <2>2 DEF PromoteWorkflowVersion, ByNumber, VersionsOf
      <3> QED
        BY <3>1 DEF Shapes
    <2>3. ASSUME NEW w \in Workflows, NEW n \in NumbersOf(w), DeleteWorkflowVersion(w, n)
          PROVE  promoted'[u] # None
      <3>1. PICK v \in Versions :
                /\ version[v].wf = w /\ promoted[w] # v
                /\ promoted' = [x \in Workflows |-> IF promoted[x] = v THEN None ELSE promoted[x]]
        BY <2>3 DEF DeleteWorkflowVersion, ByNumber, VersionsOf, IsPromoted
      <3>2. version[promoted[u]].wf = u
        BY DEF PromotedIsOwn
      <3> QED
        BY <3>1, <3>2
    <2>4. ASSUME NEW w \in Workflows, NEW c \in Clients \cup {None}, NEW force \in BOOLEAN,
                 DeleteWorkflow(c, w, force)
          PROVE  promoted'[u] # None \/ u \notin live'
      BY <2>4 DEF DeleteWorkflow, Shapes
    <2> QED
      BY <2>1, <2>2, <2>3, <2>4
      DEF Next, vars, CreateWorkflow, NewContainer, CreateWorkflowVersion, ForkWorkflow, RunWorkflow,
          GetWorkflow, UpdateWorkflow, ResolveRunVersion, CreateWorkflowRun, RunProgress
  <1>2. CatalogInv /\ [Next]_vars =>
            [\A w \in Workflows : promoted[w] # None => promoted'[w] # None \/ w \notin live']_vars
    BY <1>1
  <1> QED
    BY <1>2, CatalogInvariant, PTL DEF Spec, StaysPromoted

-----------------------------------------------------------------------------
(* Version numbers.  The numbers of a workflow are bounded by the highest it *)
(* has issued, so MAX(version_number) exists whatever was deleted, and the   *)
(* next number is free.                                                      *)
NumbersInv ==
    /\ issued \in [Workflows -> Nat]
    /\ \A v \in Versions : version[v].wf # None =>
          version[v].num \in Nat \ {0} /\ version[v].num <= issued[version[v].wf]
    /\ NumberDenotesOne

(* A non-empty set of numbers has a least one. *)
LEMMA LeastNumber ==
  ASSUME NEW T \in SUBSET Nat, T # {}
  PROVE  \E n \in T : \A k \in T : n <= k
  <1> DEFINE R == OpToRel(<, Nat)
  <1>1. IsWellFoundedOn(R, Nat)
    BY NatLessThanWellFounded
  <1>2. R = {ss \in Nat \X Nat : ss[1] < ss[2]}
    BY Zenon DEF OpToRel
  <1> HIDE DEF R
  <1>3. PICK n \in T : \A k \in T : ~(<<k, n>> \in R)
    BY <1>1, WFMin
  <1>4. ASSUME NEW k \in T PROVE n <= k
    <2>1. <<k, n>> \in Nat \X Nat
      OBVIOUS
    <2>2. ~(k < n)
      BY <1>2, <1>3, <2>1
    <2> QED BY <2>2
  <1> QED BY <1>4

(* A bounded, non-empty set of numbers has a greatest one, which Max gives:  *)
(* its least upper bound is one of them.                                     *)
LEMMA BoundedMax ==
  ASSUME NEW S \in SUBSET Nat, S # {}, NEW b \in Nat, \A n \in S : n <= b
  PROVE  Max(S) \in S /\ \A n \in S : n <= Max(S)
  <1> DEFINE U == {k \in Nat : \A n \in S : n <= k}
  <1>1. U \in SUBSET Nat /\ U # {}
    OBVIOUS
  <1>2. PICK m \in U : \A k \in U : m <= k
    BY <1>1, LeastNumber
  <1>3. m \in Nat /\ \A n \in S : n <= m
    OBVIOUS
  <1>4. m \in S
    <2> SUFFICES ASSUME m \notin S PROVE FALSE
      OBVIOUS
    <2>1. \A n \in S : n <= m - 1 /\ n \in Nat
      <3> SUFFICES ASSUME NEW n \in S PROVE n <= m - 1 /\ n \in Nat
        OBVIOUS
      <3>1. n <= m /\ n # m /\ n \in Nat
        BY <1>3
      <3> QED BY <1>3, <3>1
    <2>2. PICK n0 \in S : TRUE
      OBVIOUS
    <2>3. m - 1 \in Nat
      BY <1>3, <2>1, <2>2
    <2>4. m - 1 \in U
      BY <2>1, <2>3
    <2>5. m <= m - 1
      BY <1>2, <2>4
    <2> QED BY <1>3, <2>5
  <1>5. \E x \in S : \A y \in S : x >= y
    BY <1>3, <1>4
  <1>6. Max(S) \in S /\ \A y \in S : Max(S) >= y
    BY <1>5 DEF Max
  <1> QED BY <1>6

(* NextWorkflowVersionNumber is above every number the workflow has.         *)
LEMMA NextNumberIsFree ==
  ASSUME NumbersInv, Shapes, NEW w \in Workflows
  PROVE  /\ NextWorkflowVersionNumber(w) \in Nat \ {0}
         /\ \A v \in VersionsOf(w) : version[v].num < NextWorkflowVersionNumber(w)
  <1> DEFINE S == NumbersOf(w) \cup {0}
  <1>1. \A v \in VersionsOf(w) : version[v].num \in Nat /\ version[v].num <= issued[w]
    BY NoneAssumption DEF NumbersInv, VersionsOf
  <1>2. issued[w] \in Nat
    BY DEF NumbersInv
  <1>3. S \in SUBSET Nat /\ S # {} /\ \A n \in S : n <= issued[w]
    BY <1>1, <1>2 DEF NumbersOf
  <1>4. \A v \in VersionsOf(w) : version[v].num \in S
    BY DEF NumbersOf
  <1> HIDE DEF S
  <1>5. Max(S) \in S /\ \A n \in S : n <= Max(S)
    BY <1>2, <1>3, BoundedMax
  <1>6. NextWorkflowVersionNumber(w) = Max(S) + 1
    BY DEF NextWorkflowVersionNumber, S
  <1>7. Max(S) \in Nat
    BY <1>3, <1>5
  <1>8. ASSUME NEW v \in VersionsOf(w) PROVE version[v].num < NextWorkflowVersionNumber(w)
    <2>1. version[v].num <= Max(S) /\ version[v].num \in Nat
      BY <1>1, <1>4, <1>5
    <2> QED BY <1>6, <1>7, <2>1
  <1> QED BY <1>6, <1>7, <1>8

(* A version is added under a number above those of its workflow.            *)
LEMMA NumberAdded ==
  ASSUME CatalogInv, NumbersInv, NEW w \in Workflows, NEW v \in Versions \ used,
         NEW n \in Nat \ {0}, \A u \in VersionsOf(w) : version[u].num < n, AddVersion(w, v, n)
  PROVE  NumbersInv'
  <1>1. issued[w] \in Nat /\ issued \in [Workflows -> Nat]
    BY DEF NumbersInv
  <1>2. PICK m \in Nat : issued' = [issued EXCEPT ![w] = m] /\ n <= m /\ issued[w] <= m
    <2> DEFINE S == {issued[w], n}
    <2>1. S \in SUBSET Nat /\ S # {}
      BY <1>1
    <2>2. \E b \in Nat : \A k \in S : k <= b
      <3>1. CASE issued[w] <= n
        BY <1>1, <3>1
      <3>2. CASE ~(issued[w] <= n)
        BY <1>1, <3>2
      <3> QED BY <3>1, <3>2
    <2>3. issued' = [issued EXCEPT ![w] = Max(S)]
      BY DEF AddVersion
    <2>4. n \in S /\ issued[w] \in S
      OBVIOUS
    <2> HIDE DEF S
    <2>5. Max(S) \in S /\ \A k \in S : k <= Max(S)
      BY <2>1, <2>2, BoundedMax
    <2> QED BY <2>1, <2>3, <2>4, <2>5
  <1>3. /\ version'[v].wf = w /\ version'[v].num = n
        /\ \A u \in Versions \ {v} : version'[u] = version[u]
    BY DEF AddVersion, CatalogInv, Shapes
  <1>4. /\ issued' \in [Workflows -> Nat] /\ issued'[w] = m
        /\ \A x \in Workflows \ {w} : issued'[x] = issued[x]
    BY <1>1, <1>2
  <1>5. ASSUME NEW u \in Versions, version'[u].wf # None
        PROVE  version'[u].num \in Nat \ {0} /\ version'[u].num <= issued'[version'[u].wf]
    <2>1. CASE u = v
      BY <1>2, <1>3, <1>4, <2>1
    <2>2. CASE u # v
      <3>1. version'[u] = version[u] /\ version[u].wf \in Workflows
        BY <1>3, <1>5, <2>2 DEF CatalogInv, Shapes
      <3>2. version[u].num \in Nat \ {0} /\ version[u].num <= issued[version[u].wf]
        BY <1>5, <3>1 DEF NumbersInv
      <3>3. CASE version[u].wf = w
        BY <1>1, <1>2, <1>4, <3>1, <3>2, <3>3
      <3>4. CASE version[u].wf # w
        BY <1>4, <3>1, <3>2, <3>4
      <3> QED BY <3>3, <3>4
    <2> QED BY <2>1, <2>2
  <1>6. ASSUME NEW u \in Versions, u # v, version'[u].wf = w PROVE version'[u].num < n
    BY <1>3, <1>6 DEF VersionsOf
  <1>7. NumberDenotesOne'
    <2> SUFFICES ASSUME NEW u \in Versions, NEW x \in Versions, version'[u].wf # None,
                        version'[u].wf = version'[x].wf, version'[u].num = version'[x].num
                 PROVE  u = x
      BY DEF NumberDenotesOne
    <2>1. CASE u = v /\ x # v
      BY <1>3, <1>6, <2>1
    <2>2. CASE u # v /\ x = v
      BY <1>3, <1>6, <2>2
    <2>3. CASE u # v /\ x # v
      BY <1>3, <2>3 DEF NumbersInv, NumberDenotesOne
    <2> QED BY <2>1, <2>2, <2>3
  <1> QED BY <1>4, <1>5, <1>7 DEF NumbersInv

(* Every step keeps the numbers apart. *)
LEMMA NumbersStep == CatalogInv /\ NumbersInv /\ [Next]_vars => NumbersInv'
  <1> SUFFICES ASSUME CatalogInv, NumbersInv, [Next]_vars PROVE NumbersInv'
    OBVIOUS
  <1>1. CASE UNCHANGED <<version, issued>>
    BY <1>1 DEF NumbersInv, NumberDenotesOne
  <1>2. ASSUME UNCHANGED issued, DOMAIN version' = Versions,
               \A v \in Versions : version'[v] = version[v] \/ version'[v].wf = None
        PROVE  NumbersInv'
    BY <1>2 DEF NumbersInv, NumberDenotesOne
  <1>3. ASSUME NEW w \in Workflows, NEW v \in Versions, CreateWorkflowVersion(w, v)
        PROVE  NumbersInv'
    <2>1. PICK n : n = NextWorkflowVersionNumber(w)
      OBVIOUS
    <2>2. n \in Nat \ {0} /\ \A u \in VersionsOf(w) : version[u].num < n
      BY <2>1, NextNumberIsFree DEF CatalogInv
    <2>3. v \in Versions \ used /\ AddVersion(w, v, n)
      BY <1>3, <2>1 DEF CreateWorkflowVersion
    <2> QED BY <2>2, <2>3, NumberAdded
  <1>4. ASSUME NEW w \in Workflows, NEW s \in Workflows, NEW v \in Versions, ForkWorkflow(s, w, v)
        PROVE  NumbersInv'
    <2>1. v \in Versions \ used /\ w \notin used /\ AddVersion(w, v, 1)
      BY <1>4 DEF ForkWorkflow
    <2>2. VersionsOf(w) = {}
      BY <2>1, NoneAssumption DEF VersionsOf, CatalogInv, VersionsLinked
    <2> QED BY <2>1, <2>2, NumberAdded
  <1>5. ASSUME NEW w \in Workflows, NEW n \in NumbersOf(w), DeleteWorkflowVersion(w, n)
        PROVE  NumbersInv'
    BY <1>2, <1>5 DEF DeleteWorkflowVersion, NoVersion, CatalogInv, Shapes, ByNumber, VersionsOf
  <1>6. ASSUME NEW w \in Workflows, NEW c \in Clients \cup {None}, NEW force \in BOOLEAN,
               DeleteWorkflow(c, w, force)
        PROVE  NumbersInv'
    BY <1>2, <1>6 DEF DeleteWorkflow, NoVersion
  <1> QED
    BY <1>1, <1>3, <1>4, <1>5, <1>6
    DEF Next, vars, CreateWorkflow, PromoteWorkflowVersion, RunWorkflow, GetWorkflow, UpdateWorkflow,
        ResolveRunVersion, CreateWorkflowRun, RunProgress

(* Within a workflow a version number denotes one version, whatever was      *)
(* deleted or forked before: MAX + 1 never meets a number in use, so the     *)
(* UNIQUE constraint on (workflow_id, version_number) never fires.           *)
THEOREM NumbersDenoteOne == Spec => []NumberDenotesOne
  <1>1. Init => NumbersInv
    BY DEF Init, NumbersInv, NumberDenotesOne, NoVersion
  <1>2. NumbersInv => NumberDenotesOne
    BY DEF NumbersInv
  <1> QED BY <1>1, <1>2, NumbersStep, CatalogInvariant, PTL DEF Spec
=============================================================================
