--------------------------- MODULE ResourceAdmin ---------------------------
(***************************************************************************)
(* The admin pages of secrets and connectors: a list, and a routed form    *)
(* that edits one of its rows, over a query cache that outlives both.      *)
(* Reads and writes are requests that the server serves at one moment and  *)
(* answers at a later one, or never; another user edits the same record.   *)
(* The record is known by its version, which is also its etag: version 0   *)
(* is nothing at all.  Of the other rows of the list, only that one of     *)
(* them may be deleted matters to its pages.                               *)
(***************************************************************************)
EXTENDS Naturals, FiniteSets

CONSTANTS
    MaxVersion,    \* bound: writes that the server applies
    MaxActs,       \* bound: what the user does
    Absent, Asked  \* undefined and a fetch under way: no value of the pages

ASSUME AdminAssumption == MaxVersion \in Nat /\ MaxActs \in Nat

VARIABLES
    version, live,   \* the record at the server
    list,            \* the list query: version of the row it holds, and stale
    detail,          \* the record's query: Absent, or version and stale
    listFetch, detailFetch,   \* Absent, Asked, or what the server answered
    form,            \* the form page, Absent when the list is shown
    confirm,         \* the list's delete dialog: open, pending, error, for another row
    writes,          \* saves and deletes under way
    opened,          \* form pages opened so far: each is an instance of its own
    own,             \* observer: version of the last write this user was told of
    home,            \* observer: the last one whose own form was still open
    joined,          \* observer: an answer for the list was on its way when that write
                     \* was acknowledged, and the list has not caught up since
    asked,           \* observer: this step asked the user to discard the edits
    acts

adminVars == <<version, live, list, detail, listFetch, detailFetch, form, confirm,
               writes, opened, own, home, joined, asked, acts>>

server == <<version, live>>
told == <<own, home, joined>>
queries == <<list, detail, listFetch, detailFetch>>

Versions == 1 .. MaxVersion + 1
Answers == [version : Versions, live : BOOLEAN]
Details == [version : Versions, stale : BOOLEAN]
Pages == [id : Nat, record : {0} \cup Versions, seed : {0} \cup Versions,
          edited : BOOLEAN, pending : BOOLEAN, error : BOOLEAN,
          failed : BOOLEAN, remove : {"closed", "open", "pending", "error"}]
Dialogs == [open : BOOLEAN, pending : BOOLEAN, error : BOOLEAN, other : BOOLEAN]
Requests == [kind : {"save", "delete", "row", "other"}, id : Nat, etag : Versions,
             state : {"sent", "done", "refused"}]

ASSUME AbsentAssumption ==
    /\ Absent # Asked
    /\ Absent \notin Answers \cup Details \cup Pages
    /\ Asked \notin Answers

Closed == [open |-> FALSE, pending |-> FALSE, error |-> FALSE, other |-> FALSE]

QueriesOK ==
    /\ list \in [version : Versions, live : BOOLEAN, stale : BOOLEAN]
    /\ detail \in {Absent} \cup Details
    /\ listFetch \in {Absent, Asked} \cup Answers
    /\ detailFetch \in {Absent, Asked} \cup Answers

FormOK == opened \in Nat /\ (form # Absent => form \in Pages /\ form.id \in 1 .. opened)

WritesOK == writes \subseteq Requests /\ \A w \in writes : w.id <= opened

(* What the caches, the form and the dialogs hold are versions the server   *)
(* has had and states the pages have; a record's query is never empty.      *)
AdminTypeOK ==
    /\ version \in Versions /\ live \in BOOLEAN
    /\ QueriesOK /\ FormOK /\ WritesOK
    /\ confirm \in Dialogs
    /\ own \in {0} \cup Versions /\ home \in {0} \cup Versions
    /\ joined \in BOOLEAN /\ asked \in BOOLEAN

(* A list that was rendered on the server: its rows are in the cache. *)
AdminInit ==
    /\ version = 1 /\ live = TRUE
    /\ list = [version |-> 1, live |-> TRUE, stale |-> FALSE]
    /\ detail = Absent /\ listFetch = Absent /\ detailFetch = Absent
    /\ form = Absent /\ confirm = Closed /\ writes = {}
    /\ opened = 0 /\ own = 0 /\ home = 0 /\ joined = FALSE /\ asked = FALSE /\ acts = 0

UserActs == acts < MaxActs /\ acts' = acts + 1

-----------------------------------------------------------------------------
(* Navigation *)

(* The list is shown: a query that is stale is fetched as it mounts, unless *)
(* it is being fetched.  The form's query loses its observer, which aborts  *)
(* its fetch.                                                               *)
ShowList(stale) ==
    /\ form' = Absent
    /\ confirm' = Closed
    /\ detailFetch' = Absent
    /\ listFetch' = IF stale /\ listFetch = Absent THEN Asked ELSE listFetch

(* Mutant: a save only marks the record's query as stale. *)
Forgotten_Stale(d) == IF d = Absent THEN Absent ELSE [d EXCEPT !.stale = TRUE]

(* removeQueries: the record is fetched anew by the form that is opened next. *)
Forgotten(d) == Absent

(* Mutant: the list is left alone. *)
Invalid_Not(l) == l

(* invalidateQueries with refetchType none. *)
Invalid(l) == [l EXCEPT !.stale = TRUE]

(* Mutant: the pass is held by the route and not by the form that asked.    *)
Passes_Any(id) == TRUE

(* The one-shot bypass: the blocker of form page id lets through what the   *)
(* same page asked for.                                                     *)
Passes(id) == form # Absent /\ form.id = id

(* The blocker stops a navigation away from edits, unless it has a pass. *)
Guarded(id) == form # Absent /\ form.edited /\ ~Passes(id)

(* goBackAndRefresh by form page id, which may be long gone: it navigates   *)
(* from wherever the user is.  An open form may ask first, and the user may *)
(* stay; its record's query is then made anew and fetched.                  *)
goBackAndRefresh(id) ==
    /\ list' = Invalid(list)
    /\ detail' = Forgotten(detail)
    /\ \/ /\ form # Absent
          /\ asked' = Guarded(id)
          /\ ShowList(list'.stale)
       \/ /\ Guarded(id)
          /\ asked' = TRUE
          /\ detailFetch' = IF detail' = Absent \/ detailFetch # Absent THEN Asked ELSE Absent
          /\ UNCHANGED <<form, confirm, listFetch>>
       \/ /\ form = Absent
          /\ asked' = FALSE
          /\ UNCHANGED <<form, confirm, listFetch, detailFetch>>

(* A form page as it opens over what the cache has of its record: the       *)
(* values are seeded from it once.                                          *)
Opening(id, cached) ==
    [id |-> id, record |-> cached, seed |-> cached, edited |-> FALSE, pending |-> FALSE,
     error |-> FALSE, failed |-> FALSE, remove |-> "closed"]

(* A row's edit button.  The record is fetched when it is not in the cache  *)
(* or stale.                                                                *)
OpenForm ==
    /\ UserActs
    /\ form = Absent /\ list.version > 0 /\ list.live /\ ~confirm.open
    /\ opened' = opened + 1
    /\ form' = Opening(opened + 1, IF detail = Absent THEN 0 ELSE detail.version)
    /\ detailFetch' = IF detail = Absent THEN Asked ELSE IF detail.stale THEN Asked ELSE Absent
    /\ listFetch' = Absent
    /\ confirm' = Closed
    /\ asked' = FALSE
    /\ UNCHANGED <<server, list, detail, writes, told>>

(* The form is on the screen: its record has loaded, with no failure since. *)
Shown == form # Absent /\ form.seed > 0 /\ ~form.failed

(* Its delete dialog is modal. *)
Usable == Shown /\ form.remove = "closed"

(* The form is left by a link or by the browser's buttons: the blocker asks *)
(* about edits, and the user agrees.                                        *)
Leave ==
    /\ UserActs
    /\ form # Absent
    /\ asked' = form.edited
    /\ ShowList(list.stale)
    /\ UNCHANGED <<server, list, detail, writes, opened, told>>

(* Cancel waits for a write, and asks by itself before it takes the bypass. *)
Cancel ==
    /\ UserActs
    /\ Usable /\ ~form.pending
    /\ asked' = form.edited
    /\ ShowList(list.stale)
    /\ UNCHANGED <<server, list, detail, writes, opened, told>>

(* The back link above the form goes straight through goBack's bypass. *)
BackLink ==
    /\ UserActs
    /\ Usable
    /\ asked' = FALSE
    /\ ShowList(list.stale)
    /\ UNCHANGED <<server, list, detail, writes, opened, told>>

-----------------------------------------------------------------------------
(* Reads *)

Snapshot == [version |-> version, live |-> live]

ServeList ==
    /\ listFetch = Asked
    /\ listFetch' = Snapshot
    /\ UNCHANGED <<server, list, detail, detailFetch, form, confirm, writes, opened, told, asked, acts>>

ListArrives ==
    /\ listFetch \notin {Absent, Asked}
    /\ list' = [version |-> listFetch.version, live |-> listFetch.live, stale |-> FALSE]
    /\ listFetch' = Absent
    /\ joined' = (joined /\ listFetch.version < home)
    /\ UNCHANGED <<server, detail, detailFetch, form, confirm, writes, opened, own, home, asked, acts>>

(* The rows stay, whether or not the failure marks them as stale. *)
ListFails ==
    /\ listFetch # Absent
    /\ listFetch' = Absent
    /\ \E mark \in BOOLEAN : list' = [list EXCEPT !.stale = @ \/ mark]
    /\ UNCHANGED <<server, detail, detailFetch, form, confirm, writes, opened, told, asked, acts>>

ServeDetail ==
    /\ detailFetch = Asked
    /\ detailFetch' = Snapshot
    /\ UNCHANGED <<server, list, detail, listFetch, form, confirm, writes, opened, told, asked, acts>>

(* The record arrives: it seeds a form that has no values yet, which is     *)
(* made anew under the record's name, and only replaces the record behind   *)
(* the edits of one that has.                                               *)
Seeded(f, v) ==
    [f EXCEPT !.record = v, !.failed = FALSE, !.seed = IF @ = 0 THEN v ELSE @]

DetailArrives ==
    /\ detailFetch \notin {Absent, Asked}
    /\ detailFetch.live
    /\ detailFetch' = Absent
    /\ detail' = [version |-> detailFetch.version, stale |-> FALSE]
    /\ form' = Seeded(form, detailFetch.version)
    /\ asked' = FALSE
    /\ UNCHANGED <<server, list, listFetch, confirm, writes, opened, told, acts>>

(* A record that is gone, or cannot be read, puts a notice in the place of  *)
(* the form, until it is read again.                                        *)
DetailFails ==
    /\ detailFetch # Absent
    /\ detailFetch' = Absent
    /\ form' = [form EXCEPT !.failed = TRUE]
    /\ \E mark \in BOOLEAN :
          detail' = IF detail = Absent THEN Absent ELSE [detail EXCEPT !.stale = @ \/ mark]
    /\ asked' = FALSE
    /\ UNCHANGED <<server, list, listFetch, confirm, writes, opened, told, acts>>

(* A minute passes, and the window is looked at again: what is stale and on *)
(* the screen is fetched.                                                   *)
Refocus ==
    /\ UserActs
    /\ list' = [list EXCEPT !.stale = TRUE]
    /\ detail' = IF detail = Absent THEN Absent ELSE [detail EXCEPT !.stale = TRUE]
    /\ IF form = Absent
       THEN listFetch' = (IF listFetch = Absent THEN Asked ELSE listFetch) /\ UNCHANGED detailFetch
       ELSE detailFetch' = (IF detailFetch = Absent THEN Asked ELSE detailFetch) /\ UNCHANGED listFetch
    /\ asked' = FALSE
    /\ UNCHANGED <<server, form, confirm, writes, opened, told>>

-----------------------------------------------------------------------------
(* Writes *)

(* A field is changed; the fields stay open while a save is under way. *)
Edit ==
    /\ UserActs
    /\ Usable
    /\ form' = [form EXCEPT !.edited = TRUE]
    /\ asked' = FALSE
    /\ UNCHANGED <<server, queries, confirm, writes, opened, told>>

saveSecret(id, etag) == [kind |-> "save", id |-> id, etag |-> etag, state |-> "sent"]

(* From the form, or from a row of the list, this one or another. *)
deleteSecret(kind, id, etag) == [kind |-> kind, id |-> id, etag |-> etag, state |-> "sent"]

(* The form's submit, by its button or by the Enter key. *)
Submittable == Usable /\ ~form.pending

(* Submit: the values of the form, with the etag of the record as it is now. *)
mutate ==
    /\ UserActs
    /\ Submittable
    /\ form' = [form EXCEPT !.pending = TRUE, !.error = FALSE]
    /\ writes' = writes \cup {saveSecret(form.id, form.record)}
    /\ asked' = FALSE
    /\ UNCHANGED <<server, queries, confirm, opened, told>>

(* The form's delete dialog opens, closes unless a delete is under way, and *)
(* is confirmed.                                                            *)
onDelete ==
    /\ UserActs
    /\ Usable /\ ~form.pending
    /\ form' = [form EXCEPT !.remove = "open"]
    /\ asked' = FALSE
    /\ UNCHANGED <<server, queries, confirm, writes, opened, told>>

onRemoveOpenChange ==
    /\ form # Absent /\ form.remove \in {"open", "error"}
    /\ form' = [form EXCEPT !.remove = "closed"]
    /\ asked' = FALSE
    /\ UNCHANGED <<server, queries, confirm, writes, opened, told, acts>>

confirmRemove ==
    /\ UserActs
    /\ form # Absent /\ form.remove \in {"open", "error"}
    /\ form' = [form EXCEPT !.remove = "pending"]
    /\ writes' = writes \cup {deleteSecret("delete", form.id, form.record)}
    /\ asked' = FALSE
    /\ UNCHANGED <<server, queries, confirm, opened, told>>

(* The list's own delete dialog, for this row or for another, which can be  *)
(* dismissed at any time.                                                   *)
openRemove(other) ==
    /\ UserActs
    /\ form = Absent /\ ~confirm.open
    /\ other \/ (list.version > 0 /\ list.live)
    /\ confirm' = [open |-> TRUE, pending |-> FALSE, error |-> FALSE, other |-> other]
    /\ asked' = FALSE
    /\ UNCHANGED <<server, queries, form, writes, opened, told>>

closeRemove ==
    /\ confirm.open
    /\ confirm' = [confirm EXCEPT !.open = FALSE]
    /\ asked' = FALSE
    /\ UNCHANGED <<server, queries, form, writes, opened, told, acts>>

(* (Bound: a list has one delete of another row under way.) *)
confirmRowRemove ==
    /\ UserActs
    /\ confirm.open /\ ~confirm.pending
    /\ confirm.other => \A w \in writes : w.kind # "other"
    /\ confirm' = [confirm EXCEPT !.pending = TRUE, !.error = FALSE]
    /\ writes' = writes \cup {deleteSecret(IF confirm.other THEN "other" ELSE "row",
                                           opened, list.version)}
    /\ asked' = FALSE
    /\ UNCHANGED <<server, queries, form, opened, told>>

(* The server applies a write whose etag is the record's. *)
Matches(etag) == live /\ etag = version

ServeWrite(w) ==
    /\ w \in writes /\ w.state = "sent" /\ w.kind # "other"
    /\ LET ok == Matches(w.etag)
       IN  /\ ok => version <= MaxVersion
           /\ writes' = (writes \ {w}) \cup {[w EXCEPT !.state = IF ok THEN "done" ELSE "refused"]}
           /\ version' = IF ok THEN version + 1 ELSE version
           /\ live' = (live /\ ~(ok /\ w.kind # "save"))
    /\ asked' = FALSE
    /\ UNCHANGED <<queries, form, confirm, opened, told, acts>>

(* The other row is gone, or its delete is refused: nothing to this record. *)
ServeOther(w) ==
    /\ w \in writes /\ w.state = "sent" /\ w.kind = "other"
    /\ \E state \in {"done", "refused"} :
          writes' = (writes \ {w}) \cup {[w EXCEPT !.state = state]}
    /\ asked' = FALSE
    /\ UNCHANGED <<server, queries, form, confirm, opened, told, acts>>

(* A write that a form page sent, and the page, if the user still has it open. *)
FromForm(w) == w.kind \in {"save", "delete"}
Mine(w) == form # Absent /\ form.id = w.id

(* A save or a delete of a form page succeeded. *)
Succeeded(w) ==
    /\ w \in writes /\ w.state = "done" /\ FromForm(w)
    /\ writes' = writes \ {w}
    /\ own' = IF w.etag + 1 > own THEN w.etag + 1 ELSE own
    /\ home' = IF Mine(w) THEN own' ELSE home
    /\ joined' = (joined \/ (Mine(w) /\ listFetch \notin {Absent, Asked}))
    /\ goBackAndRefresh(w.id)
    /\ UNCHANGED <<server, opened, acts>>

(* Mutant: a rejected request is not caught. *)
Fail_Uncaught(f, w, thrown) ==
    IF thrown THEN f
    ELSE IF w.kind = "save" THEN [f EXCEPT !.pending = FALSE, !.error = TRUE]
    ELSE [f EXCEPT !.remove = "error"]

(* What a failed write leaves of its form: no spinner, and a message. *)
Fail(f, w, thrown) ==
    IF w.kind = "save" THEN [f EXCEPT !.pending = FALSE, !.error = TRUE]
    ELSE [f EXCEPT !.remove = "error"]

(* A write of a form page is refused, or its connection breaks before or    *)
(* after the server has seen it.                                            *)
Failed(w, thrown) ==
    /\ w \in writes /\ FromForm(w)
    /\ thrown \/ w.state = "refused"
    /\ writes' = writes \ {w}
    /\ form' = IF Mine(w) THEN Fail(form, w, thrown) ELSE form
    /\ asked' = FALSE
    /\ UNCHANGED <<server, queries, confirm, opened, told, acts>>

(* The list hears of its delete: it fetches itself again, even when the     *)
(* user has left it, and a refusal is shown in whatever dialog it has open. *)
RowDeleted(w) ==
    /\ w \in writes /\ ~FromForm(w) /\ w.state # "sent"
    /\ writes' = writes \ {w}
    /\ listFetch' = IF w.state = "done" THEN Asked ELSE listFetch
    /\ confirm' = IF form # Absent \/ w.id # opened THEN confirm
                  ELSE IF w.state = "done" THEN Closed
                  ELSE [confirm EXCEPT !.pending = FALSE, !.error = TRUE]
    /\ asked' = FALSE
    /\ UNCHANGED <<server, list, detail, detailFetch, form, opened, told, acts>>

(* The connection of a row's delete breaks: nothing catches it. *)
RowLost(w) ==
    /\ w \in writes /\ ~FromForm(w)
    /\ writes' = writes \ {w}
    /\ asked' = FALSE
    /\ UNCHANGED <<server, queries, form, confirm, opened, told, acts>>

(* Another user saves the record. *)
OtherSave ==
    /\ UserActs
    /\ live /\ version <= MaxVersion
    /\ version' = version + 1
    /\ asked' = FALSE
    /\ UNCHANGED <<live, queries, form, confirm, writes, opened, told>>

Settle(w) == ServeWrite(w) \/ ServeOther(w) \/ Succeeded(w) \/ Failed(w, FALSE) \/ Failed(w, TRUE)
                \/ RowDeleted(w) \/ RowLost(w)

Reads == ServeList \/ ListArrives \/ ListFails \/ ServeDetail \/ DetailArrives \/ DetailFails

AdminNext ==
    \/ OpenForm \/ Leave \/ Cancel \/ BackLink
    \/ Reads \/ Refocus
    \/ Edit \/ mutate \/ onDelete \/ onRemoveOpenChange \/ confirmRemove
    \/ \E other \in BOOLEAN : openRemove(other)
    \/ closeRemove \/ confirmRowRemove
    \/ \E w \in writes : Settle(w)
    \/ OtherSave

(* Every request is answered or breaks. *)
AdminSpec == AdminInit /\ [][AdminNext]_adminVars /\ WF_adminVars(\E w \in writes : Settle(w)) /\ WF_adminVars(Reads)

-----------------------------------------------------------------------------
(* Properties *)

(* A form that is opened after a save of this user's was acknowledged never *)
(* starts from values older than that save, whichever fetches were under    *)
(* way when it was acknowledged.                                            *)
SeededFresh ==
    [][(form' # Absent /\ form'.seed > 0 /\ (form # Absent => form.seed = 0)) => form'.seed >= own]_adminVars

(* The list a form returns to after its write, once it is shown as fresh,   *)
(* has that write in it, also when an earlier form's write answers later or *)
(* a row's delete fetches the list under the form.  The exceptions: a write *)
(* whose form was left before the answer, and an answer for the list that   *)
(* was on its way already when the write was acknowledged, which the list   *)
(* takes for its own fetch.                                                 *)
ListFresh ==
    (form = Absent /\ listFetch = Absent /\ ~list.stale /\ ~joined) => list.version >= home

(* Edits disappear without a question only when their own form's write has  *)
(* succeeded or through the back link: not when the write of an earlier     *)
(* form answers late and navigates away under the user.                     *)
EditsGuarded ==
    [][(form # Absent /\ form.edited /\ form' = Absent) =>
          \/ asked'
          \/ \E w \in writes \ writes' : w.id = form.id /\ w.state = "done"
          \/ BackLink]_adminVars

(* A form never waits for ever: a save or a delete that is refused, or      *)
(* whose connection breaks, gives the buttons back.                         *)
Waiting == form # Absent /\ (form.pending \/ form.remove = "pending")
FormSettles == Waiting ~> ~Waiting
=============================================================================
