---------------------------- MODULE SessionPages ----------------------------
(***************************************************************************)
(* The v4 sessions list and the batch of details (routes/sessions.py,      *)
(* dbaux/projection.py, dbaux/cursor.py): a client that walks the list     *)
(* page by page, or asks for a batch of sessions, while the upstream       *)
(* server writes to the table and the database comes and goes.             *)
(***************************************************************************)
EXTENDS Integers, Sequences, FiniteSets, SequencesExt, FiniteSetsExt

CONSTANTS
    Ids,           \* session ids: numbers, ordered like the strings are
    Attr,          \* what never changes of a row: root, hit, like, dir, kind
    Filters,       \* the filter contexts a client uses
    Limit,         \* rows of a page
    Fanout,        \* _NATIVE_FANOUT_CONCURRENCY
    Batches,       \* the batches a client asks for
    MaxChanges     \* bound: upstream writes

\* kind: "good", "json" (a column that does not parse: the row is skipped) or
\* "shape" (a required field that cannot be represented: the page fails).
ASSUME AttrAssumption ==
    /\ Ids \subseteq Nat \ {0}
    /\ Attr \in [Ids -> [root : BOOLEAN, hit : BOOLEAN, like : BOOLEAN, dir : BOOLEAN,
                         kind : {"good", "json", "shape"}]]
    /\ \A i \in Ids : Attr[i].hit => Attr[i].like
ASSUME BoundAssumption == {Limit, Fanout} \subseteq Nat \ {0}

VARIABLES
    rows,      \* the session table: id -> time_updated and archived flag
    db,        \* the auxiliary source: "up", "busy" or "down"
    allow,     \* a directory_allowlist is configured
    walk,      \* the client's walk through the pages
    batch,     \* the client's batch of details
    changes

pageVars == <<rows, db, allow, walk, batch, changes>>

None == <<>>
NoWalk == [pc |-> "idle", f |-> None, cursor |-> None, got |-> <<>>, touched |-> {}, faithful |-> TRUE,
           code |-> 0]
NoBatch == [pc |-> "idle", sids |-> {}, task |-> None, gone |-> {}, missing |-> {}]

-----------------------------------------------------------------------------
(* build_sessions_query.                                                   *)

ArchivedPred(f, r) == CASE f.archived = "omit" -> ~rows[r].arch
                        [] f.archived = "only" -> rows[r].arch
                        [] f.archived = "all" -> TRUE

ParentPred(f, r) == CASE f.parent = "none" -> Attr[r].root
                      [] f.parent = "only" -> ~Attr[r].root
                      [] f.parent = "all" -> TRUE

\* LIKE with the wildcards escaped: the title contains the text itself.
SearchPred(f, r) == f.search = "no" \/ Attr[r].hit

Where(f) == {r \in DOMAIN rows : /\ ArchivedPred(f, r) /\ ParentPred(f, r) /\ SearchPred(f, r)
                                 /\ (allow => Attr[r].dir)}

\* (time_updated, id), compared lexicographically.
Key(r) == <<rows[r].t, r>>
Below(k, l) == k[1] < l[1] \/ (k[1] = l[1] /\ k[2] < l[2])

\* ORDER BY time_updated DESC, id DESC.
Descending(S) == SetToSortSeq(S, LAMBDA a, b : Below(Key(b), Key(a)))

Keyset(S, cursor) == {r \in S : cursor = None \/ Below(Key(r), cursor)}

FirstOf(n, s) == SubSeq(s, 1, Min({n, Len(s)}))

\* LIMIT ? + 1.
Window(f, cursor) == FirstOf(Limit + 1, Descending(Keyset(Where(f), cursor)))

\* rows_to_records.
Records(w) == SelectSeq(w, LAMBDA r : Attr[r].kind # "json")

\* Variant: the anchor is the last row that was delivered.
AnchorOfRecords(w) ==
    LET page == Records(FirstOf(Limit, w)) IN IF page = <<>> THEN None ELSE Key(Last(page))

\* _window_anchor: the last raw row of the page.
WindowAnchor(w) == IF w = <<>> THEN None ELSE Key(Last(FirstOf(Limit, w)))

\* fetch_sessions_page.
Page(f, cursor) ==
    LET w == Window(f, cursor)
    IN [records |-> Records(FirstOf(Limit, w)), complete |-> Len(w) <= Limit, anchor |-> WindowAnchor(w)]

Representable(s) == \A i \in DOMAIN s : Attr[s[i]].kind = "good"

-----------------------------------------------------------------------------
(* The degraded page: GET /experimental/session of the upstream server,    *)
(* whose LIKE does not escape and which knows no directory list.           *)

UpstreamList(roots, archived, search) ==
    FirstOf(Limit, Descending({r \in DOMAIN rows : /\ roots => Attr[r].root
                                                   /\ archived \/ ~rows[r].arch
                                                   /\ CASE search = "no" -> TRUE
                                                        [] search = "plain" -> Attr[r].hit
                                                        [] search = "wild" -> Attr[r].like}))

\* What the upstream list cannot express is refused with a 503.
FailsClosed(f, cursor) ==
    \/ allow \/ f.search = "wild" \/ cursor # None
    \/ f.archived = "only" \/ f.parent = "only"

ClassA(f) == UpstreamList(f.parent = "none", f.archived = "all", f.search)

-----------------------------------------------------------------------------
PagesInit ==
    /\ rows \in {[i \in S |-> [t |-> IF i % 2 = 0 THEN i - 1 ELSE i, arch |-> FALSE]] : S \in {Ids, Ids \ {Max(Ids)}}}
    /\ db = "up" /\ allow \in BOOLEAN /\ walk = NoWalk /\ batch = NoBatch /\ changes = 0

\* build_fingerprint: the filters and the allowlist a cursor belongs to.
Fingerprint(f) == [filter |-> f, allow |-> allow]

\* An error leaves the client where it was: it may ask the same page again.
Refuse(code) == walk' = [walk EXCEPT !.code = code]

\* _sessions_v4 answering from the database.
FromDb(f, cursor) ==
    LET p == Page(f, cursor)
        next == IF ~p.complete THEN p.anchor ELSE None
    IN IF ~Representable(p.records) THEN Refuse(503)
       ELSE walk' = [walk EXCEPT !.pc = IF next = None THEN "done" ELSE "more", !.f = Fingerprint(f),
                                 !.cursor = next, !.got = @ \o p.records, !.code = 200]

\* _sessions_v4 answering from the upstream list: no cursor to go on with.
FromHttp(f) ==
    LET items == ClassA(f)
        want == FirstOf(Limit, Descending(Where(f)))
    IN IF ~Representable(items) THEN Refuse(503)
       ELSE walk' = [walk EXCEPT !.pc = "degraded", !.f = Fingerprint(f), !.faithful = (items = want),
                                 !.code = 200]

Answer(f, cursor) ==
    \/ db = "up" /\ FromDb(f, cursor)
    \/ db = "busy" /\ Refuse(503)
    \/ db = "down" /\ FailsClosed(f, cursor) /\ Refuse(503)
    \/ db = "down" /\ ~FailsClosed(f, cursor) /\ FromHttp(f)

FirstPage(f) ==
    /\ walk.pc = "idle" /\ batch.pc = "idle"
    /\ Answer(f, None)
    /\ UNCHANGED <<rows, db, allow, batch, changes>>

\* A cursor of another filter context is a 400, before the database is asked.
NextPage(f) ==
    /\ walk.pc = "more"
    /\ IF walk.f # Fingerprint(f) THEN Refuse(400) ELSE Answer(f, walk.cursor)
    /\ UNCHANGED <<rows, db, allow, batch, changes>>

\* The client is done with what it asked.
Forget ==
    /\ walk.pc \in {"done", "degraded"} \/ batch.pc \in {"answered", "failed"}
    /\ walk' = NoWalk /\ batch' = NoBatch
    /\ UNCHANGED <<rows, db, allow, changes>>

-----------------------------------------------------------------------------
(* The batch of details.                                                   *)

Absent(S) == S \ DOMAIN rows
Respond(missing) == batch' = [batch EXCEPT !.pc = "answered", !.task = None, !.missing = missing]
FailBatch == batch' = [batch EXCEPT !.pc = "failed", !.task = None]

Begin(S) == [NoBatch EXCEPT !.sids = S, !.gone = Absent(S)]

\* sessions_details_batch with the database up: one query; a row that is there
\* but cannot be delivered fails the whole batch.
DetailsFromDb(S) ==
    /\ walk.pc = "idle" /\ batch.pc = "idle" /\ db = "up"
    /\ batch' = IF \A r \in S \cap DOMAIN rows : Attr[r].kind = "good"
                THEN [Begin(S) EXCEPT !.pc = "answered", !.missing = Absent(S)]
                ELSE [Begin(S) EXCEPT !.pc = "failed"]
    /\ UNCHANGED <<rows, db, allow, walk, changes>>

\* A busy database or a full transform pool is a 503 before any upstream call.
DetailsRefused(S) ==
    /\ walk.pc = "idle" /\ batch.pc = "idle" /\ db # "up"
    /\ batch' = [Begin(S) EXCEPT !.pc = "failed"]
    /\ UNCHANGED <<rows, db, allow, walk, changes>>

\* _details_via_native: one task per session.
DetailsViaNative(S) ==
    /\ walk.pc = "idle" /\ batch.pc = "idle" /\ db = "down"
    /\ batch' = [Begin(S) EXCEPT !.pc = "native", !.task = [r \in S |-> "wait"]]
    /\ UNCHANGED <<rows, db, allow, walk, changes>>

\* _fetch_native_session takes the semaphore and sends.
NativeSend(r) ==
    /\ batch.pc = "native" /\ batch.task[r] = "wait"
    /\ Cardinality({q \in batch.sids : batch.task[q] = "run"}) < Fanout
    /\ batch' = [batch EXCEPT !.task[r] = "run"]
    /\ UNCHANGED <<rows, db, allow, walk, changes>>

\* Variant: an answer of any status but 200 counts as missing.
NativeAnswerLenient(r, ok) ==
    /\ batch.pc = "native" /\ batch.task[r] = "run"
    /\ batch' = [batch EXCEPT !.task[r] = IF ok /\ r \in DOMAIN rows THEN "200" ELSE "404"]
    /\ UNCHANGED <<rows, db, allow, walk, changes>>

\* Its answer: 200, 404, or (~ok) a transport error, another status or a body
\* over the cap, which cancels the other tasks and fails the batch.
NativeAnswer(r, ok) ==
    /\ batch.pc = "native" /\ batch.task[r] = "run"
    /\ IF ok THEN batch' = [batch EXCEPT !.task[r] = IF r \in DOMAIN rows THEN "200" ELSE "404"]
       ELSE FailBatch
    /\ UNCHANGED <<rows, db, allow, walk, changes>>

\* _project_native_batch and _respond_batch.
NativeProject ==
    /\ batch.pc = "native" /\ \A r \in batch.sids : batch.task[r] \in {"200", "404"}
    /\ IF \A r \in batch.sids : batch.task[r] = "200" => Attr[r].kind = "good"
       THEN Respond({r \in batch.sids : batch.task[r] = "404"})
       ELSE FailBatch
    /\ UNCHANGED <<rows, db, allow, walk, changes>>

-----------------------------------------------------------------------------
(* The upstream server writes; the source comes and goes.                  *)

Touch(r) == walk' = [walk EXCEPT !.touched = IF walk.pc \in {"more", "done"} THEN @ \cup {r} ELSE @]

Latest == Max({0} \cup {rows[q].t : q \in DOMAIN rows})

\* time_updated is the clock: at or after the latest one written.
Write(r, tick, a) ==
    /\ changes < MaxChanges /\ changes' = changes + 1
    /\ rows' = [q \in DOMAIN rows \cup {r} |-> IF q = r THEN [t |-> Latest + tick, arch |-> a]
                                              ELSE rows[q]]
    /\ Touch(r) /\ UNCHANGED <<db, allow, batch>>

Delete(r) ==
    /\ r \in DOMAIN rows /\ changes < MaxChanges /\ changes' = changes + 1
    /\ rows' = [q \in DOMAIN rows \ {r} |-> rows[q]]
    /\ batch' = [batch EXCEPT !.gone = IF r \in batch.sids THEN @ \cup {r} ELSE @]
    /\ Touch(r) /\ UNCHANGED <<db, allow>>

Availability(d) == d # db /\ db' = d /\ UNCHANGED <<rows, allow, walk, batch, changes>>

\* The sidecar is restarted with another configuration.
Reconfigure ==
    /\ changes < MaxChanges /\ changes' = changes + 1 /\ batch.pc # "native"
    /\ allow' = ~allow /\ UNCHANGED <<rows, db, walk, batch>>

PagesNext ==
    \/ \E f \in Filters : FirstPage(f) \/ NextPage(f)
    \/ Forget
    \/ \E S \in Batches : DetailsFromDb(S) \/ DetailsRefused(S) \/ DetailsViaNative(S)
    \/ \E r \in batch.sids : NativeSend(r) \/ \E ok \in BOOLEAN : NativeAnswer(r, ok)
    \/ NativeProject
    \/ \E r \in Ids, tick \in 0..1, a \in BOOLEAN : Write(r, tick, a)
    \/ \E r \in Ids : Delete(r)
    \/ \E d \in {"up", "busy", "down"} : Availability(d)
    \/ Reconfigure

-----------------------------------------------------------------------------
\* The rows a walk owes its client: they match its filter, can be delivered,
\* and nobody wrote to them since its first page.
Owed == {r \in Where(walk.f.filter) \ walk.touched : Attr[r].kind = "good"}

\* Walking the list page by page neither skips nor repeats a session that is not
\* written to meanwhile: what lies above the cursor has been delivered exactly
\* once, in list order, what lies below has not, and at the end everything has.
\* Rows that cannot be parsed never end the walk early (_window_anchor).
WalkIsExact ==
    walk.pc \in {"more", "done"} /\ walk.f.allow = allow =>
        /\ \A r \in Owed : Contains(walk.got, r) <=> ~(walk.cursor # None /\ Below(Key(r), walk.cursor))
        /\ \A i, j \in DOMAIN walk.got :
              i < j /\ {walk.got[i], walk.got[j]} \subseteq DOMAIN rows \ walk.touched
                  => Below(Key(walk.got[j]), Key(walk.got[i]))

\* A page served without the database is the page the database would have
\* served: filters and order never degrade (the class A rule of _sessions_v4).
DegradedIsFaithful == walk.faithful

\* A session is reported missing only if it was absent at some moment of the
\* request, however the fan-out's answers, deletions and failures interleave.
MissingIsTrue == batch.missing \subseteq batch.gone

\* What is answered without the database is right, for a page and for a batch.
AnswersAreFaithful == DegradedIsFaithful /\ MissingIsTrue
=============================================================================
