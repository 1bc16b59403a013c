------------------------------ MODULE MessageList ------------------------------
(***************************************************************************)
(* GET /slimapi/messages/{sid} with incremental sync: the list window of   *)
(* one session (routes/messages/_list.py), the since cache (since_cache.py)*)
(* and the clients that apply its diffs.                                   *)
(*                                                                         *)
(* A request observes the cache entry, then waits: for the upstream GET    *)
(* (its own, one it shares through the leased registry, or a direct one    *)
(* when the registry's budget is full) and for the projection; then it     *)
(* publishes by compare-and-swap and answers.  The registry keys flights   *)
(* by the raw mode parameter, the since cache by its normal form.          *)
(***************************************************************************)
EXTENDS Integers, FiniteSets, FiniteSetsExt

CONSTANTS
    Ids,           \* messages, numbered in the order they are created
    Undated,       \* messages whose info.time.created is malformed
    Existing,      \* how many there are to begin with
    PageLimit,     \* limit
    Apps,          \* clients, each with at most one request under way
    Incremental,   \* those that use since; the others read whole windows
    Modes,         \* mode parameters other than "merged", all ignored
    Bypass,        \* whether the registry's budget may be full
    MaxChanges,    \* bound: changes of the upstream session and restarts of the sidecar
    MaxGenerations \* bound: cache generations of one process

ASSUME MessageAssumption ==
    /\ Ids = 1..Cardinality(Ids)
    /\ Undated \subseteq Ids /\ Incremental \subseteq Apps /\ {Existing, PageLimit} \subseteq Ids
    /\ Bypass \in BOOLEAN /\ MaxChanges \in Nat /\ MaxGenerations \in Nat

VARIABLES
    session,     \* upstream: message -> version
    newest,      \* the last message created; ids are not reused
    edits,       \* changes so far: the upstream's clock
    entry,       \* the since cache's entry of this session, or NoEntry
    boot,        \* the process epoch, and the last generation it allocated
    lists,       \* the registry: per mode, none, a leader or a body in grace
    apps         \* the clients: token and messages they hold, and their request

messageVars == <<session, newest, edits, entry, boot, lists, apps>>

Nothing == [m \in {} |-> 0]
NoBody == [items |-> Nothing, more |-> FALSE, at |-> 0]
NoEntry == [items |-> Nothing, at |-> 0, gen |-> 0]
NoToken == [epoch |-> 0, gen |-> 0]
NoList == [st |-> "none", lead |-> "none", body |-> NoBody]
Quiescent == [pc |-> "idle", mode |-> "none", since |-> FALSE, observed |-> 0, base |-> NoEntry,
              body |-> NoBody]

MessagesInit ==
    /\ newest = Existing /\ session = [m \in {k \in Ids : k <= newest} |-> 0]
    /\ edits = 0 /\ entry = NoEntry /\ boot = [epoch |-> 1, gen |-> 0]
    /\ lists = [m \in Modes |-> NoList]
    /\ apps = [a \in Apps |-> [token |-> NoToken, held |-> Nothing, req |-> Quiescent]]

-----------------------------------------------------------------------------
(* The upstream session, and its answer to the list GET: the newest        *)
(* PageLimit messages, and a Link to more if there are any.                *)

Changeable == edits + boot.epoch <= MaxChanges

Edit(new) ==
    /\ Changeable /\ edits' = edits + 1 /\ session' = new
    /\ UNCHANGED <<entry, boot, lists, apps>>

AppendMessage(m) ==
    /\ m = newest + 1 /\ newest' = m
    /\ Edit([x \in DOMAIN session \cup {m} |-> IF x = m THEN 0 ELSE session[x]])
UpdateMessage(m) == m \in DOMAIN session /\ UNCHANGED newest /\ Edit([session EXCEPT ![m] = @ + 1])
DeleteMessage(m) == m \in DOMAIN session /\ UNCHANGED newest /\ Edit([x \in DOMAIN session \ {m} |-> session[x]])

Newest(S, n) == {m \in S : Cardinality({x \in S : x > m}) < n}
ListAnswer == LET page == Newest(DOMAIN session, PageLimit)
              IN [items |-> [m \in page |-> session[m]], more |-> page # DOMAIN session, at |-> edits]

-----------------------------------------------------------------------------
(* _artifact_from_array_bytes: the diff of a window against a baseline.    *)

\* The first item after the sort: malformed rows sort to the head.
FreshOldest(items) ==
    IF DOMAIN items \cap Undated # {} THEN Min(DOMAIN items \cap Undated) ELSE Min(DOMAIN items)

\* _boundary_key comparisons; a malformed row is no boundary.
NewerThanOldest(m, items) ==
    /\ DOMAIN items # {} /\ FreshOldest(items) \notin Undated
    /\ m \notin Undated /\ m > FreshOldest(items)

Changed(base, items) == {m \in DOMAIN items : m \notin DOMAIN base \/ base[m] # items[m]}

\* Variant: everything that is not in the window any more is gone.
RemovedOutright(base, body) == DOMAIN base \ DOMAIN body.items

Removed(base, body) ==
    {m \in DOMAIN base \ DOMAIN body.items : ~body.more \/ NewerThanOldest(m, body.items)}

-----------------------------------------------------------------------------
(* The request up to its first await.                                      *)

\* check_token: anything but the current generation of this process resets.
TokenValid(token) == token.epoch = boot.epoch /\ entry # NoEntry /\ token.gen = entry.gen

\* messages, _since_request_state and the registry's serial point.
Ask(a, mode, direct) ==
    /\ apps[a].req.pc = "idle" /\ (direct => Bypass /\ lists[mode].st = "none")
    /\ LET since == apps[a].token # NoToken
           base == IF since /\ TokenValid(apps[a].token) THEN entry ELSE NoEntry
           st == lists[mode].st
           pc == CASE direct -> "direct" [] ~direct /\ st = "grace" -> "project"
                   [] ~direct /\ st = "open" -> "join" [] OTHER -> "lead"
       IN /\ apps' = [apps EXCEPT ![a].held = IF since THEN @ ELSE Nothing, ![a].req =
                 [Quiescent EXCEPT !.pc = pc, !.mode = mode, !.since = since, !.observed = entry.gen, !.base = base,
                                   !.body = IF pc = "project" THEN lists[mode].body ELSE NoBody]]
          /\ lists' = IF pc = "lead" THEN [lists EXCEPT ![mode] = [NoList EXCEPT !.st = "open", !.lead = a]] ELSE lists
    /\ UNCHANGED <<session, newest, edits, entry, boot>>

-----------------------------------------------------------------------------
(* The awaits: the GET, the projection.                                    *)

\* The upstream answers a leader, whose joiners share the body, or a direct GET.
ListFetched(a) ==
    /\ apps[a].req.pc \in {"lead", "direct"}
    /\ LET lead == apps[a].req.pc = "lead"
           mode == apps[a].req.mode
           with(x) == x = a \/ (lead /\ apps[x].req.pc = "join" /\ apps[x].req.mode = mode)
       IN /\ apps' = [x \in Apps |-> IF with(x) THEN [apps[x] EXCEPT !.req.pc = "project", !.req.body = ListAnswer]
                                     ELSE apps[x]]
          /\ lists' = IF lead THEN [lists EXCEPT ![mode] = [NoList EXCEPT !.st = "grace", !.body = ListAnswer]] ELSE lists
    /\ UNCHANGED <<session, newest, edits, entry, boot>>

\* It fails, for the leader and for everyone who shares it.
ListFailed(a) ==
    /\ apps[a].req.pc \in {"lead", "direct"}
    /\ LET lead == apps[a].req.pc = "lead"
           mode == apps[a].req.mode
           with(x) == x = a \/ (lead /\ apps[x].req.pc = "join" /\ apps[x].req.mode = mode)
       IN /\ apps' = [x \in Apps |-> IF with(x) THEN [apps[x] EXCEPT !.req = Quiescent] ELSE apps[x]]
          /\ lists' = IF lead THEN [lists EXCEPT ![mode] = NoList] ELSE lists
    /\ UNCHANGED <<session, newest, edits, entry, boot>>

ListExpires(mode) ==
    /\ lists[mode].st = "grace"
    /\ lists' = [lists EXCEPT ![mode] = NoList]
    /\ UNCHANGED <<session, newest, edits, entry, boot, apps>>

-----------------------------------------------------------------------------
(* _publish_since and the answer: one serial step.                         *)

SameObservation(req) == entry.gen = req.observed

Fresh(req) == [items |-> req.body.items, at |-> req.body.at, gen |-> boot.gen + 1]

\* Variant: the loser of the race is handed the winner's token.
CommitLeniently(req, fits) ==
    IF ~SameObservation(req) THEN [entry |-> entry, token |-> entry # NoEntry]
    ELSE IF entry # NoEntry /\ entry.items = req.body.items THEN [entry |-> entry, token |-> TRUE]
    ELSE IF ~fits THEN [entry |-> NoEntry, token |-> FALSE]
    ELSE [entry |-> Fresh(req), token |-> TRUE]

\* SinceCache.commit.  fits is FALSE for a window that cannot be cached: too
\* large, or with duplicate or missing ids.  A loser whose window is the
\* winner's shares its entry, any other is answered without a token.
Commit(req, fits) ==
    IF ~SameObservation(req) THEN [entry |-> entry, token |-> entry # NoEntry /\ entry.items = req.body.items]
    ELSE IF entry # NoEntry /\ entry.items = req.body.items THEN [entry |-> entry, token |-> TRUE]
    ELSE IF ~fits THEN [entry |-> NoEntry, token |-> FALSE]
    ELSE [entry |-> Fresh(req), token |-> TRUE]

\* What the client makes of it: a diff is applied to what it holds, any other
\* answer replaces that; without a nextSince it starts afresh.
Apply(app, body, removed, diff) ==
    LET keep == IF diff THEN DOMAIN app.held \ removed ELSE {}
        new == IF diff THEN Changed(app.req.base.items, body.items) ELSE DOMAIN body.items
    IN [m \in keep \cup new |-> IF m \in new THEN body.items[m] ELSE app.held[m]]

\* arrives is FALSE if the client goes away while the answer is packed: what
\* was published stays.
Answer(a, fits, arrives) ==
    /\ apps[a].req.pc = "project"
    /\ LET req == apps[a].req
           diff == req.since /\ req.base # NoEntry
           removed == IF diff THEN Removed(req.base.items, req.body) ELSE {}
           done == Commit(req, fits)
       IN /\ done.entry.gen <= MaxGenerations /\ entry' = done.entry
          /\ boot' = [boot EXCEPT !.gen = IF done.entry.gen > @ THEN done.entry.gen ELSE @]
          /\ apps' = [apps EXCEPT ![a] =
                IF ~arrives \/ a \notin Incremental THEN [@ EXCEPT !.req = Quiescent] ELSE
                [token |-> IF done.token THEN [epoch |-> boot.epoch, gen |-> done.entry.gen] ELSE NoToken,
                 held |-> Apply(apps[a], req.body, removed, diff),
                 req |-> Quiescent]]
    /\ UNCHANGED <<session, newest, edits, lists>>

\* transform_busy, or a body that is no list of messages: nothing is published.
Refused(a) ==
    /\ apps[a].req.pc = "project"
    /\ apps' = [apps EXCEPT ![a].req = Quiescent]
    /\ UNCHANGED <<session, newest, edits, entry, boot, lists>>

-----------------------------------------------------------------------------
(* Other sessions push the entry out; the sidecar restarts.                *)

EvictEntry ==
    /\ entry # NoEntry /\ entry' = NoEntry
    /\ UNCHANGED <<session, newest, edits, boot, lists, apps>>

Reboot ==
    /\ Changeable
    /\ boot' = [epoch |-> boot.epoch + 1, gen |-> 0]
    /\ entry' = NoEntry /\ lists' = [m \in Modes |-> NoList]
    /\ apps' = [a \in Apps |-> [apps[a] EXCEPT !.req = Quiescent]]
    /\ UNCHANGED <<session, newest, edits>>

MessagesNext ==
    \/ \E m \in Ids : AppendMessage(m) \/ UpdateMessage(m) \/ DeleteMessage(m)
    \/ \E a \in Apps : \/ (\E mode \in Modes, direct \in BOOLEAN : Ask(a, mode, direct))
                       \/ ListFetched(a) \/ ListFailed(a) \/ (\E fits, arrives \in BOOLEAN : Answer(a, fits, arrives))
                       \/ Refused(a)
    \/ \E mode \in Modes : ListExpires(mode)
    \/ EvictEntry \/ Reboot

-----------------------------------------------------------------------------
\* Incremental sync delivers the window: a client that applies each diff to what
\* it holds has, after every answer, every message of the window that answer
\* was made from, in the version it has there.  Rests on the token naming
\* exactly the window the client has (commit's rules for the loser of a race,
\* check_token's epoch and generation).
ClientHoldsWindow ==
    [][\A a \in Incremental, fits \in BOOLEAN : Answer(a, fits, TRUE) =>
        LET items == apps[a].req.body.items
            held == apps'[a].held
        IN \A m \in DOMAIN items : m \in DOMAIN held /\ held[m] = items[m]]_messageVars

\* The client is told to drop a message that still exists.
DropsExisting(a) ==
    \E fits \in BOOLEAN : /\ Answer(a, fits, TRUE) /\ apps[a].req.base # NoEntry
                          /\ (DOMAIN apps[a].held \ DOMAIN apps'[a].held) \cap DOMAIN session # {}

\* A message reported as removed is gone upstream, malformed rows and windows
\* that slid included, whenever the window was read after the baseline's.
RemovalsAreTrue ==
    [][\A a \in Incremental : DropsExisting(a) => apps[a].req.body.at < apps[a].req.base.at]_messageVars

\* "removed must never show false positives": a message that still exists is
\* not reported as removed, whichever window the answer was made from.
NoFalseRemoval == [][\A a \in Incremental : ~DropsExisting(a)]_messageVars
================================================================================
