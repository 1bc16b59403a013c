------------------------------- MODULE FullMerge -------------------------------
(***************************************************************************)
(* routes/messages/_full_merge.py: the mode=merged list requests, which    *)
(* inline the full bodies of a page's messages under a byte budget, and    *)
(* the direct GET /full requests that share upstream GETs with them.       *)
(*                                                                         *)
(* Both go through singleflight.fulls, whose key leaves the read cap out:  *)
(* a direct caller can join a flight that stops at a merged request's      *)
(* small cap, and a merged one can be served a body beyond its own.        *)
(***************************************************************************)
EXTENDS Integers, Sequences, SequencesExt, FiniteSets, FiniteSetsExt

CONSTANTS
    PageRows,         \* the projected page: [mid, placeholder, ref] in page order
    FullBytes,        \* message -> bytes of its full body
    Pagers, Directs,  \* merged list requests; direct /full requests
    DirectMid,        \* the message the direct requests ask for
    MaxMessageBytes, MergedMaxBytes, MergedFanout, MaxFullsPerPage

ASSUME FullAssumption ==
    /\ MaxMessageBytes \in Nat \ {0} /\ MergedMaxBytes \in Nat \ {0}
    /\ MergedFanout \in Nat \ {0} /\ MaxFullsPerPage \in Nat
    /\ Pagers \cap Directs = {} /\ DirectMid \in DOMAIN FullBytes
    /\ \A i \in DOMAIN PageRows : PageRows[i].mid \in DOMAIN FullBytes

VARIABLES
    fulls,      \* singleflight.fulls: message -> its flight
    fetches,    \* fetcher -> its _fetch_full_shared call
    merges      \* pager -> the budget left of its request, and what it answered

fullVars == <<fulls, fetches, merges>>

-----------------------------------------------------------------------------
(* _merged_candidate_pairs: placeholders first, references in what is left.*)

PlaceholderPairs == SelectSeq(PageRows, LAMBDA row : row.placeholder)
ExpandRefPairs == SelectSeq(PageRows, LAMBDA row : row.ref)

Candidates ==
    LET first == SubSeq(PlaceholderPairs, 1, Min({Len(PlaceholderPairs), MaxFullsPerPage}))
        rest == SelectSeq(ExpandRefPairs, LAMBDA row : \A i \in DOMAIN first : first[i].mid # row.mid)
    IN first \o SubSeq(rest, 1, Min({Len(rest), MaxFullsPerPage - Len(first)}))

DirectCalls == Directs \X {0}
Fetchers == DirectCalls \cup (Pagers \X DOMAIN Candidates)
IsDirect(f) == f \in DirectCalls
MidOf(f) == IF IsDirect(f) THEN DirectMid ELSE Candidates[f[2]].mid

NoFull == [st |-> "none", cap |-> 0, lead |-> <<>>]
NoFetch == [pc |-> "idle", cap |-> 0, tries |-> 0, news |-> "none", at |-> 0, got |-> "none", held |-> 0]
NoMerge == [pc |-> "idle", remaining |-> 0, inlined |-> {}]

FullInit ==
    /\ fulls = [m \in DOMAIN FullBytes |-> NoFull]
    /\ fetches = [f \in Fetchers |-> NoFetch]
    /\ merges = [g \in Pagers |-> NoMerge]

-----------------------------------------------------------------------------
(* _fetch_full_shared: up to three flights, then for a direct call one GET *)
(* of its own.                                                             *)

Done(f, got, held) == [fetches EXCEPT ![f].pc = "done", ![f].news = "none", ![f].got = got, ![f].held = held]

\* The finally of _fetch_one: what the reservation did not read goes back.
Refund(f, cap, held) == IF IsDirect(f) \/ held >= cap THEN 0 ELSE cap - held

Credit(g, bytes) == [merges EXCEPT ![g].remaining = @ + bytes]
Settle(f, cap, held) == IF IsDirect(f) THEN merges ELSE Credit(f[1], Refund(f, cap, held))

\* fulls.fetch: join the flight or the body in grace, or lead at the own cap.
Enter(f, cap, tries) ==
    LET flight == fulls[MidOf(f)]
        own == [NoFetch EXCEPT !.cap = cap, !.tries = tries]
    IN CASE flight.st = "grace" ->
               /\ fetches' = [fetches EXCEPT ![f] = [own EXCEPT !.pc = "done", !.got = "body", !.held = FullBytes[MidOf(f)]]]
               /\ UNCHANGED fulls
         [] flight.st = "open" ->
               /\ fetches' = [fetches EXCEPT ![f] = [own EXCEPT !.pc = "join"]]
               /\ UNCHANGED fulls
         [] flight.st = "none" ->
               /\ fetches' = [fetches EXCEPT ![f] = [own EXCEPT !.pc = "lead"]]
               /\ fulls' = [fulls EXCEPT ![MidOf(f)] = [st |-> "open", cap |-> cap, lead |-> f]]

\* What Enter leaves of the reservation: a body in grace settles it at once.
Entered(f, cap) == IF fulls[MidOf(f)].st = "grace" THEN Refund(f, cap, FullBytes[MidOf(f)]) ELSE 0

\* The flight of the leader f is over: its waiters learn how.
Tell(F, L, news, at) ==
    [f \in Fetchers |-> IF F[f].pc = "join" /\ MidOf(f) \in {MidOf(l) : l \in L}
                        THEN [F[f] EXCEPT !.pc = "woken", !.news = news, !.at = at] ELSE F[f]]

\* A truncated body is never kept: the flight is dropped.
FlightEnds(f, fails) ==
    /\ fetches[f].pc = "lead"
    /\ LET m == MidOf(f)
           cap == fetches[f].cap
           news == IF fails THEN "error" ELSE IF FullBytes[m] > cap THEN "short" ELSE "body"
           held == IF news = "body" THEN FullBytes[m] ELSE 0
           got == IF news = "short" THEN "truncated" ELSE news
       IN /\ fetches' = Tell(Done(f, got, held), {f}, news, cap)
          /\ fulls' = [fulls EXCEPT ![m] = IF news = "body" THEN [NoFull EXCEPT !.st = "grace"] ELSE NoFull]
          /\ merges' = Settle(f, cap, held)

\* Variant: three truncated flights and a direct call gives up.
RetriesSpentGivingUp(f) ==
    /\ fetches' = Done(f, "truncated", 0)
    /\ merges' = Settle(f, fetches[f].cap, 0)

\* The retry budget is spent: a direct call reads alone, a merged one degrades.
RetriesSpent(f) ==
    IF IsDirect(f) THEN fetches' = [fetches EXCEPT ![f].pc = "alone", ![f].news = "none"] /\ UNCHANGED merges
    ELSE fetches' = Done(f, "truncated", 0) /\ merges' = Settle(f, fetches[f].cap, 0)

\* A waiter runs again.  A flight whose leader was cancelled is re-entered
\* without spending a try, one cut short below the own cap spends one.
Wake(f) ==
    /\ fetches[f].pc = "woken"
    /\ LET cap == fetches[f].cap
           bytes == FullBytes[MidOf(f)]
           again(tries) == /\ Enter(f, cap, tries)
                           /\ merges' = IF IsDirect(f) THEN merges ELSE Credit(f[1], Entered(f, cap))
           settle(got, held) == /\ fetches' = Done(f, got, held) /\ merges' = Settle(f, cap, held)
                                /\ UNCHANGED fulls
       IN CASE fetches[f].news = "body" -> settle("body", bytes)
            [] fetches[f].news = "error" -> settle("error", 0)
            [] fetches[f].news = "cancelled" -> again(fetches[f].tries)
            [] fetches[f].news = "short" /\ fetches[f].at >= cap -> settle("truncated", 0)
            [] OTHER -> IF fetches[f].tries < 2 THEN again(fetches[f].tries + 1)
                        ELSE RetriesSpent(f) /\ UNCHANGED fulls

\* _dedicated_full_get outside the registry.
DedicatedEnds(d, fails) ==
    /\ fetches[d].pc = "alone"
    /\ LET fits == FullBytes[DirectMid] <= fetches[d].cap
       IN fetches' = Done(d, IF fails THEN "error" ELSE IF fits THEN "body" ELSE "truncated",
                          IF fits /\ ~fails THEN FullBytes[DirectMid] ELSE 0)
    /\ UNCHANGED <<fulls, merges>>

FullGraceExpires(m) ==
    /\ fulls[m].st = "grace" /\ fulls' = [fulls EXCEPT ![m] = NoFull]
    /\ UNCHANGED <<fetches, merges>>

-----------------------------------------------------------------------------
(* message: the direct route, once admitted.                               *)

AskFull(d) ==
    /\ fetches[d].pc \in {"idle", "done"}
    /\ Enter(d, MaxMessageBytes, 0)
    /\ UNCHANGED merges

-----------------------------------------------------------------------------
(* _merge_fulls                                                            *)

Items(g) == {<<g, i>> : i \in DOMAIN Candidates}
Running(g) == {f \in Items(g) : fetches[f].pc \in {"lead", "join", "woken"}}

BeginMerge(g) ==
    /\ merges[g].pc \in {"idle", "answered"}
    /\ merges' = [merges EXCEPT ![g] = [pc |-> "merging", remaining |-> MergedMaxBytes, inlined |-> {}]]
    /\ fetches' = [f \in Fetchers |-> IF f \in Items(g) THEN [NoFetch EXCEPT !.pc = "queued"] ELSE fetches[f]]
    /\ UNCHANGED fulls

\* Variant: the first candidate may reserve the whole budget.
CapOfFirstComers(g) == Min({MaxMessageBytes, merges[g].remaining})

\* F-006: an equal share of the budget.
CapOf(g) == Min({MaxMessageBytes, merges[g].remaining, Max({1, MergedMaxBytes \div Max({1, Len(Candidates)})})})

\* _fetch_one past the semaphore, in page order.
StartItem(g, i) ==
    /\ fetches[<<g, i>>].pc = "queued" /\ \A j \in 1..(i - 1) : fetches[<<g, j>>].pc # "queued"
    /\ Cardinality(Running(g)) < MergedFanout
    /\ LET f == <<g, i>>
           cap == CapOf(g)
       IN IF cap <= 0
          THEN fetches' = Done(f, "skipped", 0) /\ UNCHANGED <<fulls, merges>>
          ELSE Enter(f, cap, 0) /\ merges' = Credit(g, Entered(f, cap) - cap)

\* In page order, a body that no longer fits the budget is left out.
Inlined(g) ==
    FoldLeft(LAMBDA acc, i :
                LET f == fetches[<<g, i>>]
                IN IF f.got = "body" /\ acc.sum + f.held <= MergedMaxBytes
                   THEN [sum |-> acc.sum + f.held, in |-> acc.in \cup {i}] ELSE acc,
             [sum |-> 0, in |-> {}], [i \in DOMAIN Candidates |-> i]).in

\* All are back: splice and pack.
Splice(g) ==
    /\ merges[g].pc = "merging" /\ \A f \in Items(g) : fetches[f].pc = "done"
    /\ merges' = [merges EXCEPT ![g].pc = "answered", ![g].inlined = Inlined(g)]
    /\ UNCHANGED <<fulls, fetches>>

\* A client goes away: its calls are cancelled, and with a leader its flight.
Gone(F, M) ==
    LET leaders == {f \in F : fetches[f].pc = "lead"}
    IN /\ fetches' = Tell([f \in Fetchers |-> IF f \in F THEN NoFetch ELSE fetches[f]], leaders, "cancelled", 0)
       /\ fulls' = [m \in DOMAIN fulls |-> IF fulls[m].lead \in leaders THEN NoFull ELSE fulls[m]]
       /\ merges' = M

DirectLeaves(d) == fetches[d].pc \in {"lead", "join", "woken", "alone"} /\ Gone({d}, merges)
PagerLeaves(g) == merges[g].pc = "merging" /\ Gone(Items(g), [merges EXCEPT ![g] = NoMerge])

FullNext ==
    \/ \E f \in Fetchers : (\E fails \in BOOLEAN : FlightEnds(f, fails)) \/ Wake(f)
    \/ \E d \in DirectCalls : AskFull(d) \/ (\E fails \in BOOLEAN : DedicatedEnds(d, fails)) \/ DirectLeaves(d)
    \/ \E m \in DOMAIN FullBytes : FullGraceExpires(m)
    \/ \E g \in Pagers : BeginMerge(g) \/ (\E i \in DOMAIN Candidates : StartItem(g, i)) \/ Splice(g) \/ PagerLeaves(g)

-----------------------------------------------------------------------------
Reserved(f) ==
    CASE fetches[f].pc \in {"lead", "join", "woken"} -> fetches[f].cap
      [] fetches[f].pc = "done" -> Min({fetches[f].cap, fetches[f].held})
      [] OTHER -> 0

\* The fetch budget is exact under every completion order: what is left, what
\* the running fetches reserve and what the finished ones read of their
\* reservation add up to merged_max_bytes, windfalls from joined flights,
\* truncations, errors and retries included.
MergeBudgetIsExact ==
    \A g \in Pagers : merges[g].pc # "idle" =>
        /\ merges[g].remaining >= 0
        /\ merges[g].remaining + MapThenSumSet(Reserved, Items(g)) = MergedMaxBytes

\* I1 and the response bound: with at least a byte per candidate all of them
\* start, and what is inlined stays within merged_max_bytes although a joined
\* flight may have delivered more than was reserved.
MergeIsFair ==
    \A g \in Pagers :
        /\ MergedMaxBytes >= Len(Candidates) => \A f \in Items(g) : fetches[f].got # "skipped"
        /\ MapThenSumSet(LAMBDA i : fetches[<<g, i>>].held, merges[g].inlined) <= MergedMaxBytes

\* A direct /full never answers 413 for a body that fits max_message_bytes,
\* however many merged flights with a smaller cap it joined.
DirectIsNeverShort ==
    \A d \in DirectCalls : fetches[d].got = "truncated" => FullBytes[DirectMid] > MaxMessageBytes
================================================================================
