------------------------------ MODULE MCSupport ------------------------------
(***************************************************************************)
(* The parts of the sidecar beside the request path, one at a time: the    *)
(* access log, the session pages read from opencode's database, the shadow *)
(* sweep, and the application's start and stop.  They share no state that  *)
(* a property of theirs depends on, so a behaviour picks the part it       *)
(* exercises and the others keep their initial state.                      *)
(***************************************************************************)
EXTENDS AccessLog, SessionPages, QpSweep, Lifespan

CONSTANT Pieces   \* parts to exercise

VARIABLE piece

SupportInit ==
    /\ piece \in Pieces
    /\ LogInit /\ PagesInit /\ SweepInit /\ LifespanInit
    /\ (piece # "lifespan" => settings = {}) /\ (piece # "pages" => ~allow /\ DOMAIN rows = Ids)

SupportNext ==
    /\ UNCHANGED piece
    /\ \/ piece = "log" /\ LogNext /\ UNCHANGED <<pageVars, sweepVars, lifespanVars>>
       \/ piece = "pages" /\ PagesNext /\ UNCHANGED <<logVars, sweepVars, lifespanVars>>
       \/ piece = "sweep" /\ SweepNext /\ UNCHANGED <<logVars, pageVars, lifespanVars>>
       \/ piece = "lifespan" /\ LifespanNext /\ UNCHANGED <<logVars, pageVars, sweepVars>>

SupportSpec == SupportInit /\ [][SupportNext]_<<piece, logVars, pageVars, sweepVars, lifespanVars>>

-----------------------------------------------------------------------------
(* Session pages: five sessions.                                           *)

MCRow(root, hit, like, dir, kind) == [root |-> root, hit |-> hit, like |-> like, dir |-> dir, kind |-> kind]

\* Neighbouring pairs share their time_updated; the rows in the middle do not
\* parse, so that a page of one row can be empty.
MCAttr == <<MCRow(TRUE, TRUE, TRUE, TRUE, "shape"), MCRow(TRUE, FALSE, TRUE, TRUE, "good"),
            MCRow(FALSE, TRUE, TRUE, TRUE, "json"), MCRow(TRUE, TRUE, TRUE, FALSE, "good"),
            MCRow(TRUE, FALSE, FALSE, TRUE, "good")>>

MCFilters == {[archived |-> "omit", parent |-> "all", search |-> "wild"],
              [archived |-> "all", parent |-> "none", search |-> "no"],
              [archived |-> "only", parent |-> "none", search |-> "plain"]}
=============================================================================
