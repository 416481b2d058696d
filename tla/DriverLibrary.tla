--------------------------- MODULE DriverLibrary ---------------------------
(***************************************************************************)
(* The driver library of one planning model (governance.py, "Drivers and   *)
(* the planning model"): plan_driver rows, the calc_order_dag derived from *)
(* them, and the two ways people write either.                             *)
(*                                                                         *)
(* save_driver is one transaction at READ COMMITTED: it locks the model's  *)
(* row, reads the driver's row version, reads the library and validates    *)
(* the formula against it, then writes the row and the dag.  Each read is  *)
(* a step of its own, since each sees what has been committed by then.     *)
(* Until the commit nobody sees its writes.  The API always saves at the   *)
(* default effective date, the one the seed's drivers have, so a driver    *)
(* has one row; nothing sets a row RETIRED or deletes it.                  *)
(***************************************************************************)
EXTENDS Formula

CONSTANTS
  Users,
  Roles,           \* user |-> the roles user_role gives
  Codes,           \* driver codes people save
  Formulas,        \* formulas people type, as token sequences
  Libraries,       \* driver |-> formula maps sent to save_planning_model
  Seeded,          \* the seed's library, driver |-> formula
  MaxSaves,        \* bound: library writes explored
  NoUser, NoRow, NoVersion, NoRequest

KnownFormulas == Formulas \cup {Seeded[code] : code \in DOMAIN Seeded}
VersionNumbers == 0 .. MaxSaves
Rows == [formula : KnownFormulas, status : {"DRAFT", "ACTIVE"}, version : VersionNumbers]
Graphs == UNION {[drivers -> SUBSET (Codes \cup DOMAIN Metrics)] : drivers \in SUBSET Codes}
Requests ==
  [code : Codes, formula : Formulas, expected : VersionNumbers \cup {NoVersion},
   at : {"LOCKED", "CHECKED", "VALID"}, graph : Graphs \cup {<< >>}]

Saveable(parsed, drivers) == parsed.ok /\ Valid(parsed.node, drivers)

(* The seed's drivers are those src/tests/test_seed_model.py:20 to 42 puts *)
(* through the same validation: they parse, every name resolves, and no    *)
(* driver needs itself.                                                    *)
ASSUME LibraryAssumption ==
  /\ IsFiniteSet(Codes) /\ MaxSaves \in Nat
  /\ \A formula \in Formulas : IsFormula(formula)
  /\ \A formulas \in Libraries :
       DOMAIN formulas \subseteq Codes /\ \A code \in DOMAIN formulas : IsFormula(formulas[code])
  /\ NoUser \notin Users /\ NoVersion \notin VersionNumbers
  /\ NoRow \notin Rows /\ NoRequest \notin Requests

ASSUME SeedAssumption ==
  /\ DOMAIN Seeded \subseteq Codes
  /\ \A code \in DOMAIN Seeded :
       IsFormula(Seeded[code]) /\ Saveable(ParseFormula(Seeded[code]), DOMAIN Seeded)
  /\ ~DetectCycles(Graph(Seeded))

VARIABLES
  library,         \* code |-> its committed plan_driver row
  dag,             \* planning_model.calc_order_dag, driver |-> depends_on
  derived,         \* history: save_driver or the seed wrote dag last
  holder,          \* who holds the planning_model row FOR UPDATE
  request,         \* user |-> the save in flight
  seen,            \* user |-> the row versions of the last list_drivers
  saves            \* committed writes so far; the next row's xmin

vars == <<library, dag, derived, holder, request, seen, saves>>

Row(formula, status, version) == [formula |-> formula, status |-> status, version |-> version]

Saved == {code \in Codes : library[code] # NoRow}
SavedFormulas == [code \in Saved |-> library[code].formula]
Versions == [code \in Codes |-> IF code \in Saved THEN library[code].version ELSE NoVersion]

Init ==
  /\ library = [code \in Codes |->
                  IF code \in DOMAIN Seeded THEN Row(Seeded[code], "ACTIVE", 0) ELSE NoRow]
  /\ dag = Graph(Seeded)
  /\ derived = TRUE
  /\ holder = NoUser
  /\ request = [u \in Users |-> NoRequest]
  /\ seen = [u \in Users |-> [code \in Codes |-> NoVersion]]
  /\ saves = 0

(* GET /drivers, with each row's xmin.                                     *)
ListDrivers(u) ==
  /\ request[u] = NoRequest
  /\ seen' = [seen EXCEPT ![u] = Versions]
  /\ UNCHANGED <<library, dag, derived, holder, request, saves>>

(* POST /drivers.  The role is checked and the model's row is locked; a    *)
(* second save waits here.  The page sends the version it listed, or none. *)
LockModelNot(u, code, formula, expected) ==   \* mutant: SELECT without FOR UPDATE
  /\ request[u] = NoRequest
  /\ Roles[u] \cap {"controller", "planner"} # {}
  /\ saves < MaxSaves
  /\ request' = [request EXCEPT ![u] =
       [code |-> code, formula |-> formula, expected |-> expected, at |-> "LOCKED", graph |-> << >>]]
  /\ UNCHANGED <<library, dag, derived, holder, seen, saves>>

LockModel(u, code, formula, expected) ==
  /\ request[u] = NoRequest
  /\ Roles[u] \cap {"controller", "planner"} # {}
  /\ saves < MaxSaves
  /\ holder = NoUser
  /\ holder' = u
  /\ request' = [request EXCEPT ![u] =
       [code |-> code, formula |-> formula, expected |-> expected, at |-> "LOCKED", graph |-> << >>]]
  /\ UNCHANGED <<library, dag, derived, seen, saves>>

(* The version a save must bring: the row's, and none for a new driver.    *)
VersionAcceptedIfGiven(code, expected) ==   \* mutant: a save that brings none is let through
  expected # NoVersion => expected = Versions[code]

VersionAccepted(code, expected) == expected = Versions[code]

CheckVersion(u) ==
  /\ request[u] # NoRequest /\ request[u].at = "LOCKED"
  /\ VersionAccepted(request[u].code, request[u].expected)
  /\ request' = [request EXCEPT ![u].at = "CHECKED"]
  /\ UNCHANGED <<library, dag, derived, holder, seen, saves>>

(* parse_formula, validate_formula, detect_cycles over the library with    *)
(* the new formula in it, and the check that every name resolves.          *)
Extended(r) ==
  [code \in Saved \cup {r.code} |-> IF code = r.code THEN r.formula ELSE library[code].formula]

Sound(parsed, r, drivers) ==
  /\ Saveable(parsed, drivers)
  /\ ~DetectCycles(Graph(Extended(r)))
  /\ parsed.node.names \subseteq drivers \cup DOMAIN Metrics

Accepted(r) == Sound(ParseFormula(r.formula), r, Saved \cup {r.code})

Validate(u) ==
  /\ request[u] # NoRequest /\ request[u].at = "CHECKED"
  /\ Accepted(request[u])
  /\ request' = [request EXCEPT ![u].at = "VALID", ![u].graph = Graph(Extended(request[u]))]
  /\ UNCHANGED <<library, dag, derived, holder, seen, saves>>

(* The upsert leaves an existing row's status alone.  The dag is the one   *)
(* of the formulas the validation read.                                    *)
Release(u) ==
  /\ request' = [request EXCEPT ![u] = NoRequest]
  /\ holder' = IF holder = u THEN NoUser ELSE holder

CommitDriver(u) ==
  /\ request[u] # NoRequest /\ request[u].at = "VALID"
  /\ LET r == request[u]
         status == IF library[r.code] = NoRow THEN "DRAFT" ELSE library[r.code].status
     IN  /\ library' = [library EXCEPT ![r.code] = Row(r.formula, status, saves + 1)]
         /\ dag' = r.graph
  /\ derived' = TRUE
  /\ saves' = saves + 1
  /\ Release(u)
  /\ UNCHANGED seen

(* Refused, or the connection is lost: the transaction rolls back.         *)
RollBack(u) ==
  /\ request[u] # NoRequest
  /\ Release(u)
  /\ UNCHANGED <<library, dag, derived, seen, saves>>

(* PUT /planning-models: validated against the caller's own map, before    *)
(* the transaction; that takes no lock of its own, but its UPDATE waits    *)
(* for the row, and it never writes a driver.                              *)
SavePlanningModel(u, formulas) ==
  /\ \A code \in DOMAIN formulas : Saveable(ParseFormula(formulas[code]), DOMAIN formulas)
  /\ ~DetectCycles(Graph(formulas))
  /\ "controller" \in Roles[u]
  /\ request[u] = NoRequest
  /\ holder = NoUser
  /\ saves < MaxSaves
  /\ dag' = Graph(formulas)
  /\ derived' = FALSE
  /\ saves' = saves + 1
  /\ UNCHANGED <<library, holder, request, seen>>

Next ==
  \E u \in Users :
    \/ ListDrivers(u)
    \/ \E code \in Codes, formula \in Formulas :
         \E expected \in {seen[u][code], NoVersion} : LockModel(u, code, formula, expected)
    \/ CheckVersion(u)
    \/ Validate(u)
    \/ CommitDriver(u)
    \/ RollBack(u)
    \/ \E formulas \in Libraries : SavePlanningModel(u, formulas)

Spec == Init /\ [][Next]_vars

----------------------------------------------------------------------------

(* Rows, the dag and the requests have their shapes; only the holder of    *)
(* the model's row is past the lock.                                       *)
TypeOK ==
  /\ library \in [Codes -> Rows \cup {NoRow}]
  /\ dag \in Graphs
  /\ derived \in BOOLEAN /\ saves \in VersionNumbers
  /\ holder \in Users \cup {NoUser}
  /\ request \in [Users -> Requests \cup {NoRequest}]
  /\ seen \in [Users -> [Codes -> VersionNumbers \cup {NoVersion}]]
  /\ \A u \in Users : request[u] # NoRequest <=> holder = u

(* Whatever order people save in, the committed library makes sense: each  *)
(* formula parses, every name it reads is a driver of the library or a     *)
(* metric, no driver needs its own value of the same period, and the dag   *)
(* save_driver stored is the same-period edges of exactly these formulas.  *)
(* Names, edges and loops are taken off the tokens and the closure, not    *)
(* with the functions the code validates by.                               *)
LibrarySound ==
  LET edges == [code \in Saved |-> ReadNow(library[code].formula)]
  IN  /\ \A code \in Saved :
           /\ ParseFormula(library[code].formula).ok
           /\ edges[code] \subseteq Saved \cup DOMAIN Metrics
      /\ ~NeedsItself(edges)
      /\ derived => dag = edges

(* An edit replaces the row its author had listed, and a new driver none:  *)
(* what somebody else saved in between is never written over unread.       *)
EditsReplaceWhatWasRead ==
  [][\A u \in Users, code \in Codes :
       (request[u] # NoRequest /\ library'[code] # library[code] /\ request'[u] = NoRequest) =>
         (code = request[u].code => Versions[code] = seen[u][code])]_vars

(* What the dag would have to be whoever wrote it last; save_planning_model*)
(* keeps it from being so.                                                 *)
DagIsTheFormulas == dag = [code \in Saved |-> ReadNow(library[code].formula)]
=============================================================================
