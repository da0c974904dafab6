----------------------------- MODULE ServicePlans -----------------------------
(***************************************************************************)
(* Service plans and their assignment to users: handlers/admin.rs and      *)
(* handlers/user_service_plan.rs of crates/backendapi.                     *)
(*                                                                         *)
(* Every handler is a sequence of single statements on the database with   *)
(* no transaction around them, so two requests interleave between any two, *)
(* a statement may fail, and the request's timeout may drop the handler in *)
(* between.  The database enforces the foreign key of an assignment to its *)
(* plan (ON DELETE RESTRICT); a unique index on the plan's name is not     *)
(* relied on, since only the migrations' own table has one.                *)
(*                                                                         *)
(* A request is used once; its name identifies the rows it made.           *)
(***************************************************************************)
EXTENDS Integers, FiniteSets

CONSTANTS PlanRequests, PlanIds, Names, Users

NoName == "none"
ASSUME NameAssumption == NoName \notin Names

VARIABLES plans,        \* service_plans: id -> name, NoName for an id not in the table
          assigns,      \* user_service_plans: rows [by, user, plan, active]
          hreq,         \* each request: operation, where it stands, what it read
          met,          \* history: the requests each request overlapped
          namers        \* history: the requests that changed a plan's name, its creator first

planVars == <<plans, assigns, hreq, met, namers>>

Before == "before"      \* whoever made what is there initially
NoReq == [op |-> "none", at |-> "new", id |-> "none", name |-> NoName, user |-> "none",
          seen |-> {}, reply |-> "none"]

\* Initially one plan may exist and be assigned.
PlanInit ==
    /\ \E p \in PlanIds, n \in Names \cup {NoName}, u \in Users, held \in BOOLEAN :
          /\ plans = [q \in PlanIds |-> IF q = p THEN n ELSE NoName]
          /\ namers = [q \in PlanIds |-> IF q = p /\ n # NoName THEN {Before} ELSE {}]
          /\ assigns = IF held /\ n # NoName
                       THEN {[by |-> Before, user |-> u, plan |-> p, active |-> TRUE]} ELSE {}
    /\ hreq = [r \in PlanRequests |-> NoReq]
    /\ met = [r \in PlanRequests |-> {}]

Exists(p) == plans[p] # NoName
Underway(r) == hreq[r].at \notin {"new", "replied"}
Active(u) == {a \in assigns : a.user = u /\ a.active}

Step(r, s) == hreq' = [hreq EXCEPT ![r].at = s]
\* Of a request that has replied, only an assignment is remembered, for the
\* properties.
Say(r, x) == hreq' = [hreq EXCEPT ![r] =
    LET over == [NoReq EXCEPT !.at = "replied", !.reply = x]
    IN IF hreq[r].op = "assign" THEN [over EXCEPT !.op = "assign", !.user = hreq[r].user]
       ELSE over]
Is(r, op, s) == hreq[r].op = op /\ hreq[r].at = s

\* A request starts: the token is checked, and the handler goes to its first statement.
Start(r, op, p, n, u) ==
    LET others == {s \in PlanRequests : Underway(s)} IN
    /\ hreq[r].at = "new"
    /\ hreq' = [hreq EXCEPT ![r] = [NoReq EXCEPT !.op = op, !.at = "find", !.id = p,
                                                 !.name = n, !.user = u]]
    /\ met' = [s \in PlanRequests |-> IF s = r THEN others
                                  ELSE IF s \in others THEN met[s] \cup {r} ELSE met[s]]
    /\ UNCHANGED <<plans, assigns, namers>>

Untouched == UNCHANGED <<plans, assigns, met, namers>>

-----------------------------------------------------------------------------
(* create_service_plan: is the name free?  Then insert under a new id.     *)

CreateFind(r) ==
    /\ Is(r, "create", "find")
    /\ IF \E p \in PlanIds : plans[p] = hreq[r].name THEN Say(r, "validation") ELSE Step(r, "write")
    /\ Untouched

CreateInsert(r, p) ==
    /\ Is(r, "create", "write")
    /\ namers[p] = {}
    /\ plans' = [plans EXCEPT ![p] = hreq[r].name]
    /\ namers' = [namers EXCEPT ![p] = {r}]
    /\ Say(r, "ok")
    /\ UNCHANGED <<assigns, met>>

-----------------------------------------------------------------------------
(* update_service_plan: NoName stands for an update without a name.        *)

\* A name that is not the plan's present one is looked up first.
NeedsCheckNever(r) == FALSE
NeedsCheck(r) == hreq[r].name \notin {NoName, plans[hreq[r].id]}
UpdateFind(r) ==
    /\ Is(r, "update", "find")
    /\ IF ~Exists(hreq[r].id) THEN Say(r, "not_found")
       ELSE Step(r, IF NeedsCheck(r) THEN "check" ELSE "write")
    /\ Untouched

UpdateCheck(r) ==
    /\ Is(r, "update", "check")
    /\ IF \E p \in PlanIds \ {hreq[r].id} : plans[p] = hreq[r].name
       THEN Say(r, "validation") ELSE Step(r, "write")
    /\ Untouched

\* Only the columns that were set are written; a row that is gone is an error.
UpdateWrite(r) ==
    LET p == hreq[r].id  n == hreq[r].name IN
    /\ Is(r, "update", "write")
    /\ IF ~Exists(p) THEN Say(r, "database") /\ UNCHANGED <<plans, namers>>
       ELSE /\ Say(r, "ok")
            /\ plans' = IF n = NoName THEN plans ELSE [plans EXCEPT ![p] = n]
            /\ namers' = IF n \in {NoName, plans[p]} THEN namers
                         ELSE [namers EXCEPT ![p] = @ \cup {r}]
    /\ UNCHANGED <<assigns, met>>

-----------------------------------------------------------------------------
(* delete_service_plan.                                                    *)

DeleteFind(r) ==
    /\ Is(r, "delete", "find")
    /\ IF Exists(hreq[r].id) THEN Step(r, "check") ELSE Say(r, "not_found")
    /\ Untouched

DeleteCheck(r) ==
    /\ Is(r, "delete", "check")
    /\ IF \E a \in assigns : a.plan = hreq[r].id /\ a.active
       THEN Say(r, "validation") ELSE Step(r, "write")
    /\ Untouched

\* The foreign key of user_service_plan: ON DELETE RESTRICT - ended assignments
\* hold the plan as well as active ones - where its neighbours say CASCADE.
ForeignKey(p) == [refused |-> \E a \in assigns : a.plan = p, rows |-> assigns]

DeletePlan(r) ==
    /\ Is(r, "delete", "write")
    /\ LET p == hreq[r].id  fk == ForeignKey(p) IN
       IF fk.refused THEN Say(r, "database") /\ UNCHANGED <<plans, assigns>>
       ELSE /\ Say(r, "ok")
            /\ plans' = [plans EXCEPT ![p] = NoName]
            /\ assigns' = fk.rows
    /\ UNCHANGED <<met, namers>>

-----------------------------------------------------------------------------
(* assign_service_plan_to_user: end what is active, then insert.           *)

AssignFind(r) ==
    /\ Is(r, "assign", "find")
    /\ IF Exists(hreq[r].id) THEN Step(r, "check") ELSE Say(r, "not_found")
    /\ Untouched

SeenOne(r) == {a \in Active(hreq[r].user) : a.plan = hreq[r].id}
Seen(r) == Active(hreq[r].user)
AssignRead(r) ==
    /\ Is(r, "assign", "check")
    /\ hreq' = [hreq EXCEPT ![r].at = "deactivate", ![r].seen = {a.by : a \in Seen(r)}]
    /\ Untouched

\* One UPDATE per assignment that was read.
Deactivate(r) ==
    /\ Is(r, "assign", "deactivate")
    /\ \E b \in hreq[r].seen :
          /\ assigns' = {IF a.by = b THEN [a EXCEPT !.active = FALSE] ELSE a : a \in assigns}
          /\ hreq' = [hreq EXCEPT ![r].seen = @ \ {b}]
    /\ UNCHANGED <<plans, met, namers>>

\* The INSERT; a plan that is gone by now fails the foreign key.
AssignInsert(r) ==
    /\ Is(r, "assign", "deactivate") /\ hreq[r].seen = {}
    /\ IF Exists(hreq[r].id)
       THEN /\ assigns' = assigns \cup
                   {[by |-> r, user |-> hreq[r].user, plan |-> hreq[r].id, active |-> TRUE]}
            /\ Say(r, "ok")
       ELSE Say(r, "database") /\ UNCHANGED assigns
    /\ UNCHANGED <<plans, met, namers>>

-----------------------------------------------------------------------------
(* The readers.                                                            *)

\* get_my_service_plan and get_my_service_plan_usage: some active assignment,
\* then the plan it names.
MyAssignment(r) ==
    /\ Is(r, "my", "find")
    /\ \/ Active(hreq[r].user) = {} /\ Say(r, "not_found")
       \/ \E a \in Active(hreq[r].user) :
             hreq' = [hreq EXCEPT ![r].at = "plan", ![r].id = a.plan]
    /\ Untouched

MyPlan(r) ==
    /\ Is(r, "my", "plan")
    /\ Say(r, IF Exists(hreq[r].id) THEN "ok" ELSE "plan_missing")
    /\ Untouched

\* request_service_plan_change: does the target exist, is it held already?
ChangeFind(r) ==
    /\ Is(r, "change", "find")
    /\ IF Exists(hreq[r].id) THEN Step(r, "check") ELSE Say(r, "not_found")
    /\ Untouched

ChangeCheck(r) ==
    /\ Is(r, "change", "check")
    /\ Say(r, IF \E a \in Active(hreq[r].user) : a.plan = hreq[r].id THEN "validation" ELSE "ok")
    /\ Untouched

\* get_available_service_plans: the current assignment, then the list.
AvailableAssignment(r) ==
    /\ Is(r, "available", "find")
    /\ hreq' = [hreq EXCEPT ![r].at = "list", ![r].seen = {a.plan : a \in Active(hreq[r].user)}]
    /\ Untouched

ListPlans(r) ==
    /\ Is(r, "available", "list")
    /\ Say(r, "ok")
    /\ Untouched

\* The administrator's list_service_plans and get_service_plan.
ListServicePlans(r) ==
    /\ Is(r, "list", "find")
    /\ Say(r, "ok")
    /\ Untouched

GetServicePlan(r) ==
    /\ Is(r, "get", "find")
    /\ Say(r, IF Exists(hreq[r].id) THEN "ok" ELSE "not_found")
    /\ Untouched

\* A statement fails, or the 30 seconds are over: the handler stops where it is.
Abort(r) ==
    /\ Underway(r)
    /\ Say(r, "aborted")
    /\ Untouched

PlanStop ==
    /\ \A r \in PlanRequests : hreq[r].at = "replied"
    /\ UNCHANGED planVars

PlanNext ==
    \/ \E r \in PlanRequests :
        \/ \E n \in Names : Start(r, "create", "none", n, "none")
        \/ \E p \in PlanIds, n \in Names \cup {NoName} : Start(r, "update", p, n, "none")
        \/ \E p \in PlanIds, op \in {"delete", "get"} : Start(r, op, p, NoName, "none")
        \/ Start(r, "list", "none", NoName, "none")
        \/ \E p \in PlanIds, u \in Users, op \in {"assign", "change"} : Start(r, op, p, NoName, u)
        \/ \E u \in Users, op \in {"my", "available"} : Start(r, op, "none", NoName, u)
        \/ CreateFind(r) \/ \E p \in PlanIds : CreateInsert(r, p)
        \/ UpdateFind(r) \/ UpdateCheck(r) \/ UpdateWrite(r)
        \/ DeleteFind(r) \/ DeleteCheck(r) \/ DeletePlan(r)
        \/ AssignFind(r) \/ AssignRead(r) \/ Deactivate(r) \/ AssignInsert(r)
        \/ MyAssignment(r) \/ MyPlan(r) \/ ChangeFind(r) \/ ChangeCheck(r)
        \/ AvailableAssignment(r) \/ ListPlans(r)
        \/ ListServicePlans(r) \/ GetServicePlan(r)
        \/ Abort(r)
    \/ PlanStop

PlanSpec == PlanInit /\ [][PlanNext]_planVars

-----------------------------------------------------------------------------
\* Two plans share a name only if two requests that named one of them overlapped:
\* the name checks of create and update, made one statement before the write, miss
\* nothing but a race.  (That the last namers of the two overlapped would be false:
\* after a race has left two plans with one name, an update that keeps the name of
\* its plan is not checked, and gives it back to a plan renamed in between.)
Raced(p, q) ==
    \E r \in PlanRequests : r \in namers[p] \cup namers[q]
                           /\ met[r] \cap (namers[p] \cup namers[q]) # {}
NamesOverlap ==
    \A p, q \in PlanIds : (p # q /\ Exists(p) /\ plans[p] = plans[q]) => Raced(p, q)

\* An assignment that overlapped no other one of its user leaves exactly one
\* active assignment, its own, however many earlier races left behind.
LoneAssignSingle ==
    [][\A r \in PlanRequests :
          (/\ Is(r, "assign", "deactivate") /\ hreq'[r].reply = "ok"
           /\ \A s \in met[r] : hreq[s].op = "assign" => hreq[s].user # hreq[r].user)
          => {a \in assigns' : a.user = hreq[r].user /\ a.active}
               = {[by |-> r, user |-> hreq[r].user, plan |-> hreq[r].id, active |-> TRUE]}]_planVars

\* A user with an active plan is never told that the plan does not exist: it
\* cannot be deleted between the two reads, nor before them.
MyPlanFound == \A r \in PlanRequests : hreq[r].reply # "plan_missing"
=============================================================================
