------------------------------ MODULE UserRoles ------------------------------
(***************************************************************************)
(* Users, their roles and the trail of role changes: what every request    *)
(* does to the users table on its way in (auth.go), the write protection,  *)
(* PATCH /api/users/{email}/role and POST /api/bootstrap (user_handlers.go, *)
(* users.go).                                                              *)
(*                                                                         *)
(* Requests run concurrently and every statement is a transaction of its   *)
(* own.  An UPDATE that also selects is two steps: its snapshot, and the    *)
(* write to the latest version of its row; what it selected, the old role   *)
(* and the number of admins, is not selected again.                        *)
(***************************************************************************)
EXTENDS Naturals, Sequences, FiniteSets

CONSTANTS Requests,    \* requests that are handled at one time
          Emails,      \* users
          Identities,  \* whom the proxy reports: [email, sub, inAdmins]
          Operations,  \* what is asked: [kind, target, role]
          MaxRequests, \* bound: requests in all
          MaxFaults    \* bound: statements that fail and abandoned requests

Roles == {"reviewer", "writer", "admin"}
Kinds == {"get", "list", "write", "set_role", "bootstrap"}

ASSUME RolesAssumption ==
  /\ Identities # {} /\ Operations # {}
  /\ \A id \in Identities : id.email \in Emails /\ id.inAdmins \in BOOLEAN
  /\ \A op \in Operations :
       op.kind \in Kinds /\ op.target \in Emails /\ op.role \in Roles
  /\ MaxRequests \in Nat /\ MaxFaults \in Nat

VARIABLES users,    \* email -> [role, sub]; the role "none" when there is no row
          trail,    \* email -> its role_changes [old, new], oldest first
          pc,       \* request -> its next statement, or its answer
          arg,      \* request -> [id, op]
          seen,     \* request -> what its role statement selected
          arrived,  \* requests so far
          faults,   \* faults so far
          credit,   \* ghost: request -> what spoke for it since it arrived
          blurred   \* ghost: users whose changes overlapped or were not recorded

vars == <<users, trail, pc, arg, seen, arrived, faults, credit, blurred>>
tables == <<users, trail>>
bounds == <<arrived, faults>>

Answers == {"idle", "served", "done", "forbidden", "not_found", "conflict", "error", "gone"}
Steps == {"upsert", "guard", "check", "read", "write", "trail", "count",
          "seed_read", "seed_write", "seed_trail"}

NoRow == [role |-> "none", sub |-> "none"]
NoRequest == CHOOSE a \in [id : Identities, op : Operations] : TRUE
Nothing == [old |-> "none", vacant |-> FALSE]
Registered(e) == users[e] # NoRow
Vacant(table) == \A e \in Emails : table[e].role # "admin"

Caller(r) == arg[r].id.email
Op(r) == arg[r].op

\* An answered request is forgotten but for its answer.
Goto(r, step) ==
  /\ pc' = [pc EXCEPT ![r] = step]
  /\ arg' = IF step \in Answers THEN [arg EXCEPT ![r] = NoRequest] ELSE arg
  /\ seen' = IF step \in Answers THEN [seen EXCEPT ![r] = Nothing] ELSE seen

\* Roles are changed by a promotion on the way in (seeding) or by the handler.
Seeding(r) == pc[r] \in {"seed_read", "seed_write", "seed_trail"}
Promoting(r) == Seeding(r) \/ Op(r).kind = "bootstrap"
Target(r) == IF Promoting(r) THEN Caller(r) ELSE Op(r).target

RolesInit ==
  /\ users = [e \in Emails |-> NoRow]
  /\ trail = [e \in Emails |-> << >>]
  /\ pc = [r \in Requests |-> "idle"]
  /\ arg = [r \in Requests |-> NoRequest]
  /\ seen = [r \in Requests |-> Nothing]
  /\ arrived = 0 /\ faults = 0
  /\ credit = [r \in Requests |-> {}]
  /\ blurred = {}

-------------------------------------------------------------------------------
\* Ghosts.  For a request speak the roles that its caller has had since it
\* arrived, and "vacancy" once there was a moment without an admin.
Speaking(e, table) == {table[e].role} \cup (IF Vacant(table) THEN {"vacancy"} ELSE {})

Credit ==
  credit' = [r \in Requests |-> IF pc'[r] \in Answers THEN {}
                                ELSE credit[r] \cup Speaking(arg'[r].id.email, users')]

\* The role of e is written while another change of it is on its way from its
\* snapshot to its record.
Blur(r, e) ==
  LET overlaps == \E q \in Requests \ {r} :
                    pc[q] \in {"seed_write", "seed_trail", "write", "trail"} /\ Target(q) = e
  IN  blurred' = blurred \cup (IF overlaps THEN {e} ELSE {})

-------------------------------------------------------------------------------
\* Middleware: what a request does before its handler.

Arrive(r) ==
  /\ pc[r] \in Answers
  /\ arrived < MaxRequests /\ arrived' = arrived + 1
  /\ \E id \in Identities, op \in Operations : arg' = [arg EXCEPT ![r] = [id |-> id, op |-> op]]
  /\ pc' = [pc EXCEPT ![r] = "upsert"]
  /\ UNCHANGED <<tables, seen, faults, blurred>>

\* After ensureUser.  GET requests and POST /api/bootstrap are not protected.
Admitted(r) ==
  CASE Op(r).kind = "get" -> "served"
    [] Op(r).kind = "list" -> "check"
    [] Op(r).kind = "bootstrap" -> "read"
    [] OTHER -> "guard"

\* Mutated form: ON CONFLICT sets the role as well.
UpsertWithRole(e, sub) ==
  IF \E f \in Emails \ {e} : users[f].sub = sub THEN UNCHANGED users
  ELSE users' = [users EXCEPT ![e] = [role |-> "reviewer", sub |-> sub]]

\* Mutated form: there is no unique index.
UpsertUnindexed(e, sub) ==
  users' = [users EXCEPT ![e] = [role |-> IF Registered(e) THEN @.role ELSE "reviewer",
                                 sub |-> sub]]

\* A new row has the default role, an old one keeps its role.  The unique index
\* on (sub, issuer), with one issuer, refuses the sub of another row.
Upsert(e, sub) ==
  IF \E f \in Emails \ {e} : users[f].sub = sub THEN UNCHANGED users
  ELSE users' = [users EXCEPT ![e] = [role |-> IF Registered(e) THEN @.role ELSE "reviewer",
                                      sub |-> sub]]

\* ensureUser: an error is logged and the request goes on, without a promotion.
EnsureUser(r) ==
  LET id == arg[r].id IN
  /\ pc[r] = "upsert"
  /\ Upsert(id.email, id.sub)
  /\ Goto(r, IF id.inAdmins /\ users'[id.email].sub = id.sub THEN "seed_read" ELSE Admitted(r))
  /\ UNCHANGED <<trail, bounds, blurred>>

\* Mutated form: whoever has a row may write.
RequireRow(r) ==
  /\ pc[r] = "guard"
  /\ Goto(r, IF ~Registered(Caller(r)) THEN "forbidden"
             ELSE IF Op(r).kind = "write" THEN "served" ELSE "check")
  /\ UNCHANGED <<tables, bounds, blurred>>

\* Requests other than GET need a writer, those under /api/users an admin.
RequireWrite(r) ==
  LET role == users[Caller(r)].role IN
  /\ pc[r] = "guard"
  /\ Goto(r, IF ~(role = "admin" \/ (role = "writer" /\ Op(r).kind = "write")) THEN "forbidden"
             ELSE IF Op(r).kind = "write" THEN "served" ELSE "check")
  /\ UNCHANGED <<tables, bounds, blurred>>

\* The handlers under /api/users and /api/role-changes read the role themselves.
CheckAdmin(r) ==
  /\ pc[r] = "check"
  /\ Goto(r, IF users[Caller(r)].role # "admin" THEN "forbidden"
             ELSE IF Op(r).kind = "list" THEN "served" ELSE "read")
  /\ UNCHANGED <<tables, bounds, blurred>>

-------------------------------------------------------------------------------
\* The role statements and the record of the change.

\* The snapshot of either statement: the target's role and whether it has a row,
\* and, for a promotion, the number of admins.
Select(r) ==
  /\ pc[r] \in {"read", "seed_read"}
  /\ seen' = [seen EXCEPT ![r] = [old |-> users[Target(r)].role, vacant |-> Vacant(users)]]
  /\ pc' = [pc EXCEPT ![r] = IF Seeding(r) THEN "seed_write" ELSE "write"]
  /\ UNCHANGED <<tables, arg, bounds, blurred>>

Give(r, role) ==
  /\ users' = [users EXCEPT ![Target(r)].role = role]
  /\ Blur(r, Target(r))

\* SetRole; the handler records a change when the old role was another one.
SetRole(r) ==
  /\ pc[r] = "write" /\ ~Promoting(r)
  /\ IF seen[r].old = "none"
     THEN Goto(r, "not_found") /\ UNCHANGED <<users, blurred>>
     ELSE /\ Give(r, Op(r).role)
          /\ Goto(r, IF seen[r].old # Op(r).role THEN "trail" ELSE "done")
  /\ UNCHANGED <<trail, bounds>>

\* WHERE guard.cnt = 0 AND users.email = $1
Promotable(r) == seen[r].old # "none" /\ seen[r].vacant

\* BootstrapAdmin.  When no row was updated it counts the admins to tell its
\* caller why, which the caller on the way in does not care about.
BootstrapAdmin(r) ==
  /\ pc[r] \in {"write", "seed_write"} /\ Promoting(r)
  /\ IF Promotable(r)
     THEN Give(r, "admin") /\ Goto(r, IF Seeding(r) THEN "seed_trail" ELSE "trail")
     ELSE /\ Goto(r, IF Seeding(r) THEN Admitted(r) ELSE "count")
          /\ UNCHANGED <<users, blurred>>
  /\ UNCHANGED <<trail, bounds>>

CountAdmins(r) ==
  /\ pc[r] = "count"
  /\ Goto(r, IF Vacant(users) THEN "error" ELSE "conflict")
  /\ UNCHANGED <<tables, bounds, blurred>>

\* Mutated form: the record takes the row's role for the old one.
RecordCurrent(r) ==
  LET old == users[Target(r)].role
      new == IF Promoting(r) THEN "admin" ELSE Op(r).role
  IN trail' = [trail EXCEPT ![Target(r)] = Append(@, [old |-> old, new |-> new])]

Record(r) ==
  LET new == IF Promoting(r) THEN "admin" ELSE Op(r).role
  IN  trail' = [trail EXCEPT ![Target(r)] = Append(@, [old |-> seen[r].old, new |-> new])]

InsertRoleChange(r) ==
  /\ pc[r] \in {"trail", "seed_trail"}
  /\ Record(r)
  /\ Goto(r, IF Seeding(r) THEN Admitted(r) ELSE "done")
  /\ UNCHANGED <<users, bounds, blurred>>

-------------------------------------------------------------------------------
\* What a failed statement is taken for: a caller without a role, a user that
\* does not exist, a record that is not missed.
AfterFault(r) ==
  CASE pc[r] \in {"upsert", "seed_read", "seed_write", "seed_trail"} -> Admitted(r)
    [] pc[r] \in {"guard", "check"} -> "forbidden"
    [] pc[r] = "trail" -> "done"
    [] pc[r] \in {"read", "write"} /\ ~Promoting(r) -> "not_found"
    [] OTHER -> "error"

\* A statement fails, or the gateway dies.  A write may have been committed when
\* its answer was lost.
Fail(r) ==
  /\ pc[r] \in Steps
  /\ faults < MaxFaults /\ faults' = faults + 1
  /\ \/ /\ UNCHANGED tables
        /\ blurred' = IF pc[r] \in {"trail", "seed_trail"} THEN blurred \cup {Target(r)} ELSE blurred
     \/ pc[r] = "upsert" /\ Upsert(Caller(r), arg[r].id.sub) /\ UNCHANGED <<trail, blurred>>
     \/ /\ IF Promoting(r) THEN Promotable(r) ELSE seen[r].old # "none"
        /\ pc[r] \in {"write", "seed_write"}
        /\ users' = [users EXCEPT ![Target(r)].role = IF Promoting(r) THEN "admin" ELSE Op(r).role]
        /\ blurred' = blurred \cup {Target(r)}
        /\ UNCHANGED trail
     \/ pc[r] \in {"trail", "seed_trail"} /\ Record(r) /\ UNCHANGED <<users, blurred>>
  /\ \E step \in {AfterFault(r), "gone"} : Goto(r, step)
  /\ UNCHANGED arrived

-------------------------------------------------------------------------------
Handle(r) ==
  \/ Arrive(r) \/ EnsureUser(r) \/ RequireWrite(r) \/ CheckAdmin(r)
  \/ Select(r) \/ SetRole(r) \/ BootstrapAdmin(r) \/ CountAdmins(r) \/ InsertRoleChange(r)
  \/ Fail(r)

RolesNext == \E r \in Requests : Handle(r) /\ Credit

RolesSpec == RolesInit /\ [][RolesNext]_vars

-------------------------------------------------------------------------------
\* Properties.

RolesTypeOK ==
  /\ users \in [Emails -> [role : Roles, sub : {id.sub : id \in Identities}] \cup {NoRow}]
  /\ \A e \in Emails : \A i \in DOMAIN trail[e] : trail[e][i] \in [old : Roles, new : Roles]
  /\ pc \in [Requests -> Answers \cup Steps]
  /\ arg \in [Requests -> [id : Identities, op : Operations]]
  /\ seen \in [Requests -> [old : Roles \cup {"none"}, vacant : BOOLEAN]]
  /\ arrived \in 0..MaxRequests /\ faults \in 0..MaxFaults
  /\ credit \in [Requests -> SUBSET (Roles \cup {"none", "vacancy"})]
  /\ blurred \subseteq Emails

\* Types; no two users have one sub, so GetUserBySub has one answer
\* (001_users.sql:13); and a record on its way is of a user that has a row and
\* whose role its statement really changed.
RolesInv ==
  /\ RolesTypeOK
  /\ \A e, f \in Emails : Registered(e) /\ users[e].sub = users[f].sub => e = f
  /\ \A r \in Requests : pc[r] \in {"trail", "seed_trail"} =>
       Registered(Target(r)) /\ seen[r].old \in Roles
  /\ \A e \in Emails : \A i \in DOMAIN trail[e] : trail[e][i].old # trail[e][i].new

\* The audit trail (user_handlers.go:79-87, auth.go:228): as long as the changes
\* of a user were made one after the other and none went unrecorded, each entry
\* starts where the one before it ended, the first at the default role, and the
\* last one is the user's role.
TrailExplainsRoles ==
  \A e \in Emails \ blurred :
    LET history == trail[e]
        After(i) == IF i = 0 THEN "reviewer" ELSE history[i].new
        pending == \E r \in Requests : pc[r] \in {"trail", "seed_trail"} /\ Target(r) = e
    IN  /\ \A i \in DOMAIN history : history[i].old = After(i - 1)
        /\ Registered(e) /\ ~pending => users[e].role = After(Len(history))

\* Whoever is served had the right to it at some moment since the request
\* arrived, whatever roles were changed meanwhile: a caller that is a reviewer
\* all along writes nothing, and one whose row was refused is nobody
\* (auth.go:147-160, user_handlers.go:34-38,52-54).
ServedMeansEntitled ==
  [][\A r \in Requests :
       pc[r] \in Steps /\ pc'[r] \in {"served", "done"} =>
         CASE Op(r).kind = "get" -> TRUE
           [] Op(r).kind = "write" -> credit[r] \cap {"writer", "admin"} # {}
           [] Op(r).kind = "bootstrap" -> "vacancy" \in credit[r]
           [] OTHER -> "admin" \in credit[r]]_vars

\* A role changes by nothing but the role statement of a request that was
\* entitled to it: somebody who was an admin since the request arrived, or, for a
\* promotion of oneself, a moment without an admin.  Logging in never does, and
\* the last admin goes only by a decision of an admin.
ChangesAreDecided ==
  [][\A e \in Emails : users'[e].role # users[e].role =>
       \/ ~Registered(e) /\ users'[e].role = "reviewer"
       \/ \E r \in Requests :
            /\ pc[r] \in {"write", "seed_write"} /\ pc'[r] # pc[r] /\ Target(r) = e
            /\ IF Promoting(r) THEN users'[e].role = "admin" /\ "vacancy" \in credit[r]
               ELSE users'[e].role = Op(r).role /\ "admin" \in credit[r]]_vars

\* users.go:131-133, "atomically promotes email to admin if and only if no admin
\* exists ... eliminating the TOCTOU race": at the step that promotes, there is
\* no admin.
PromotionFindsNoAdmin ==
  [][\A r \in Requests :
       /\ pc[r] \in {"write", "seed_write"} /\ pc'[r] # pc[r]
       /\ Promoting(r) /\ users'[Caller(r)].role # users[Caller(r)].role
       => Vacant(users)]_vars

===============================================================================
