---------------------------- MODULE UserRolesProofs ----------------------------
(***************************************************************************)
(* Proofs about UserRoles, for any users, identities, operations and       *)
(* bounds, and any number of requests.                                     *)
(***************************************************************************)
EXTENDS UserRoles, SequenceTheorems, TLAPS

\* What a request asks for, what it has selected, and what its change gives.
Kind(r) == Op(r).kind
Old(r) == seen[r].old
SawVacant(r) == seen[r].vacant
New(r) == IF Promoting(r) THEN "admin" ELSE Op(r).role

\* At its role statement, after it, and at neither.
Writing(r) == pc[r] \in {"write", "seed_write"}
Pending(r) == pc[r] \in {"trail", "seed_trail"}
Off(r) == ~Writing(r) /\ ~Pending(r)

\* Which kinds of operations come to which statement.
OnWay(kind, step) ==
  /\ step = "guard" => kind \in {"write", "set_role"}
  /\ step = "check" => kind \in {"list", "set_role"}
  /\ step \in {"read", "write", "trail"} => kind \in {"set_role", "bootstrap"}
  /\ step = "count" => kind = "bootstrap"

\* What has to speak for a request that comes to a statement, or to its answer.
Backed(kind, step, spoken) ==
  /\ step \in {"read", "write", "trail"} /\ kind = "set_role" => "admin" \in spoken
  /\ step = "trail" /\ kind = "bootstrap" => "vacancy" \in spoken
  /\ step \in {"served", "done"} =>
       CASE kind = "get" -> TRUE
         [] kind = "write" -> spoken \cap {"writer", "admin"} # {}
         [] kind = "bootstrap" -> "vacancy" \in spoken
         [] OTHER -> "admin" \in spoken

Way(r) == Kind(r) \in Kinds /\ OnWay(Kind(r), pc[r])

\* What speaks for a request is up to date, and includes what it relies on.
Entitled(r) ==
  /\ users[Caller(r)].role \in credit[r] /\ (Vacant(users) => "vacancy" \in credit[r])
  /\ Backed(Kind(r), pc[r], credit[r])
  /\ Writing(r) /\ SawVacant(r) => "vacancy" \in credit[r]

\* What was selected says that the target has a row, and the change that is
\* recorded is one.
Selected(r) ==
  /\ Writing(r) => (Old(r) # "none" => Registered(Target(r))) /\ (SawVacant(r) => Old(r) # "admin")
  /\ Pending(r) => Registered(Target(r)) /\ Old(r) \in Roles /\ Old(r) # New(r)

Active(r) == pc[r] \notin Answers

-------------------------------------------------------------------------------
\* How requests move.

Same(r) == pc'[r] = pc[r] /\ arg'[r] = arg[r] /\ seen'[r] = seen[r]

Functions ==
  /\ pc = [r \in Requests |-> pc[r]] /\ arg = [r \in Requests |-> arg[r]]
  /\ seen = [r \in Requests |-> seen[r]]

LEMMA GotoMoves ==
  ASSUME Functions, NEW r \in Requests, NEW step, Goto(r, step)
  PROVE  /\ pc'[r] = step /\ (step \notin Answers => arg'[r] = arg[r] /\ seen'[r] = seen[r])
         /\ \A q \in Requests \ {r} : Same(q)
BY DEF Functions, Goto, Same

\* What is asked and selected depends on the request's own state.
LEMMA SameMeans ==
  ASSUME NEW r \in Requests, Same(r)
  PROVE  /\ pc'[r] = pc[r] /\ Kind(r)' = Kind(r) /\ Old(r)' = Old(r) /\ SawVacant(r)' = SawVacant(r)
         /\ Target(r)' = Target(r) /\ New(r)' = New(r) /\ Caller(r)' = Caller(r)
         /\ (Writing(r) <=> Writing(r)') /\ (Pending(r) <=> Pending(r)')
BY DEF Same, Kind, Old, SawVacant, Target, New, Caller, Op, Promoting, Seeding, Writing, Pending

LEMMA AdmittedWay ==
  ASSUME NEW r \in Requests, Kind(r) \in Kinds
  PROVE  /\ Admitted(r) \in {"served", "check", "read", "guard"}
         /\ OnWay(Kind(r), Admitted(r)) /\ \A spoken : Backed(Kind(r), Admitted(r), spoken)
BY DEF Kind, Kinds, Admitted, OnWay, Backed

\* A statement other than the first and the snapshot: where it leads to.
LEMMA Flow ==
  ASSUME NEW r \in Requests, Handle(r), ~Arrive(r), ~Select(r),
         Active(r) => Way(r) /\ Entitled(r)
  PROVE  /\ pc[r] \in Steps
         /\ \E step \in Steps \cup Answers :
              /\ Goto(r, step) /\ step \notin {"write", "seed_write", "upsert"}
              /\ OnWay(Kind(r), step) /\ Backed(Kind(r), step, credit[r])
<1> DEFINE Leads == \E step \in Steps \cup Answers :
              /\ Goto(r, step) /\ step \notin {"write", "seed_write", "upsert"}
              /\ OnWay(Kind(r), step) /\ Backed(Kind(r), step, credit[r])
<1> DEFINE Free == {"seed_read", "seed_trail", "count", "forbidden", "not_found", "conflict", "error", "gone"}
<1>1. ASSUME NEW step \in Free, Goto(r, step), step = "count" => Kind(r) = "bootstrap"
      PROVE  Leads
  BY <1>1 DEF OnWay, Backed, Steps, Answers
<1>2. ASSUME Goto(r, Admitted(r)), Kind(r) \in Kinds PROVE Leads
  BY <1>2, AdmittedWay DEF Steps, Answers
<1>3. pc[r] \in Steps => Way(r) /\ Entitled(r)
  BY DEF Active, Steps, Answers
<1>4. ASSUME EnsureUser(r) PROVE pc[r] \in Steps /\ Leads
  <2>1. pc[r] = "upsert" /\ (Goto(r, "seed_read") \/ Goto(r, Admitted(r)))
    BY <1>4 DEF EnsureUser
  <2>2. pc[r] \in Steps
    BY <2>1 DEF Steps
  <2> QED
    BY <2>1, <2>2, <1>1, <1>2, <1>3 DEF Way
<1>5. ASSUME RequireWrite(r) PROVE pc[r] \in Steps /\ Leads
  <2>1. /\ pc[r] = "guard"
        /\ \/ Goto(r, "forbidden")
           \/ Goto(r, "served") /\ Kind(r) = "write" /\ users[Caller(r)].role \in {"admin", "writer"}
           \/ Goto(r, "check") /\ Kind(r) # "write"
    BY <1>5 DEF RequireWrite, Kind
  <2>2. pc[r] \in Steps
    BY <2>1 DEF Steps
  <2>3. OnWay(Kind(r), "guard") /\ users[Caller(r)].role \in credit[r]
    BY <2>1, <2>2, <1>3 DEF Way, Entitled
  <2>4. ASSUME Goto(r, "served"), Kind(r) = "write", users[Caller(r)].role \in {"admin", "writer"} PROVE Leads
    BY <2>3, <2>4 DEF OnWay, Backed, Answers
  <2>5. ASSUME Goto(r, "check"), Kind(r) # "write" PROVE Leads
    BY <2>3, <2>5 DEF OnWay, Backed, Steps
  <2> QED
    BY <2>1, <2>2, <2>4, <2>5, <1>1
<1>6. ASSUME CheckAdmin(r) PROVE pc[r] \in Steps /\ Leads
  <2>1. /\ pc[r] = "check"
        /\ \/ Goto(r, "forbidden")
           \/ Goto(r, "served") /\ Kind(r) = "list" /\ users[Caller(r)].role = "admin"
           \/ Goto(r, "read") /\ Kind(r) # "list" /\ users[Caller(r)].role = "admin"
    BY <1>6 DEF CheckAdmin, Kind
  <2>2. pc[r] \in Steps
    BY <2>1 DEF Steps
  <2>3. OnWay(Kind(r), "check") /\ users[Caller(r)].role \in credit[r]
    BY <2>1, <2>2, <1>3 DEF Way, Entitled
  <2>4. ASSUME Goto(r, "served"), Kind(r) = "list", users[Caller(r)].role = "admin" PROVE Leads
    BY <2>3, <2>4 DEF OnWay, Backed, Answers
  <2>5. ASSUME Goto(r, "read"), Kind(r) # "list", users[Caller(r)].role = "admin" PROVE Leads
    BY <2>3, <2>5 DEF OnWay, Backed, Steps
  <2> QED
    BY <2>1, <2>2, <2>4, <2>5, <1>1
<1>7. ASSUME SetRole(r) PROVE pc[r] \in Steps /\ Leads
  <2>1. pc[r] = "write" /\ ~Promoting(r) /\ (Goto(r, "not_found") \/ Goto(r, "trail") \/ Goto(r, "done"))
    BY <1>7 DEF SetRole
  <2>2. pc[r] \in Steps
    BY <2>1 DEF Steps
  <2>3. Kind(r) = "set_role" /\ "admin" \in credit[r]
    BY <2>1, <2>2, <1>3 DEF Way, OnWay, Entitled, Backed, Promoting, Kind
  <2>4. ASSUME Goto(r, "trail") \/ Goto(r, "done") PROVE Leads
    BY <2>3, <2>4 DEF OnWay, Backed, Steps, Answers
  <2> QED
    BY <2>1, <2>2, <2>4, <1>1
<1>8. ASSUME BootstrapAdmin(r) PROVE pc[r] \in Steps /\ Leads
  <2>1. pc[r] \in {"write", "seed_write"} /\ Promoting(r)
    BY <1>8 DEF BootstrapAdmin
  <2>2. pc[r] \in Steps
    BY <2>1 DEF Steps
  <2>3. CASE Seeding(r)
    BY <1>8, <2>2, <2>3, <1>1, <1>2, <1>3 DEF BootstrapAdmin, Way
  <2>4. CASE ~Seeding(r)
    <3>1. Kind(r) = "bootstrap" /\ ((Goto(r, "trail") /\ SawVacant(r)) \/ Goto(r, "count"))
      BY <1>8, <2>1, <2>4 DEF BootstrapAdmin, Promoting, Kind, Promotable, SawVacant
    <3>2. SawVacant(r) => "vacancy" \in credit[r]
      BY <2>1, <2>2, <1>3 DEF Entitled, Writing
    <3>3. ASSUME Goto(r, "trail"), SawVacant(r) PROVE Leads
      BY <3>1, <3>2, <3>3 DEF OnWay, Backed, Steps
    <3> QED
      BY <3>1, <3>3, <2>2, <1>1
  <2> QED
    BY <2>3, <2>4
<1>9. ASSUME CountAdmins(r) PROVE pc[r] \in Steps /\ Leads
  <2>1. pc[r] = "count" /\ (Goto(r, "error") \/ Goto(r, "conflict"))
    BY <1>9 DEF CountAdmins
  <2> QED
    BY <2>1, <1>1 DEF Steps
<1>10. ASSUME pc[r] = "trail" PROVE \A step \in {"done"} : OnWay(Kind(r), step) /\ Backed(Kind(r), step, credit[r])
  BY <1>3, <1>10 DEF Way, Entitled, OnWay, Backed, Steps, Kinds
<1>11. ASSUME InsertRoleChange(r) PROVE pc[r] \in Steps /\ Leads
  <2>1. \/ pc[r] = "seed_trail" /\ Goto(r, Admitted(r))
        \/ pc[r] = "trail" /\ Goto(r, "done")
    BY <1>11 DEF InsertRoleChange, Seeding
  <2>2. pc[r] \in Steps
    BY <2>1 DEF Steps
  <2> QED
    BY <2>1, <2>2, <1>2, <1>3, <1>10 DEF Way, Answers
<1>12. ASSUME Fail(r) PROVE pc[r] \in Steps /\ Leads
  <2>1. pc[r] \in Steps /\ (Goto(r, AfterFault(r)) \/ Goto(r, "gone"))
    BY <1>12 DEF Fail
  <2>2. \/ AfterFault(r) \in {"forbidden", "not_found", "error"} \/ AfterFault(r) = Admitted(r)
        \/ AfterFault(r) = "done" /\ pc[r] = "trail"
    BY DEF AfterFault
  <2> QED
    BY <2>1, <2>2, <1>1, <1>2, <1>3, <1>10 DEF Way, Answers
<1> QED
  BY <1>4, <1>5, <1>6, <1>7, <1>8, <1>9, <1>11, <1>12 DEF Handle

-------------------------------------------------------------------------------
\* The users table.

Subs == {id.sub : id \in Identities}

RowsOK ==
  /\ users \in [Emails -> [role : Roles, sub : Subs] \cup {NoRow}]
  /\ \A e, f \in Emails : Registered(e) /\ users[e].sub = users[f].sub => e = f

\* Registered, or given a role: nothing else happens to a row.
Entered(e) ==
  \/ users' = users
  \/ /\ \A f \in Emails \ {e} : users'[f] = users[f]
     /\ users'[e] # NoRow /\ users'[e].role = IF Registered(e) THEN users[e].role ELSE "reviewer"

Given(e, role) ==
  /\ \A f \in Emails \ {e} : users'[f] = users[f]
  /\ users'[e] # NoRow /\ users'[e].role = role

LEMMA RowFields ==
  ASSUME NEW row \in [role : Roles, sub : Subs] \cup {NoRow}
  PROVE  /\ row.role \in Roles \cup {"none"}
         /\ row # NoRow => row \in [role : Roles, sub : Subs] /\ row.role \in Roles /\ row.sub \in Subs
         /\ row = NoRow <=> row.role = "none"
BY DEF NoRow, Roles

LEMMA UpsertEffect ==
  ASSUME RowsOK, NEW id \in Identities, id.email \in Emails, Upsert(id.email, id.sub)
  PROVE  RowsOK' /\ Entered(id.email)
<1> DEFINE e == id.email
<1> DEFINE sub == id.sub
<1> DEFINE row == [role |-> IF Registered(e) THEN users[e].role ELSE "reviewer", sub |-> sub]
<1>1. CASE users' = users
  BY <1>1 DEF RowsOK, Entered, Registered
<1>2. CASE (\A f \in Emails \ {e} : users[f].sub # sub) /\ users' = [users EXCEPT ![e] = row]
  <2>1. sub \in Subs /\ e \in Emails
    BY DEF Subs
  <2>2. Registered(e) => users[e].role \in Roles
    BY <2>1, RowFields DEF RowsOK, Registered
  <2>3. row \in [role : Roles, sub : Subs] /\ row.sub = sub
    BY <2>1, <2>2 DEF Roles
  <2>4. row # NoRow
    BY <2>3, RowFields DEF NoRow, Roles
  <2>5. row.role = IF Registered(e) THEN users[e].role ELSE "reviewer"
    OBVIOUS
  <2> HIDE DEF row, sub, e
  <2>6. users'[e] = row /\ \A f \in Emails \ {e} : users'[f] = users[f]
    BY <1>2, <2>1 DEF RowsOK
  <2>7. users' \in [Emails -> [role : Roles, sub : Subs] \cup {NoRow}]
    BY <1>2, <2>1, <2>3 DEF RowsOK
  <2>8. \A c, f \in Emails : users'[c] # NoRow /\ users'[c].sub = users'[f].sub => c = f
    BY <1>2, <2>1, <2>3, <2>6 DEF RowsOK, Registered
  <2>9. Entered(e)
    BY <2>4, <2>5, <2>6 DEF Entered, Registered
  <2> QED
    BY <2>7, <2>8, <2>9 DEF RowsOK, Registered, e
<1> QED
  BY <1>1, <1>2 DEF Upsert

LEMMA GiveEffect ==
  ASSUME RowsOK, NEW e \in Emails, Registered(e), NEW role \in Roles,
         users' = [users EXCEPT ![e].role = role]
  PROVE  RowsOK' /\ Given(e, role)
<1> DEFINE row == [users[e] EXCEPT !.role = role]
<1>1. users[e] \in [role : Roles, sub : Subs]
  BY RowFields DEF RowsOK, Registered
<1>2. row \in [role : Roles, sub : Subs] /\ row.role = role /\ row.sub = users[e].sub
  BY <1>1
<1>3. row # NoRow
  BY <1>2 DEF NoRow, Roles
<1>4. users' = [users EXCEPT ![e] = row]
  OBVIOUS
<1> HIDE DEF row
<1>5. users'[e] = row /\ \A f \in Emails \ {e} : users'[f] = users[f]
  BY <1>4 DEF RowsOK
<1>6. users' \in [Emails -> [role : Roles, sub : Subs] \cup {NoRow}]
  BY <1>2, <1>4 DEF RowsOK
<1>7. \A c, f \in Emails : users'[c] # NoRow /\ users'[c].sub = users'[f].sub => c = f
  BY <1>2, <1>5 DEF RowsOK, Registered
<1>8. Given(e, role)
  BY <1>2, <1>3, <1>5 DEF Given, Registered
<1> QED
  BY <1>6, <1>7, <1>8 DEF RowsOK, Registered

-------------------------------------------------------------------------------
\* The steps, by what they do to a user and to the trail.

Rests(r) ==
  ~Pending(r) /\ Off(r)' /\ UNCHANGED <<users, trail>> /\ blurred \subseteq blurred'

Enters(r) ==
  ~Pending(r) /\ Off(r)' /\ Entered(Caller(r)) /\ UNCHANGED trail /\ blurred \subseteq blurred'

Selects(r) ==
  /\ Off(r) /\ Writing(r)' /\ Target(r)' = Target(r)
  /\ Old(r)' = users[Target(r)].role /\ SawVacant(r)' = Vacant(users)
  /\ UNCHANGED <<users, trail, blurred>>

\* A change that overlaps with none, or of a user that is blurred from then on.
Gives(r) ==
  /\ Writing(r) /\ Old(r) # "none" /\ (Promoting(r) => SawVacant(r))
  /\ Given(Target(r), New(r)) /\ UNCHANGED trail
  /\ blurred \subseteq blurred'
  /\ \/ Target(r) \in blurred'
     \/ \A q \in Requests \ {r} : Writing(q) \/ Pending(q) => Target(q) # Target(r)
  /\ \/ Off(r)' /\ (Target(r) \in blurred' \/ Old(r) = New(r))
     \/ /\ Pending(r)' /\ Old(r) # New(r)
        /\ Target(r)' = Target(r) /\ New(r)' = New(r) /\ Old(r)' = Old(r)

Records(r) ==
  /\ Pending(r) /\ Off(r)' /\ UNCHANGED users /\ blurred \subseteq blurred'
  /\ trail' = [trail EXCEPT ![Target(r)] = Append(@, [old |-> Old(r), new |-> New(r)])]

Drops(r) ==
  /\ Pending(r) /\ Off(r)' /\ UNCHANGED <<users, trail>>
  /\ blurred \subseteq blurred' /\ Target(r) \in blurred'

View(r) == Rests(r) \/ Enters(r) \/ Selects(r) \/ Gives(r) \/ Records(r) \/ Drops(r)

\* What the view needs to know of a request.
Asked(r) == Caller(r) \in Emails /\ Target(r) \in Emails /\ New(r) \in Roles /\ arg[r].id \in Identities

LEMMA GiveView ==
  ASSUME Functions, RowsOK, NEW r \in Requests, Asked(r), Selected(r), Writing(r), Old(r) # "none",
         Promoting(r) => SawVacant(r), Give(r, New(r)), UNCHANGED trail,
         NEW step, Goto(r, step),
         \/ step \in {"trail", "seed_trail"} /\ Old(r) # New(r) /\ (step = "seed_trail" <=> Seeding(r))
         \/ step = "done" /\ Old(r) = New(r)
  PROVE  Gives(r) /\ RowsOK'
<1>1. Registered(Target(r)) /\ Target(r) \in Emails /\ New(r) \in Roles
  BY DEF Selected, Asked
<1>2. users' = [users EXCEPT ![Target(r)].role = New(r)] /\ Blur(r, Target(r))
  BY DEF Give
<1>3. RowsOK' /\ Given(Target(r), New(r))
  BY <1>1, <1>2, GiveEffect
<1>4. /\ blurred \subseteq blurred'
      /\ \/ Target(r) \in blurred'
         \/ \A q \in Requests \ {r} : Writing(q) \/ Pending(q) => Target(q) # Target(r)
  BY <1>2 DEF Blur, Writing, Pending
<1>5. pc'[r] = step /\ (step \notin Answers => arg'[r] = arg[r] /\ seen'[r] = seen[r])
  BY GotoMoves
<1>6. CASE step \in {"trail", "seed_trail"} /\ Old(r) # New(r) /\ (step = "seed_trail" <=> Seeding(r))
  <2>1. pc'[r] = step /\ arg'[r] = arg[r] /\ seen'[r] = seen[r]
    BY <1>5, <1>6 DEF Answers
  <2>2. Seeding(r)' <=> Seeding(r)
    BY <2>1, <1>6 DEF Seeding
  <2>3. Target(r)' = Target(r) /\ New(r)' = New(r) /\ Old(r)' = Old(r)
    BY <2>1, <2>2 DEF Target, New, Old, Promoting, Caller, Op
  <2>4. Pending(r)'
    BY <2>1, <1>6 DEF Pending
  <2> QED
    BY <1>3, <1>4, <1>6, <2>3, <2>4 DEF Gives
<1>7. CASE step = "done" /\ Old(r) = New(r)
  <2>1. Off(r)'
    BY <1>5, <1>7 DEF Off, Writing, Pending
  <2> QED
    BY <1>3, <1>4, <1>7, <2>1 DEF Gives
<1> QED
  BY <1>6, <1>7

\* A step of one request leaves the others where they are.
LEMMA HandleMoves ==
  ASSUME Functions, NEW r \in Requests, Handle(r), Active(r) => Way(r) /\ Entitled(r)
  PROVE  \A q \in Requests \ {r} : Same(q)
<1>1. CASE Arrive(r)
  BY <1>1 DEF Arrive, Functions, Same
<1>2. CASE Select(r)
  BY <1>2 DEF Select, Functions, Same
<1>3. CASE ~Arrive(r) /\ ~Select(r)
  BY <1>3, Flow, GotoMoves
<1> QED
  BY <1>1, <1>2, <1>3
\* A statement that leaves the tables alone and is no record.
LEMMA RestView ==
  ASSUME NEW r \in Requests, ~Pending(r), Off(r)', RowsOK, UNCHANGED <<users, trail>>, blurred \subseteq blurred'
  PROVE  View(r) /\ RowsOK'
BY DEF View, Rests, RowsOK, Registered

LEMMA HandleView ==
  ASSUME Functions, RowsOK, NEW r \in Requests, Handle(r), Asked(r), Kind(r) \in Kinds, Selected(r)
  PROVE  View(r) /\ RowsOK'
<1>1. ASSUME NEW step, Goto(r, step)
      PROVE  /\ pc'[r] = step
             /\ step \notin {"write", "seed_write", "trail", "seed_trail"} => Off(r)'
  BY <1>1, GotoMoves DEF Off, Writing, Pending
<1>2. Admitted(r) \notin {"write", "seed_write", "trail", "seed_trail"}
  BY AdmittedWay
<1>3. ASSUME Arrive(r) PROVE View(r) /\ RowsOK'
  <2>1. pc[r] \in Answers /\ pc'[r] = "upsert" /\ UNCHANGED <<users, trail, blurred>>
    BY <1>3 DEF Arrive, Functions, tables
  <2> QED
    BY <2>1, RestView DEF Off, Writing, Pending, Answers
<1>4. ASSUME EnsureUser(r) PROVE View(r) /\ RowsOK'
  <2>1. /\ pc[r] = "upsert" /\ Upsert(arg[r].id.email, arg[r].id.sub) /\ UNCHANGED <<trail, blurred>>
        /\ Goto(r, "seed_read") \/ Goto(r, Admitted(r))
    BY <1>4 DEF EnsureUser
  <2>2. RowsOK' /\ Entered(arg[r].id.email)
    BY <2>1, UpsertEffect DEF Asked, Caller
  <2>3. ~Pending(r) /\ Off(r)'
    BY <2>1, <1>1, <1>2 DEF Pending
  <2> QED
    BY <2>1, <2>2, <2>3 DEF View, Enters, Caller
<1>5. ASSUME RequireWrite(r) \/ CheckAdmin(r) \/ CountAdmins(r) PROVE View(r) /\ RowsOK'
  <2>1. /\ pc[r] \in {"guard", "check", "count"} /\ UNCHANGED <<users, trail, blurred>>
        /\ \E step \in {"forbidden", "served", "check", "read", "error", "conflict"} : Goto(r, step)
    BY <1>5 DEF RequireWrite, CheckAdmin, CountAdmins, tables
  <2>2. ~Pending(r) /\ Off(r)'
    BY <2>1, <1>1 DEF Pending
  <2> QED
    BY <2>1, <2>2, RestView
<1>6. ASSUME Select(r) PROVE View(r) /\ RowsOK'
  <2>1. /\ pc[r] \in {"read", "seed_read"} /\ UNCHANGED <<users, trail, blurred, arg>>
        /\ seen'[r] = [old |-> users[Target(r)].role, vacant |-> Vacant(users)]
        /\ pc'[r] = IF Seeding(r) THEN "seed_write" ELSE "write"
    BY <1>6 DEF Select, Functions, tables
  <2>2. pc'[r] \in {"write", "seed_write"} /\ (Seeding(r)' <=> Seeding(r))
    BY <2>1 DEF Seeding
  <2>3. Target(r)' = Target(r)
    BY <2>1, <2>2 DEF Target, Promoting, Caller, Op
  <2>4. Off(r) /\ Writing(r)'
    BY <2>1, <2>2 DEF Off, Writing, Pending
  <2>5. Old(r)' = users[Target(r)].role /\ SawVacant(r)' = Vacant(users)
    BY <2>1 DEF Old, SawVacant
  <2> QED
    BY <2>1, <2>3, <2>4, <2>5 DEF View, Selects, RowsOK, Registered
<1>7. ASSUME SetRole(r) PROVE View(r) /\ RowsOK'
  <2>1. pc[r] = "write" /\ ~Promoting(r) /\ UNCHANGED trail /\ New(r) = Op(r).role
    BY <1>7 DEF SetRole, New
  <2>2. Writing(r) /\ ~Pending(r) /\ ~Seeding(r)
    BY <2>1 DEF Writing, Pending, Promoting
  <2>3. CASE Old(r) = "none"
    <3>1. Goto(r, "not_found") /\ UNCHANGED <<users, blurred>>
      BY <1>7, <2>3 DEF SetRole, Old
    <3> QED
      BY <3>1, <1>1, <2>1, <2>2, RestView
  <2>4. CASE Old(r) # "none"
    <3>1. Give(r, New(r)) /\ Goto(r, IF Old(r) # New(r) THEN "trail" ELSE "done")
      BY <1>7, <2>1, <2>4 DEF SetRole, Old
    <3>2. Gives(r) /\ RowsOK'
      BY <3>1, <2>1, <2>2, <2>4, GiveView
    <3> QED
      BY <3>2 DEF View
  <2> QED
    BY <2>3, <2>4
<1>8. ASSUME BootstrapAdmin(r) PROVE View(r) /\ RowsOK'
  <2>1. Writing(r) /\ ~Pending(r) /\ Promoting(r) /\ UNCHANGED trail /\ New(r) = "admin"
    BY <1>8 DEF BootstrapAdmin, New, Writing, Pending
  <2>2. CASE Promotable(r)
    <3>1. Old(r) # "none" /\ SawVacant(r)
      BY <2>2 DEF Promotable, Old, SawVacant
    <3>2. Old(r) # New(r)
      BY <3>1, <2>1 DEF Selected
    <3>3. Give(r, New(r)) /\ Goto(r, IF Seeding(r) THEN "seed_trail" ELSE "trail")
      BY <1>8, <2>1, <2>2 DEF BootstrapAdmin
    <3>4. Gives(r) /\ RowsOK'
      BY <3>1, <3>2, <3>3, <2>1, GiveView
    <3> QED
      BY <3>4 DEF View
  <2>3. CASE ~Promotable(r)
    <3>1. (Goto(r, Admitted(r)) \/ Goto(r, "count")) /\ UNCHANGED <<users, blurred>>
      BY <1>8, <2>3 DEF BootstrapAdmin
    <3> QED
      BY <3>1, <1>1, <1>2, <2>1, RestView
  <2> QED
    BY <2>2, <2>3
<1>9. ASSUME Record(r)
      PROVE  trail' = [trail EXCEPT ![Target(r)] = Append(@, [old |-> Old(r), new |-> New(r)])]
  BY <1>9 DEF Record, Old, New
<1>10. ASSUME InsertRoleChange(r) PROVE View(r) /\ RowsOK'
  <2>1. /\ Pending(r) /\ Record(r) /\ UNCHANGED <<users, blurred>>
        /\ Goto(r, Admitted(r)) \/ Goto(r, "done")
    BY <1>10 DEF InsertRoleChange, Pending
  <2> QED
    BY <2>1, <1>1, <1>2, <1>9 DEF View, Records, RowsOK, Registered
<1>11. ASSUME Fail(r) PROVE View(r) /\ RowsOK'
  <2>1. Off(r)' /\ \E step : Goto(r, step)
    <3>1. Goto(r, AfterFault(r)) \/ Goto(r, "gone")
      BY <1>11 DEF Fail
    <3>2. AfterFault(r) \in {"forbidden", "done", "not_found", "error"} \/ AfterFault(r) = Admitted(r)
      BY DEF AfterFault
    <3> QED
      BY <3>1, <3>2, <1>1, <1>2
  <2>2. \/ UNCHANGED <<users, trail>> /\ blurred' = IF Pending(r) THEN blurred \cup {Target(r)} ELSE blurred
        \/ pc[r] = "upsert" /\ Upsert(arg[r].id.email, arg[r].id.sub) /\ UNCHANGED <<trail, blurred>>
        \/ /\ IF Promoting(r) THEN Promotable(r) ELSE Old(r) # "none"
           /\ Writing(r) /\ users' = [users EXCEPT ![Target(r)].role = New(r)]
           /\ blurred' = blurred \cup {Target(r)} /\ UNCHANGED trail
        \/ Pending(r) /\ Record(r) /\ UNCHANGED <<users, blurred>>
    BY <1>11 DEF Fail, Pending, Writing, New, Old, tables, Caller
  <2>3. CASE UNCHANGED <<users, trail>> /\ blurred' = IF Pending(r) THEN blurred \cup {Target(r)} ELSE blurred
    <3>1. CASE ~Pending(r)
      BY <2>1, <2>3, <3>1, RestView
    <3>2. CASE Pending(r)
      BY <2>1, <2>3, <3>2 DEF View, Drops, RowsOK, Registered
    <3> QED
      BY <3>1, <3>2
  <2>4. CASE pc[r] = "upsert" /\ Upsert(arg[r].id.email, arg[r].id.sub) /\ UNCHANGED <<trail, blurred>>
    <3>1. RowsOK' /\ Entered(arg[r].id.email)
      BY <2>4, UpsertEffect DEF Asked, Caller
    <3> QED
      BY <2>1, <2>4, <3>1 DEF View, Enters, Caller, Pending
  <2>5. CASE /\ IF Promoting(r) THEN Promotable(r) ELSE Old(r) # "none"
             /\ Writing(r) /\ users' = [users EXCEPT ![Target(r)].role = New(r)]
             /\ blurred' = blurred \cup {Target(r)} /\ UNCHANGED trail
    <3>1. Old(r) # "none" /\ (Promoting(r) => SawVacant(r))
      BY <2>5 DEF Promotable, Old, SawVacant
    <3>2. Registered(Target(r)) /\ Target(r) \in Emails /\ New(r) \in Roles
      BY <2>5, <3>1 DEF Selected, Asked
    <3>3. RowsOK' /\ Given(Target(r), New(r))
      BY <2>5, <3>2, GiveEffect
    <3> QED
      BY <2>1, <2>5, <3>1, <3>3 DEF View, Gives
  <2>6. CASE Pending(r) /\ Record(r) /\ UNCHANGED <<users, blurred>>
    BY <2>1, <2>6, <1>9 DEF View, Records, RowsOK, Registered
  <2> QED
    BY <2>2, <2>3, <2>4, <2>5, <2>6
<1> QED
  BY <1>3, <1>4, <1>5, <1>6, <1>7, <1>8, <1>10, <1>11 DEF Handle

-------------------------------------------------------------------------------
\* The trail.

Entry == [old : Roles, new : Roles]
After(e, i) == IF i = 0 THEN "reviewer" ELSE trail[e][i].new
Last(e) == After(e, Len(trail[e]))

Chained(e) == \A i \in DOMAIN trail[e] : trail[e][i].old = After(e, i - 1)

TrailOK ==
  /\ trail \in [Emails -> Seq(Entry)]
  /\ \A e \in Emails : \A i \in DOMAIN trail[e] : trail[e][i].old # trail[e][i].new
  /\ \A e \in Emails : ~Registered(e) => trail[e] = << >>

\* A user that is not blurred: the trail is a chain that ends at the user's role, but
\* for one change that is made and not yet recorded, and a snapshot is not stale.
Sharp(e) ==
  /\ Chained(e)
  /\ Registered(e) /\ (\A r \in Requests : Pending(r) => Target(r) # e) => users[e].role = Last(e)
  /\ \A r \in Requests : Pending(r) /\ Target(r) = e =>
       /\ Old(r) = Last(e) /\ users[e].role = New(r)
       /\ \A q \in Requests : Pending(q) /\ Target(q) = e => q = r
  /\ \A r \in Requests : Writing(r) /\ Target(r) = e /\ Old(r) # "none" => Old(r) = users[e].role

LEMMA AppendFacts ==
  ASSUME NEW s \in Seq(Entry), NEW entry \in Entry
  PROVE  /\ Append(s, entry) \in Seq(Entry) /\ Len(Append(s, entry)) = Len(s) + 1
         /\ DOMAIN Append(s, entry) = DOMAIN s \cup {Len(s) + 1} /\ Len(s) \in Nat
         /\ Append(s, entry)[Len(s) + 1] = entry /\ DOMAIN s = 1..Len(s)
         /\ \A i \in DOMAIN s : Append(s, entry)[i] = s[i]
  OBVIOUS

LEMMA TrailStep ==
  ASSUME RowsOK, TrailOK, NEW r \in Requests, Asked(r), Selected(r), View(r)
  PROVE  TrailOK'
<1>1. \A e \in Emails : Registered(e) => Registered(e)'
  BY DEF View, Rests, Enters, Selects, Gives, Records, Drops, Entered, Given, Registered
<1>2. CASE UNCHANGED trail
  BY <1>1, <1>2 DEF TrailOK
<1>3. CASE Records(r)
  <2> DEFINE e == Target(r)
  <2> DEFINE entry == [old |-> Old(r), new |-> New(r)]
  <2>1. e \in Emails /\ entry \in Entry /\ entry.old # entry.new /\ Registered(e)
    BY <1>3 DEF Records, Selected, Asked, Entry
  <2>2. trail' = [trail EXCEPT ![e] = Append(trail[e], entry)]
    BY <1>3 DEF Records
  <2> HIDE DEF e, entry
  <2>3. trail' \in [Emails -> Seq(Entry)] /\ trail'[e] = Append(trail[e], entry)
        /\ \A f \in Emails \ {e} : trail'[f] = trail[f]
    <3>1. Append(trail[e], entry) \in Seq(Entry) /\ trail \in [Emails -> Seq(Entry)]
      BY <2>1, AppendFacts DEF TrailOK
    <3> QED
      BY <2>1, <2>2, <3>1
  <2>4. \A i \in DOMAIN trail'[e] : trail'[e][i].old # trail'[e][i].new
    BY <2>1, <2>3, AppendFacts DEF TrailOK
  <2>5. \A f \in Emails : \A i \in DOMAIN trail'[f] : trail'[f][i].old # trail'[f][i].new
    BY <2>3, <2>4 DEF TrailOK
  <2>6. \A f \in Emails : ~Registered(f)' => trail'[f] = << >>
    BY <1>1, <2>1, <2>3 DEF TrailOK
  <2> QED
    BY <2>3, <2>5, <2>6 DEF TrailOK
<1> QED
  BY <1>2, <1>3 DEF View, Rests, Enters, Selects, Gives, Drops

\* The parts of Sharp that a step of r disturbs are about r itself.
LEMMA SharpStep ==
  ASSUME RowsOK, TrailOK, NEW r \in Requests, Asked(r), Selected(r), View(r),
         \A q \in Requests \ {r} : Same(q), \A q \in Requests : Selected(q),
         NEW e \in Emails \ blurred', e \notin blurred => Sharp(e)
  PROVE  Sharp(e)'
<1>0. e \notin blurred /\ Sharp(e)
  BY DEF View, Rests, Enters, Selects, Gives, Records, Drops
<1>1. \A q \in Requests \ {r} :
        /\ Old(q)' = Old(q) /\ Target(q)' = Target(q) /\ New(q)' = New(q)
        /\ (Writing(q) <=> Writing(q)') /\ (Pending(q) <=> Pending(q)')
  BY SameMeans
<1>2. ~(Writing(r) /\ Pending(r)) /\ (Off(r) <=> ~Writing(r) /\ ~Pending(r))
      /\ ~(Writing(r)' /\ Pending(r)') /\ (Off(r)' <=> ~Writing(r)' /\ ~Pending(r)')
  BY DEF Off, Writing, Pending
<1>3. ASSUME UNCHANGED trail PROVE (Chained(e) <=> Chained(e)') /\ Last(e)' = Last(e)
  BY <1>3 DEF Chained, Last, After
<1>4. CASE Rests(r)
  <2>1. ~Pending(r) /\ ~Pending(r)' /\ ~Writing(r)' /\ users' = users /\ trail' = trail
    BY <1>4, <1>2 DEF Rests
  <2> QED
    BY <2>1, <1>0, <1>1, <1>3 DEF Sharp, Registered
<1>5. CASE Enters(r)
  <2>1. ~Pending(r) /\ ~Pending(r)' /\ ~Writing(r)' /\ trail' = trail
    BY <1>5, <1>2 DEF Enters
  <2>2. CASE Registered(e)
    <3>1. users'[e].role = users[e].role /\ Registered(e)'
      BY <1>5, <2>2 DEF Enters, Entered, Registered
    <3> QED
      BY <2>1, <2>2, <3>1, <1>0, <1>1, <1>3 DEF Sharp
  <2>3. CASE ~Registered(e)
    <3>1. trail[e] = << >>
      BY <2>3 DEF TrailOK
    <3>2. Last(e) = "reviewer"
      BY <3>1 DEF Last, After
    <3>3. Registered(e)' => users'[e].role = "reviewer"
      BY <1>5, <2>3 DEF Enters, Entered, Registered
    <3>4. \A q \in Requests : Target(q) = e => ~Pending(q) /\ (Writing(q) => Old(q) = "none")
      BY <2>3 DEF Selected
    <3> QED
      BY <2>1, <3>2, <3>3, <3>4, <1>0, <1>1, <1>3 DEF Sharp
  <2> QED
    BY <2>2, <2>3
<1>6. CASE Selects(r)
  <2>1. ~Pending(r) /\ ~Pending(r)' /\ users' = users /\ trail' = trail /\ Target(r)' = Target(r)
        /\ Old(r)' = users[Target(r)].role
    BY <1>6, <1>2 DEF Selects
  <2> QED
    BY <2>1, <1>0, <1>1, <1>3 DEF Sharp, Registered
<1>7. CASE Gives(r)
  <2>1. /\ Writing(r) /\ ~Pending(r) /\ Old(r) # "none" /\ ~Writing(r)' /\ trail' = trail
        /\ \A f \in Emails \ {Target(r)} : users'[f] = users[f]
        /\ users[Target(r)] # NoRow /\ users'[Target(r)] # NoRow /\ users'[Target(r)].role = New(r)
    BY <1>7, <1>2 DEF Gives, Given, Selected, Registered
  <2>2. CASE Target(r) # e
    <3>1. users'[e] = users[e] /\ ~(Pending(r)' /\ Target(r)' = e)
      BY <2>1, <2>2, <1>2, <1>7 DEF Gives
    <3> QED
      BY <2>1, <2>2, <3>1, <1>0, <1>1, <1>3 DEF Sharp, Registered
  <2>3. CASE Target(r) = e
    <3>1. \A q \in Requests \ {r} : Writing(q) \/ Pending(q) => Target(q) # e
      BY <1>7, <2>3 DEF Gives
    <3>2. \A q \in Requests : Pending(q) => Target(q) # e
      BY <2>1, <3>1
    <3>3. Old(r) = users[e].role /\ users[e].role = Last(e)
      BY <2>1, <2>3, <3>2, <1>0 DEF Sharp, Registered
    <3>4. \/ ~Pending(r)' /\ Old(r) = New(r)
          \/ Pending(r)' /\ Target(r)' = e /\ New(r)' = New(r) /\ Old(r)' = Old(r)
      BY <1>2, <1>7, <2>3 DEF Gives
    <3> QED
      BY <2>1, <2>3, <3>1, <3>3, <3>4, <1>0, <1>1, <1>3 DEF Sharp
  <2> QED
    BY <2>2, <2>3
<1>8. CASE Records(r)
  <2> DEFINE entry == [old |-> Old(r), new |-> New(r)]
  <2>1. Pending(r) /\ ~Pending(r)' /\ ~Writing(r)' /\ users' = users
    BY <1>8, <1>2 DEF Records
  <2>2. trail' = [trail EXCEPT ![Target(r)] = Append(trail[Target(r)], entry)]
    BY <1>8 DEF Records
  <2>3. CASE Target(r) # e
    <3>1. trail'[e] = trail[e]
      BY <2>2, <2>3 DEF TrailOK
    <3>2. (Chained(e) <=> Chained(e)') /\ Last(e)' = Last(e)
      BY <3>1 DEF Chained, Last, After
    <3> QED
      BY <2>1, <2>3, <3>2, <1>0, <1>1 DEF Sharp, Registered
  <2>4. CASE Target(r) = e
    <3>1. /\ Old(r) = Last(e) /\ users[e].role = New(r)
          /\ \A q \in Requests : Pending(q) /\ Target(q) = e => q = r
      BY <2>1, <2>4, <1>0 DEF Sharp
    <3>2. trail'[e] = Append(trail[e], entry) /\ trail[e] \in Seq(Entry) /\ entry \in Entry
      BY <2>1, <2>2, <2>4 DEF TrailOK, Entry, Selected, Asked
    <3>3. entry.old = Old(r) /\ entry.new = New(r)
      OBVIOUS
    <3> HIDE DEF entry
    <3>4. PICK n \in Nat : n = Len(trail[e])
      BY <3>2, AppendFacts
    <3>5. /\ Len(trail'[e]) = n + 1 /\ DOMAIN trail[e] = 1..n /\ DOMAIN trail'[e] = 1..(n + 1)
          /\ trail'[e][n + 1] = entry /\ \A i \in 1..n : trail'[e][i] = trail[e][i]
      <4>1. DOMAIN trail'[e] = DOMAIN trail[e] \cup {n + 1} /\ DOMAIN trail[e] = 1..n
        BY <3>2, <3>4, AppendFacts
      <4>2. DOMAIN trail'[e] = 1..(n + 1)
        BY <4>1
      <4> QED
        BY <3>2, <3>4, <4>1, <4>2, AppendFacts
    <3>6. Last(e)' = New(r)
      BY <3>3, <3>4, <3>5 DEF Last, After
    <3>7. Chained(e)'
      <4>1. \A i \in 0..n : After(e, i)' = After(e, i)
        BY <3>5 DEF After
      <4>2. After(e, n)' = entry.old
        BY <4>1, <3>1, <3>3, <3>4 DEF Last
      <4>3. \A i \in 1..n : trail'[e][i].old = After(e, i - 1)
        BY <3>5, <1>0 DEF Sharp, Chained
      <4>4. ASSUME NEW i \in 1..(n + 1) PROVE trail'[e][i].old = After(e, i - 1)'
        <5>1. CASE i \in 1..n
          BY <5>1, <4>1, <4>3
        <5>2. CASE i = n + 1
          <6>1. i - 1 = n
            BY <5>2
          <6> QED
            BY <5>2, <6>1, <4>2, <3>5
        <5> QED
          BY <5>1, <5>2
      <4> QED
        BY <4>4, <3>5 DEF Chained
    <3> QED
      BY <2>1, <2>4, <3>1, <3>6, <3>7, <1>0, <1>1 DEF Sharp
  <2> QED
    BY <2>3, <2>4
<1>9. CASE Drops(r)
  <2>1. Pending(r) /\ ~Pending(r)' /\ ~Writing(r)' /\ users' = users /\ trail' = trail /\ Target(r) # e
    BY <1>9, <1>2 DEF Drops
  <2> QED
    BY <2>1, <1>0, <1>1, <1>3 DEF Sharp, Registered
<1> QED
  BY <1>4, <1>5, <1>6, <1>7, <1>8, <1>9 DEF View

-------------------------------------------------------------------------------
\* What speaks for the requests.

LEMMA CreditGrows ==
  ASSUME Credit, NEW q \in Requests, pc'[q] \notin Answers
  PROVE  /\ credit[q] \subseteq credit'[q]
         /\ users'[arg'[q].id.email].role \in credit'[q]
         /\ Vacant(users') => "vacancy" \in credit'[q]
BY DEF Credit, Speaking

LEMMA BackedGrows ==
  ASSUME NEW kind, NEW step, NEW spoken, NEW more, spoken \subseteq more, Backed(kind, step, spoken)
  PROVE  Backed(kind, step, more)
BY DEF Backed

LEMMA EntitledStep ==
  ASSUME Functions, \A q \in Requests : Active(q) => Way(q) /\ Entitled(q),
         \A op \in Operations : op.kind \in Kinds,
         NEW r \in Requests, Handle(r), Credit, \A q \in Requests \ {r} : Same(q)
  PROVE  \A q \in Requests : Active(q)' => Way(q)' /\ Entitled(q)'
<1>1. ASSUME NEW q \in Requests, Active(q)',
             Kind(q)' \in Kinds, OnWay(Kind(q)', pc'[q]), Backed(Kind(q)', pc'[q], credit[q]),
             Writing(q)' /\ SawVacant(q)' => "vacancy" \in credit[q]
      PROVE  Way(q)' /\ Entitled(q)'
  <2>1. /\ credit[q] \subseteq credit'[q] /\ users'[arg'[q].id.email].role \in credit'[q]
        /\ Vacant(users') => "vacancy" \in credit'[q]
    BY <1>1, CreditGrows DEF Active
  <2>2. Backed(Kind(q)', pc'[q], credit'[q])
    BY <1>1, <2>1, BackedGrows
  <2> QED
    BY <1>1, <2>1, <2>2 DEF Way, Entitled, Caller
<1>2. ASSUME NEW q \in Requests \ {r}, Active(q)' PROVE Way(q)' /\ Entitled(q)'
  <2>1. /\ pc'[q] = pc[q] /\ Kind(q)' = Kind(q) /\ SawVacant(q)' = SawVacant(q)
        /\ Writing(q)' <=> Writing(q)
    BY SameMeans
  <2>2. Way(q) /\ Entitled(q)
    BY <1>2, <2>1 DEF Active
  <2> QED
    BY <1>1, <1>2, <2>1, <2>2 DEF Way, Entitled
<1>3. ASSUME Arrive(r) PROVE Way(r)' /\ Entitled(r)'
  <2>1. PICK id \in Identities, op \in Operations : arg' = [arg EXCEPT ![r] = [id |-> id, op |-> op]]
    BY <1>3 DEF Arrive
  <2>2. arg'[r].op = op
    BY <2>1 DEF Functions
  <2>3. pc'[r] = "upsert"
    BY <1>3 DEF Arrive, Functions
  <2>4. Active(r)' /\ Kind(r)' \in Kinds /\ ~Writing(r)'
    BY <2>2, <2>3 DEF Active, Answers, Kind, Op, Writing
  <2>5. OnWay(Kind(r)', pc'[r]) /\ Backed(Kind(r)', pc'[r], credit[r])
    BY <2>3 DEF OnWay, Backed
  <2> QED
    BY <2>4, <2>5, <1>1
<1>4. ASSUME Select(r) PROVE Way(r)' /\ Entitled(r)'
  <2>1. /\ \/ pc[r] = "seed_read" /\ pc'[r] = "seed_write"
           \/ pc[r] = "read" /\ pc'[r] = "write"
        /\ arg' = arg /\ seen'[r] = [old |-> users[Target(r)].role, vacant |-> Vacant(users)]
    BY <1>4 DEF Select, Functions, Seeding
  <2>2. Active(r) /\ Active(r)' /\ Kind(r)' = Kind(r) /\ SawVacant(r)' = Vacant(users)
    BY <2>1 DEF Active, Answers, Kind, Op, SawVacant
  <2>3. Way(r) /\ Entitled(r)
    BY <2>2
  <2>4. OnWay(Kind(r), pc'[r]) /\ Backed(Kind(r), pc'[r], credit[r])
    BY <2>1, <2>3 DEF Way, Entitled, OnWay, Backed
  <2>5. Vacant(users) => "vacancy" \in credit[r]
    BY <2>3 DEF Entitled
  <2> QED
    BY <2>2, <2>3, <2>4, <2>5, <1>1 DEF Way
<1>5. ASSUME ~Arrive(r), ~Select(r), Active(r)' PROVE Way(r)' /\ Entitled(r)'
  <2>1. PICK step \in Steps \cup Answers :
          /\ Goto(r, step) /\ step \notin {"write", "seed_write", "upsert"}
          /\ OnWay(Kind(r), step) /\ Backed(Kind(r), step, credit[r])
    BY <1>5, Flow
  <2>2. pc'[r] = step /\ Kind(r)' = Kind(r)
    BY <1>5, <2>1, GotoMoves DEF Active, Kind, Op
  <2>3. Kind(r) \in Kinds
    BY <1>5, Flow DEF Active, Way, Steps, Answers
  <2>4. ~Writing(r)'
    BY <2>1, <2>2 DEF Writing
  <2> QED
    BY <1>1, <1>5, <2>1, <2>2, <2>3, <2>4
<1> QED
  BY <1>2, <1>3, <1>4, <1>5

LEMMA SelectedStep ==
  ASSUME RowsOK, NEW r \in Requests, \A q \in Requests : Selected(q) /\ Asked(q),
         \A q \in Requests \ {r} : Same(q), Old(r) \in Roles \cup {"none"}, View(r)
  PROVE  \A q \in Requests : Selected(q)'
<1>1. \A e \in Emails : users[e] # NoRow => users'[e] # NoRow
  BY DEF View, Rests, Enters, Selects, Gives, Records, Drops, Entered, Given
<1>2. ASSUME NEW q \in Requests \ {r} PROVE Selected(q)'
  <2>1. /\ Old(q)' = Old(q) /\ SawVacant(q)' = SawVacant(q)
        /\ Target(q)' = Target(q) /\ New(q)' = New(q)
        /\ (Writing(q) <=> Writing(q)') /\ (Pending(q) <=> Pending(q)')
    BY SameMeans
  <2>2. Target(q) \in Emails
    BY DEF Asked
  <2> QED
    BY <1>1, <2>1, <2>2 DEF Selected, Registered
<1>3. ASSUME Off(r)' PROVE Selected(r)'
  BY <1>3 DEF Off, Selected
<1>4. ASSUME Selects(r) PROVE Selected(r)'
  <2>1. /\ Writing(r)' /\ ~Pending(r)' /\ Target(r)' = Target(r) /\ users' = users
        /\ Old(r)' = users[Target(r)].role /\ SawVacant(r)' = Vacant(users)
    BY <1>4 DEF Selects, Writing, Pending
  <2>2. Target(r) \in Emails
    BY DEF Asked
  <2>3. users[Target(r)].role # "none" => users[Target(r)] # NoRow
    BY DEF NoRow
  <2>4. Vacant(users) => users[Target(r)].role # "admin"
    BY <2>2 DEF Vacant
  <2> QED
    BY <2>1, <2>3, <2>4 DEF Selected, Registered
<1>5. ASSUME Gives(r), ~Off(r)' PROVE Selected(r)'
  <2>1. /\ Pending(r)' /\ ~Writing(r)' /\ Old(r) # New(r) /\ Old(r) # "none"
        /\ Target(r)' = Target(r) /\ New(r)' = New(r) /\ Old(r)' = Old(r)
        /\ users'[Target(r)] # NoRow
    BY <1>5 DEF Gives, Given, Writing, Pending
  <2> QED
    BY <2>1 DEF Selected, Registered
<1> QED
  BY <1>2, <1>3, <1>4, <1>5 DEF View, Rests, Enters, Records, Drops

-------------------------------------------------------------------------------
\* Types.

ControlTypes ==
  /\ pc \in [Requests -> Answers \cup Steps]
  /\ arg \in [Requests -> [id : Identities, op : Operations]]
  /\ seen \in [Requests -> [old : Roles \cup {"none"}, vacant : BOOLEAN]]
  /\ arrived \in 0..MaxRequests /\ faults \in 0..MaxFaults
  /\ credit \in [Requests -> SUBSET (Roles \cup {"none", "vacancy"})]
  /\ blurred \subseteq Emails

LEMMA RequestsAsk ==
  ASSUME ControlTypes
  PROVE  /\ Functions
         /\ \A r \in Requests : Asked(r) /\ Kind(r) \in Kinds /\ Old(r) \in Roles \cup {"none"}
<1>1. Functions
  BY DEF ControlTypes, Functions
<1>2. ASSUME NEW r \in Requests
      PROVE  Asked(r) /\ Kind(r) \in Kinds /\ Old(r) \in Roles \cup {"none"}
  <2>1. arg[r].id \in Identities /\ arg[r].op \in Operations
    BY DEF ControlTypes
  <2>2. /\ arg[r].id.email \in Emails /\ arg[r].op.kind \in Kinds
        /\ arg[r].op.target \in Emails /\ arg[r].op.role \in Roles
    BY <2>1, RolesAssumption
  <2>3. Old(r) \in Roles \cup {"none"}
    BY DEF ControlTypes, Old
  <2> QED
    BY <2>1, <2>2, <2>3 DEF Asked, Caller, Target, New, Kind, Op, Roles
<1> QED
  BY <1>1, <1>2

LEMMA NoRequestType == NoRequest \in [id : Identities, op : Operations]
<1>1. PICK id \in Identities, op \in Operations : TRUE
  BY RolesAssumption
<1>2. [id |-> id, op |-> op] \in [id : Identities, op : Operations]
  OBVIOUS
<1> QED
  BY <1>2 DEF NoRequest

LEMMA GotoTypes ==
  ASSUME ControlTypes, NEW r \in Requests, NEW step \in Answers \cup Steps, Goto(r, step)
  PROVE  /\ pc' \in [Requests -> Answers \cup Steps]
         /\ arg' \in [Requests -> [id : Identities, op : Operations]]
         /\ seen' \in [Requests -> [old : Roles \cup {"none"}, vacant : BOOLEAN]]
<1>1. Nothing \in [old : Roles \cup {"none"}, vacant : BOOLEAN]
  BY DEF Nothing
<1> QED
  BY <1>1, NoRequestType DEF ControlTypes, Goto

LEMMA ControlStep ==
  ASSUME ControlTypes, RowsOK, RowsOK', NEW r \in Requests, Handle(r), Credit,
         Active(r) => Way(r) /\ Entitled(r)
  PROVE  ControlTypes'
<1>1. /\ pc' \in [Requests -> Answers \cup Steps]
      /\ arg' \in [Requests -> [id : Identities, op : Operations]]
      /\ seen' \in [Requests -> [old : Roles \cup {"none"}, vacant : BOOLEAN]]
  <2>1. CASE Arrive(r)
    BY <2>1 DEF Arrive, ControlTypes, Steps
  <2>2. CASE Select(r)
    <3>1. Target(r) \in Emails
      BY RequestsAsk DEF Asked
    <3>2. users[Target(r)].role \in Roles \cup {"none"}
      BY <3>1, RowFields DEF RowsOK
    <3>3. [old |-> users[Target(r)].role, vacant |-> Vacant(users)] \in [old : Roles \cup {"none"}, vacant : BOOLEAN]
      BY <3>2 DEF Vacant
    <3> QED
      BY <2>2, <3>3 DEF Select, ControlTypes, Steps
  <2>3. CASE ~Arrive(r) /\ ~Select(r)
    BY <2>3, Flow, GotoTypes
  <2> QED
    BY <2>1, <2>2, <2>3
<1>2. blurred' \subseteq Emails
  <2>1. Target(r) \in Emails /\ blurred \subseteq Emails
    BY RequestsAsk DEF Asked, ControlTypes
  <2>2. blurred' = blurred \/ blurred' = blurred \cup {Target(r)} \/ blurred' = blurred \cup {}
    BY DEF Handle, Arrive, EnsureUser, RequireWrite, CheckAdmin, Select, SetRole, BootstrapAdmin,
           CountAdmins, InsertRoleChange, Fail, Give, Blur
  <2> QED
    BY <2>1, <2>2
<1>3. arrived' \in 0..MaxRequests /\ faults' \in 0..MaxFaults
  <2>1. \/ arrived' = arrived /\ faults' = faults
        \/ arrived < MaxRequests /\ arrived' = arrived + 1 /\ faults' = faults
        \/ faults < MaxFaults /\ faults' = faults + 1 /\ arrived' = arrived
    BY DEF Handle, Arrive, EnsureUser, RequireWrite, CheckAdmin, Select, SetRole, BootstrapAdmin,
           CountAdmins, InsertRoleChange, Fail, bounds
  <2> QED
    BY <2>1, RolesAssumption DEF ControlTypes
<1>4. credit' \in [Requests -> SUBSET (Roles \cup {"none", "vacancy"})]
  <2>1. ASSUME NEW q \in Requests PROVE Speaking(arg'[q].id.email, users') \subseteq Roles \cup {"none", "vacancy"}
    <3>1. arg'[q].id.email \in Emails
      BY <1>1, RolesAssumption
    <3>2. users'[arg'[q].id.email].role \in Roles \cup {"none"}
      BY <3>1, RowFields DEF RowsOK
    <3> QED
      BY <3>2 DEF Speaking
  <2> QED
    BY <2>1 DEF Credit, ControlTypes
<1> QED
  BY <1>1, <1>2, <1>3, <1>4 DEF ControlTypes

-------------------------------------------------------------------------------
\* The inductive invariant.
IInv ==
  /\ ControlTypes /\ RowsOK /\ TrailOK
  /\ \A r \in Requests : (Active(r) => Way(r) /\ Entitled(r)) /\ Selected(r)
  /\ \A e \in Emails \ blurred : Sharp(e)

LEMMA InitIInv == RolesInit => IInv
<1> SUFFICES ASSUME RolesInit PROVE IInv
  OBVIOUS
<1>1. ControlTypes
  BY RolesAssumption, NoRequestType DEF RolesInit, ControlTypes, Nothing, Answers
<1>2. \A e \in Emails : users[e] = NoRow /\ trail[e] = << >>
  BY DEF RolesInit
<1>3. RowsOK /\ TrailOK
  BY <1>2 DEF RolesInit, RowsOK, TrailOK, Registered
<1>4. \A r \in Requests : pc[r] = "idle"
  BY DEF RolesInit
<1>5. \A r \in Requests : ~Active(r) /\ ~Writing(r) /\ ~Pending(r)
  BY <1>4 DEF Active, Answers, Writing, Pending
<1>6. \A e \in Emails : Chained(e)
  BY <1>2 DEF Chained
<1> QED
  BY <1>1, <1>2, <1>3, <1>5, <1>6 DEF IInv, Selected, Sharp, Registered

LEMMA NextIInv == IInv /\ [RolesNext]_vars => IInv'
<1> SUFFICES ASSUME IInv, [RolesNext]_vars PROVE IInv'
  OBVIOUS
<1>1. ASSUME NEW r \in Requests, Handle(r), Credit PROVE IInv'
  <2>1. /\ ControlTypes /\ RowsOK /\ TrailOK /\ \A q \in Requests : Selected(q)
        /\ \A q \in Requests : Active(q) => Way(q) /\ Entitled(q)
        /\ \A e \in Emails \ blurred : Sharp(e)
    BY DEF IInv
  <2>2. Functions /\ \A q \in Requests : Asked(q) /\ Kind(q) \in Kinds /\ Old(q) \in Roles \cup {"none"}
    BY <2>1, RequestsAsk
  <2>3. View(r) /\ RowsOK'
    BY <1>1, <2>1, <2>2, HandleView
  <2>4. \A q \in Requests \ {r} : Same(q)
    BY <1>1, <2>1, <2>2, HandleMoves
  <2>5. ControlTypes'
    BY <1>1, <2>1, <2>3, ControlStep
  <2>6. TrailOK'
    BY <2>1, <2>2, <2>3, TrailStep
  <2>7. \A q \in Requests : Selected(q)'
    BY <2>1, <2>2, <2>3, <2>4, SelectedStep
  <2>8. \A op \in Operations : op.kind \in Kinds
    BY RolesAssumption
  <2>9. \A q \in Requests : Active(q)' => Way(q)' /\ Entitled(q)'
    BY <1>1, <2>1, <2>2, <2>4, <2>8, EntitledStep
  <2>10. ASSUME NEW e \in Emails \ blurred' PROVE Sharp(e)'
    BY <2>1, <2>2, <2>3, <2>4, SharpStep
  <2> QED
    BY <2>3, <2>5, <2>6, <2>7, <2>9, <2>10 DEF IInv
<1>2. CASE UNCHANGED vars
  BY <1>2 DEF vars, tables, bounds, IInv, ControlTypes, RowsOK, TrailOK, Active, Way, Entitled,
              Selected, Sharp, Chained, Last, After, Registered, Kind, Old, SawVacant, New, Target, Promoting,
              Seeding, Caller, Op, Writing, Pending
<1> QED
  BY <1>1, <1>2 DEF RolesNext

\* What a request was served for had spoken for it.
LEMMA ServedStep ==
  ASSUME IInv, NEW r \in Requests, Handle(r), NEW q \in Requests,
         pc[q] \in Steps, pc'[q] \in {"served", "done"}
  PROVE  Backed(Kind(q), pc'[q], credit[q])
<1>1. Functions /\ \A p \in Requests : Active(p) => Way(p) /\ Entitled(p)
  BY RequestsAsk DEF IInv
<1>2. q = r
  BY <1>1, HandleMoves DEF Same, Steps
<1>3. CASE Arrive(r)
  BY <1>2, <1>3 DEF Arrive, Steps, Answers
<1>4. CASE Select(r)
  BY <1>1, <1>2, <1>4 DEF Select, Functions
<1>5. CASE ~Arrive(r) /\ ~Select(r)
  <2>1. PICK step : Goto(r, step) /\ Backed(Kind(r), step, credit[r])
    BY <1>1, <1>5, Flow
  <2>2. pc'[r] = step
    BY <1>1, <2>1, GotoMoves
  <2> QED
    BY <1>2, <2>1, <2>2
<1> QED
  BY <1>3, <1>4, <1>5

\* A role changes by a row's first appearance or by a role statement that is backed.
LEMMA ChangeStep ==
  ASSUME IInv, NEW r \in Requests, Handle(r), NEW e \in Emails, users'[e].role # users[e].role
  PROVE  \/ ~Registered(e) /\ users'[e].role = "reviewer"
         \/ /\ pc[r] \in {"write", "seed_write"} /\ pc'[r] # pc[r] /\ Target(r) = e
            /\ IF Promoting(r) THEN users'[e].role = "admin" /\ "vacancy" \in credit[r]
               ELSE users'[e].role = Op(r).role /\ "admin" \in credit[r]
<1>1. /\ Functions /\ RowsOK /\ Selected(r) /\ (Active(r) => Way(r) /\ Entitled(r))
      /\ Asked(r) /\ Kind(r) \in Kinds
  BY RequestsAsk DEF IInv
<1>2. View(r)
  BY <1>1, HandleView
<1>3. CASE Enters(r)
  BY <1>3 DEF Enters, Entered, Registered
<1>4. CASE Gives(r)
  <2>1. e = Target(r) /\ users'[e].role = New(r)
    BY <1>4 DEF Gives, Given
  <2>2. pc[r] \in {"write", "seed_write"} /\ pc'[r] # pc[r]
    BY <1>4 DEF Gives, Off, Writing, Pending
  <2>3. Way(r) /\ Entitled(r)
    BY <1>1, <2>2 DEF Active, Answers
  <2>4. CASE Promoting(r)
    <3>1. "vacancy" \in credit[r]
      BY <1>4, <2>3, <2>4 DEF Gives, Entitled
    <3> QED
      BY <2>1, <2>2, <2>4, <3>1 DEF New
  <2>5. CASE ~Promoting(r)
    <3>1. pc[r] = "write" /\ Kind(r) # "bootstrap"
      BY <2>2, <2>5 DEF Promoting, Seeding, Kind
    <3>2. "admin" \in credit[r]
      BY <2>3, <3>1 DEF Way, OnWay, Entitled, Backed
    <3> QED
      BY <2>1, <2>2, <2>5, <3>2 DEF New
  <2> QED
    BY <2>4, <2>5
<1> QED
  BY <1>2, <1>3, <1>4 DEF View, Rests, Selects, Records, Drops

-------------------------------------------------------------------------------
LEMMA IInvHolds == RolesSpec => []IInv
BY InitIInv, NextIInv, PTL DEF RolesSpec

\* However requests, statements and failures interleave, GetUserBySub has one answer,
\* and every recorded or pending change is of a user that has a row and really changed
\* its role (001_users.sql:13, users.go).
THEOREM RolesInvariant == RolesSpec => []RolesInv
<1>1. IInv => RolesInv
  <2> SUFFICES ASSUME IInv PROVE RolesInv
    OBVIOUS
  <2>1. ControlTypes /\ RowsOK /\ TrailOK /\ \A r \in Requests : Selected(r)
    BY DEF IInv
  <2>2. \A e \in Emails : \A i \in DOMAIN trail[e] : trail[e][i] \in [old : Roles, new : Roles]
    <3>1. ASSUME NEW e \in Emails, NEW i \in DOMAIN trail[e] PROVE trail[e][i] \in Entry
      <4>1. trail[e] \in Seq(Entry)
        BY <2>1 DEF TrailOK
      <4> QED
        BY <4>1
    <3> QED
      BY <3>1 DEF Entry
  <2>3. RolesTypeOK
    BY <2>1, <2>2 DEF ControlTypes, RowsOK, Subs, RolesTypeOK
  <2>4. \A r \in Requests : pc[r] \in {"trail", "seed_trail"} => Registered(Target(r)) /\ seen[r].old \in Roles
    BY <2>1 DEF Selected, Pending, Old
  <2> QED
    BY <2>1, <2>3, <2>4 DEF RolesInv, RowsOK, TrailOK
<1> QED
  BY IInvHolds, <1>1, PTL

\* The trail of every user whose changes were made one after the other, and all recorded,
\* leads step by step from the default role to the role in the users table
\* (user_handlers.go:79-87, auth.go:228).
THEOREM TrailAlwaysExplains == RolesSpec => []TrailExplainsRoles
<1>1. IInv => TrailExplainsRoles
  <2> SUFFICES ASSUME IInv, NEW e \in Emails \ blurred
               PROVE  LET history == trail[e]
                          Before(i) == IF i = 0 THEN "reviewer" ELSE history[i].new
                          pending == \E r \in Requests : pc[r] \in {"trail", "seed_trail"} /\ Target(r) = e
                      IN  /\ \A i \in DOMAIN history : history[i].old = Before(i - 1)
                          /\ Registered(e) /\ ~pending => users[e].role = Before(Len(history))
    BY DEF TrailExplainsRoles
  <2>1. Sharp(e)
    BY DEF IInv
  <2> QED
    BY <2>1 DEF Sharp, Chained, Last, After, Pending
<1> QED
  BY IInvHolds, <1>1, PTL

\* Nobody is served without having been entitled to it since the request arrived,
\* whatever roles are changed meanwhile (auth.go:147-160, user_handlers.go:34-38).
THEOREM ServedAreEntitled == RolesSpec => ServedMeansEntitled
<1> DEFINE A == \A r \in Requests :
       pc[r] \in Steps /\ pc'[r] \in {"served", "done"} =>
         CASE Op(r).kind = "get" -> TRUE
           [] Op(r).kind = "write" -> credit[r] \cap {"writer", "admin"} # {}
           [] Op(r).kind = "bootstrap" -> "vacancy" \in credit[r]
           [] OTHER -> "admin" \in credit[r]
<1>1. IInv /\ [RolesNext]_vars => [A]_vars
  <2> SUFFICES ASSUME IInv, NEW p \in Requests, Handle(p) PROVE A
    BY DEF RolesNext
  <2> SUFFICES ASSUME NEW r \in Requests, pc[r] \in Steps, pc'[r] \in {"served", "done"}
               PROVE  CASE Op(r).kind = "get" -> TRUE
                        [] Op(r).kind = "write" -> credit[r] \cap {"writer", "admin"} # {}
                        [] Op(r).kind = "bootstrap" -> "vacancy" \in credit[r]
                        [] OTHER -> "admin" \in credit[r]
    OBVIOUS
  <2>1. Backed(Kind(r), pc'[r], credit[r])
    BY ServedStep
  <2> QED
    BY <2>1 DEF Backed, Kind
<1> QED
  BY IInvHolds, <1>1, PTL DEF RolesSpec, ServedMeansEntitled

\* No role changes but by the decision of an admin, or by a promotion of oneself that saw
\* a moment without one; logging in never changes a role (users.go:77-120).
THEOREM ChangesWereDecided == RolesSpec => ChangesAreDecided
<1> DEFINE A == \A e \in Emails : users'[e].role # users[e].role =>
       \/ ~Registered(e) /\ users'[e].role = "reviewer"
       \/ \E r \in Requests :
            /\ pc[r] \in {"write", "seed_write"} /\ pc'[r] # pc[r] /\ Target(r) = e
            /\ IF Promoting(r) THEN users'[e].role = "admin" /\ "vacancy" \in credit[r]
               ELSE users'[e].role = Op(r).role /\ "admin" \in credit[r]
<1>1. IInv /\ [RolesNext]_vars => [A]_vars
  <2> SUFFICES ASSUME IInv, NEW p \in Requests, Handle(p) PROVE A
    BY DEF RolesNext
  <2> QED
    BY ChangeStep
<1> QED
  BY IInvHolds, <1>1, PTL DEF RolesSpec, ChangesAreDecided

===============================================================================
