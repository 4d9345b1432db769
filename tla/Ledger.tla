-------------------------------- MODULE Ledger --------------------------------
(***************************************************************************)
(* The group, expense, transfer and conversion services (http/routes/...)  *)
(* serving requests concurrently over one database.                        *)
(*                                                                         *)
(* Every request runs in a goroutine of its own (a thread here).  A        *)
(* handler first reads what it checks, each query by itself on the read    *)
(* pool; then it writes, either with one statement or in a transaction.    *)
(* The write pool has a single connection, so there is one writer at a     *)
(* time; readers see the committed database only.                          *)
(***************************************************************************)
EXTENDS Store, Sequences

CONSTANTS
    Threads,    \* requests in flight at a time
    Requests,   \* what the users may ask for
    Admins,     \* users with the admin role
    Start,      \* the databases a run may begin with
    Nobody      \* owner of the write connection when it is free

\* The requests of the API as far as they matter here.  "by" is the session's user
\* where a handler looks at it.
RowRequest(ops) == [op : ops, group : Groups, id : Rows]
ExpenseRequest(ops) == [op : ops, group : Groups, id : Rows, currency : Currencies,
                        payer : Users, beneficiaries : SUBSET Users]
TransferRequest(ops) == [op : ops, group : Groups, id : Rows, sender : Users,
                         receiver : Users]
ConversionRequest(ops) == [op : ops, group : Groups, id : Rows, from : Currencies,
                           to : Currencies]
\* Two entries of one group: a request for conversions has one group id, and the client
\* asks for several expenses only to record a receipt of one group.
TwoRequest(op, R) ==
    {r \in [op : {op}, group : Groups, first : R, second : R] :
         r.first.group = r.group /\ r.second.group = r.group}

GroupRequest ==
    [op : {"CreateExpenseGroup"}, group : Groups, user : Users, default : Currencies,
     currencies : SUBSET Currencies]
    \cup [op : {"UpdateGroup"}, group : Groups, default : Currencies,
          currencies : SUBSET Currencies]
    \cup [op : {"DeleteGroup"}, group : Groups, by : Users]
    \cup [op : {"SetGroupPinned", "SetGroupArchived"}, group : Groups, by : Users,
          on : BOOLEAN]
    \cup [op : {"AddUserToGroup", "RemoveUserFromGroup"}, group : Groups, user : Users]
    \cup [op : {"UpdateUserWeight"}, group : Groups, user : Users, weight : Weights]
    \cup [op : {"GetBalance"}, group : Groups]

EntryRequest ==
    ExpenseRequest({"CreateExpense", "UpdateExpense"})
    \cup TwoRequest("BulkCreateExpenses", ExpenseRequest({"CreateExpense"}))
    \cup TransferRequest({"CreateTransfer", "UpdateTransfer"})
    \cup ConversionRequest({"CreateConversion", "UpdateConversion"})
    \cup TwoRequest("CreateConversions", ConversionRequest({"CreateConversion"}))
    \cup RowRequest({"DeleteExpense", "DeleteTransfer", "DeleteConversion"})

ASSUME LedgerAssumption ==
    /\ Nobody \notin Threads
    /\ Start \subseteq Database
    /\ \A d \in Start : NoOrphans(d) /\ KeysUnique(d) /\ OnePayer(d) /\ DefaultListed(d)
    /\ Requests \subseteq GroupRequest \cup EntryRequest

VARIABLES
    db,       \* what is committed
    conn,     \* the thread that owns the write connection, or Nobody
    staged,   \* the database as the open transaction sees it
    thr,      \* what each thread is doing
    issued,   \* the ids handed out so far: a uuid is never given twice
    seen,     \* what a thread that computes a balance has read
    since     \* history: what was true since a thread's request arrived

vars == <<db, conn, staged, thr, issued, seen, since>>

----------------------------------------------------------------------------
\* What each handler checks, and the statements it runs if nothing is wrong.  With
\* tx they form a transaction; a handler without runs one statement.

Do(query, args) == [query |-> query, args |-> args]
Direct(checks, query, r) == [checks |-> checks, tx |-> FALSE, sql |-> <<Do(query, r)>>]
InTx(checks, sql) == [checks |-> checks, tx |-> TRUE, sql |-> sql]

NotArchived(r)    == [check |-> "NotArchived", group |-> r.group]
Member(r, u)      == [check |-> "Member", group |-> r.group, user |-> u]
NotMember(r)      == [check |-> "NotMember", group |-> r.group, user |-> r.user]
TransferExists(r) == [check |-> "TransferExists", id |-> r.id]
Creator(r)        == [check |-> "Creator", group |-> r.group, user |-> r.by]
CreatorOrAdmin(r) == [check |-> "CreatorOrAdmin", group |-> r.group, user |-> r.by]
Valid(condition)  == [check |-> "Valid", holds |-> condition]

\* http/routes/group/group.go

HandleCreateExpenseGroup(r) ==
    InTx(<<>>, <<Do("CreateGroup", r), Do("AddUserToGroup", r),
                 Do("DefaultIsSelected", r), Do("BulkAddGroupCurrencies", r)>>)

\* Mutant: the currencies are cleared too late.
HandleUpdateGroupClearsLast(r) ==
    InTx(<<NotArchived(r), Valid(r.default \in r.currencies)>>,
         <<Do("UpdateGroup", r), Do("BulkAddGroupCurrencies", r),
           Do("ClearGroupCurrencies", r)>>)

HandleUpdateGroup(r) ==
    InTx(<<NotArchived(r), Valid(r.default \in r.currencies)>>,
         <<Do("UpdateGroup", r), Do("ClearGroupCurrencies", r),
           Do("BulkAddGroupCurrencies", r)>>)

HandleDeleteGroup(r) == Direct(<<Creator(r)>>, "DeleteGroup", r)

HandleAddUserToGroup(r) ==
    Direct(<<NotMember(r), NotArchived(r)>>, "AddUserToGroup", r)

\* Mutant: the archived check forgotten.
HandleRemoveUserUnchecked(r) == Direct(<<>>, "RemoveUserFromGroup", r)

HandleRemoveUserFromGroup(r) == Direct(<<NotArchived(r)>>, "RemoveUserFromGroup", r)

HandleUpdateUserWeight(r) ==
    Direct(<<NotArchived(r), Member(r, r.user)>>, "UpdateUserWeight", r)

HandleSetGroupPinned(r) == Direct(<<NotArchived(r)>>, "SetGroupPinned", r)

HandleSetGroupArchived(r) == Direct(<<CreatorOrAdmin(r)>>, "SetGroupArchived", r)

\* http/routes/expense/expense.go

\* Mutant: the payer forgotten.
CreateExpenseTxWithoutPayer(r) ==
    <<Do("CreateExpense", r), Do("CreateExpenseBeneficiariesBatch", r)>>

CreateExpenseTx(r) ==
    <<Do("CreateExpense", r), Do("CreateExpensePayer", r),
      Do("CreateExpenseBeneficiariesBatch", r)>>

HandleCreateExpense(r) == InTx(<<NotArchived(r)>>, CreateExpenseTx(r))

\* As the receipt page asks for them: expenses of one group, here two.
HandleBulkCreateExpenses(r) ==
    InTx(<<NotArchived(r)>>, CreateExpenseTx(r.first) \o CreateExpenseTx(r.second))

\* Mutant: the archived check forgotten.
HandleUpdateExpenseUnchecked(r) ==
    InTx(<<>>, <<Do("UpdateExpense", r), Do("UpdateExpensePayer", r),
                 Do("DeleteExpenseBeneficiaries", r),
                 Do("CreateExpenseBeneficiariesBatch", r)>>)

HandleUpdateExpense(r) ==
    InTx(<<NotArchived(r)>>,
         <<Do("UpdateExpense", r), Do("UpdateExpensePayer", r),
           Do("DeleteExpenseBeneficiaries", r),
           Do("CreateExpenseBeneficiariesBatch", r)>>)

HandleDeleteExpense(r) == Direct(<<NotArchived(r)>>, "DeleteExpense", r)

\* http/routes/transfer/transfer.go

HandleCreateTransfer(r) ==
    Direct(<<NotArchived(r), Member(r, r.sender), Member(r, r.receiver),
             Valid(r.sender # r.receiver)>>, "CreateTransfer", r)

\* Mutant: only the receiver is checked.
HandleUpdateTransferAnySender(r) ==
    Direct(<<NotArchived(r), TransferExists(r), Member(r, r.receiver),
             Valid(r.sender # r.receiver)>>, "UpdateTransfer", r)

HandleUpdateTransfer(r) ==
    Direct(<<NotArchived(r), TransferExists(r), Member(r, r.sender),
             Member(r, r.receiver), Valid(r.sender # r.receiver)>>, "UpdateTransfer", r)

HandleDeleteTransfer(r) == Direct(<<NotArchived(r)>>, "DeleteTransfer", r)

\* http/routes/conversion/conversion.go

HandleCreateConversion(r) ==
    Direct(<<NotArchived(r), Valid(r.from # r.to)>>, "CreateCurrencyConversion", r)

\* Here two conversions at once, into the same currency.
HandleCreateConversions(r) ==
    InTx(<<NotArchived(r), Valid(r.first.from # r.first.to /\ r.second.from # r.second.to)>>,
         <<Do("CreateCurrencyConversion", r.first), Do("CreateCurrencyConversion", r.second)>>)

HandleUpdateConversion(r) ==
    Direct(<<NotArchived(r), Valid(r.from # r.to)>>, "UpdateCurrencyConversion", r)

HandleDeleteConversion(r) == Direct(<<NotArchived(r)>>, "DeleteCurrencyConversion", r)

Handler(r) ==
    CASE r.op = "CreateExpenseGroup"  -> HandleCreateExpenseGroup(r)
      [] r.op = "UpdateGroup"         -> HandleUpdateGroup(r)
      [] r.op = "DeleteGroup"         -> HandleDeleteGroup(r)
      [] r.op = "AddUserToGroup"      -> HandleAddUserToGroup(r)
      [] r.op = "RemoveUserFromGroup" -> HandleRemoveUserFromGroup(r)
      [] r.op = "UpdateUserWeight"    -> HandleUpdateUserWeight(r)
      [] r.op = "SetGroupPinned"      -> HandleSetGroupPinned(r)
      [] r.op = "SetGroupArchived"    -> HandleSetGroupArchived(r)
      [] r.op = "CreateExpense"       -> HandleCreateExpense(r)
      [] r.op = "BulkCreateExpenses"  -> HandleBulkCreateExpenses(r)
      [] r.op = "UpdateExpense"       -> HandleUpdateExpense(r)
      [] r.op = "DeleteExpense"       -> HandleDeleteExpense(r)
      [] r.op = "CreateTransfer"      -> HandleCreateTransfer(r)
      [] r.op = "UpdateTransfer"      -> HandleUpdateTransfer(r)
      [] r.op = "DeleteTransfer"      -> HandleDeleteTransfer(r)
      [] r.op = "CreateConversion"    -> HandleCreateConversion(r)
      [] r.op = "CreateConversions"   -> HandleCreateConversions(r)
      [] r.op = "UpdateConversion"    -> HandleUpdateConversion(r)
      [] r.op = "DeleteConversion"    -> HandleDeleteConversion(r)

----------------------------------------------------------------------------
\* Checks and statements

CreatedBy(d, g, u) == \E r \in d.groups : r.id = g /\ r.creator = u

Passes(c, d) ==
    CASE c.check = "NotArchived"    -> ~ IsGroupArchived(d, c.group)
      [] c.check = "Member"         -> IsUserInGroup(d, c.group, c.user)
      [] c.check = "NotMember"      -> ~ IsUserInGroup(d, c.group, c.user)
      [] c.check = "TransferExists" -> c.id \in IdsOf(d.transfers)
      [] c.check = "Creator"        -> CreatedBy(d, c.group, c.user)
      [] c.check = "CreatorOrAdmin" -> /\ GroupExists(d, c.group)
                                       /\ CreatedBy(d, c.group, c.user) \/ c.user \in Admins
      [] c.check = "Valid"          -> c.holds

\* What the statement makes of the database.
Run(s, d) ==
    LET a == s.args
    IN CASE s.query = "CreateGroup"              -> CreateGroup(d, a.group, a.user, a.default)
         [] s.query = "UpdateGroup"              -> UpdateGroup(d, a.group, a.default)
         [] s.query = "SetGroupArchived"         -> SetGroupArchived(d, a.group, a.on)
         [] s.query = "DeleteGroup"              -> DeleteGroup(d, a.group)
         [] s.query = "AddUserToGroup"           -> AddUserToGroup(d, a.group, a.user)
         [] s.query = "RemoveUserFromGroup"      -> RemoveUserFromGroup(d, a.group, a.user)
         [] s.query = "UpdateUserWeight"         -> UpdateUserWeight(d, a.group, a.user, a.weight)
         [] s.query = "SetGroupPinned"           -> SetGroupPinned(d, a.group, a.by, a.on)
         [] s.query = "ClearGroupCurrencies"     -> ClearGroupCurrencies(d, a.group)
         [] s.query = "BulkAddGroupCurrencies"   -> BulkAddGroupCurrencies(d, a.group, a.currencies)
         [] s.query = "DefaultIsSelected"        -> d
         [] s.query = "CreateExpense"            -> CreateExpense(d, a.id, a.group, a.currency)
         [] s.query = "CreateExpensePayer"       -> CreateExpensePayer(d, a.id, a.payer)
         [] s.query = "CreateExpenseBeneficiariesBatch" ->
                CreateExpenseBeneficiariesBatch(d, a.id, a.beneficiaries)
         [] s.query = "UpdateExpense"            -> UpdateExpense(d, a.id, a.currency)
         [] s.query = "UpdateExpensePayer"       -> UpdateExpensePayer(d, a.id, a.payer)
         [] s.query = "DeleteExpenseBeneficiaries" -> DeleteExpenseBeneficiaries(d, a.id)
         [] s.query = "DeleteExpense"            -> DeleteExpense(d, a.id)
         [] s.query = "CreateTransfer"           -> CreateTransfer(d, a.id, a.group, a.sender, a.receiver)
         [] s.query = "UpdateTransfer"           -> UpdateTransfer(d, a.id, a.sender, a.receiver)
         [] s.query = "DeleteTransfer"           -> DeleteTransfer(d, a.id)
         [] s.query = "CreateCurrencyConversion" -> CreateCurrencyConversion(d, a.id, a.group, a.from, a.to)
         [] s.query = "UpdateCurrencyConversion" -> UpdateCurrencyConversion(d, a.id, a.from, a.to)
         [] s.query = "DeleteCurrencyConversion" -> DeleteCurrencyConversion(d, a.id)

\* Mutants: a primary key, or the foreign keys, missing from the schema.
NoKey(s, d) == TRUE
NoForeignKeys(s, d) == TRUE

\* PRIMARY KEY: nobody has the key of a row to insert.
KeyIsFree(s, d) ==
    LET a == s.args
    IN  /\ s.query = "CreateGroup" => ~ GroupExists(d, a.group)
        /\ s.query = "AddUserToGroup" => ~ IsUserInGroup(d, a.group, a.user)
        /\ s.query = "BulkAddGroupCurrencies" =>
               \A c \in a.currencies : [group |-> a.group, currency |-> c] \notin d.currencies
        /\ s.query = "CreateExpense" => a.id \notin IdsOf(d.expenses)
        /\ s.query = "CreateTransfer" => a.id \notin IdsOf(d.transfers)
        /\ s.query = "CreateCurrencyConversion" => a.id \notin IdsOf(d.conversions)

\* FOREIGN KEY: the row that a row to insert refers to is there.
ParentExists(s, d) ==
    LET a == s.args
    IN  /\ s.query \in {"AddUserToGroup", "BulkAddGroupCurrencies", "CreateExpense",
                        "CreateTransfer", "CreateCurrencyConversion"} => GroupExists(d, a.group)
        /\ s.query = "CreateExpensePayer" => a.id \in IdsOf(d.expenses)
        /\ s.query = "CreateExpenseBeneficiariesBatch" =>
               a.beneficiaries = {} \/ a.id \in IdsOf(d.expenses)

\* UPDATE ... RETURNING must return a row.
RowReturned(s, d) ==
    LET a == s.args
    IN  /\ s.query = "UpdateGroup" => GroupExists(d, a.group)
        /\ s.query = "UpdateExpense" => a.id \in IdsOf(d.expenses)
        /\ s.query = "UpdateTransfer" => a.id \in IdsOf(d.transfers)
        /\ s.query = "UpdateCurrencyConversion" => a.id \in IdsOf(d.conversions)

\* No error: neither SQLite's nor, in the middle of CreateExpenseGroup, the handler's.
Accepted(s, d) ==
    /\ KeyIsFree(s, d) /\ ParentExists(s, d) /\ RowReturned(s, d)
    /\ s.query = "DefaultIsSelected" => s.args.default \in s.args.currencies

----------------------------------------------------------------------------
\* Threads

Idle == [phase |-> "idle"]
Busy(t) == thr[t].phase # "idle"
At(t, phase) == thr[t].phase = phase

\* History of a request: groups that have been archived ever since it arrived, and
\* users who were members of its group at some moment.
Nothing == [frozen |-> {}, met |-> {}]
ArchivedGroups(d) == {g \in IdsOf(d.groups) : IsGroupArchived(d, g)}

Unread == [members |-> {}, parties |-> {}]

\* Mutant: an error path that does not roll back.
StillOpen == UNCHANGED <<conn, staged>>

\* The transaction is over and the write connection free again.
Closed == conn' = Nobody /\ staged' = EmptyDatabase

\* Thread t ends its request, whatever the answer.
End(t) ==
    /\ thr' = [thr EXCEPT ![t] = Idle]
    /\ seen' = [seen EXCEPT ![t] = Unread]

\* Thread t's request ends by making d the committed database.
EndWith(t, d) ==
    /\ End(t)
    /\ db' = d
    /\ since' = [u \in Threads |->
           IF u = t \/ ~ Busy(u) THEN Nothing
           ELSE [frozen |-> since[u].frozen \cap ArchivedGroups(d),
                 met |-> since[u].met \cup MembersOf(d, thr[u].req.group)]]

EndUnchanged(t) ==
    /\ End(t)
    /\ since' = [since EXCEPT ![t] = Nothing]
    /\ UNCHANGED db

\* The ids a request brings into being.
NewIds(r) ==
    CASE r.op = "CreateExpenseGroup" -> {r.group}
      [] r.op \in {"CreateExpense", "CreateTransfer", "CreateConversion"} -> {r.id}
      [] r.op \in {"BulkCreateExpenses", "CreateConversions"} -> {r.first.id, r.second.id}
      [] OTHER -> {}

\* Users ask for what the pages they look at offer: their groups, the rows in them
\* and, for a payer or a beneficiary, the members.  A page may be stale by the time
\* the server reads.
Offers(d, r) ==
    CASE r.op = "CreateExpenseGroup" -> TRUE
      [] r.op = "CreateExpense" ->
             {r.payer} \cup r.beneficiaries \subseteq MembersOf(d, r.group)
      [] r.op = "BulkCreateExpenses" ->
             \A e \in {r.first, r.second} :
                 {e.payer} \cup e.beneficiaries \subseteq MembersOf(d, e.group)
      [] r.op = "UpdateExpense" ->
             /\ r.id \in IdsOf(InGroup(d.expenses, r.group))
             /\ {r.payer} \cup r.beneficiaries \subseteq MembersOf(d, r.group)
      [] r.op = "DeleteExpense" -> r.id \in IdsOf(InGroup(d.expenses, r.group))
      [] r.op \in {"UpdateTransfer", "DeleteTransfer"} ->
             r.id \in IdsOf(InGroup(d.transfers, r.group))
      [] r.op \in {"UpdateConversion", "DeleteConversion"} ->
             r.id \in IdsOf(InGroup(d.conversions, r.group))
      [] OTHER -> GroupExists(d, r.group)

----------------------------------------------------------------------------
\* Steps

Init ==
    /\ db \in Start
    /\ conn = Nobody
    /\ staged = EmptyDatabase
    /\ thr = [t \in Threads |-> Idle]
    /\ issued = IdsOf(db.groups) \cup IdsOf(db.expenses) \cup IdsOf(db.transfers)
                    \cup IdsOf(db.conversions)
    /\ seen = [t \in Threads |-> Unread]
    /\ since = [t \in Threads |-> Nothing]

Receive(t, r) ==
    /\ ~ Busy(t)
    /\ Offers(db, r)
    /\ NewIds(r) \cap issued = {}
    /\ thr' = [thr EXCEPT ![t] =
           [phase |-> IF r.op = "GetBalance" THEN "members" ELSE "checking",
            req |-> r, step |-> 1]]
    /\ issued' = issued \cup NewIds(r)
    /\ since' = [since EXCEPT ![t] = [frozen |-> ArchivedGroups(db),
                                      met |-> MembersOf(db, r.group)]]
    /\ UNCHANGED <<db, conn, staged, seen>>

\* The next check of the handler, against what is committed right now.
Check(t) ==
    /\ At(t, "checking")
    /\ LET checks == Handler(thr[t].req).checks
       IN  /\ thr[t].step <= Len(checks)
           /\ \/ /\ Passes(checks[thr[t].step], db)
                 /\ thr' = [thr EXCEPT ![t].step = @ + 1]
                 /\ UNCHANGED <<db, seen, since>>
              \/ /\ ~ Passes(checks[thr[t].step], db)
                 /\ EndUnchanged(t)
    /\ UNCHANGED <<conn, staged, issued>>

Checked(t) == At(t, "checking") /\ thr[t].step > Len(Handler(thr[t].req).checks)

\* Mutant: the write pool has room for a second connection.
BeginAnyway(t) ==
    /\ Checked(t)
    /\ Handler(thr[t].req).tx
    /\ conn' = t
    /\ staged' = db
    /\ thr' = [thr EXCEPT ![t].phase = "writing", ![t].step = 1]
    /\ UNCHANGED <<db, issued, seen, since>>

\* BeginTx: the write connection is free.  _txlock=immediate takes the lock at once,
\* so what the transaction starts from cannot change under it.
Begin(t) ==
    /\ Checked(t)
    /\ Handler(thr[t].req).tx
    /\ conn = Nobody
    /\ conn' = t
    /\ staged' = db
    /\ thr' = [thr EXCEPT ![t].phase = "writing", ![t].step = 1]
    /\ UNCHANGED <<db, issued, seen, since>>

\* The transaction's next statement; an error rolls everything back.
Statement(t) ==
    /\ At(t, "writing")
    /\ LET sql == Handler(thr[t].req).sql
       IN  /\ thr[t].step <= Len(sql)
           /\ \/ /\ Accepted(sql[thr[t].step], staged)
                 /\ staged' = Run(sql[thr[t].step], staged)
                 /\ thr' = [thr EXCEPT ![t].step = @ + 1]
                 /\ UNCHANGED <<db, conn, seen, since>>
              \/ /\ ~ Accepted(sql[thr[t].step], staged)
                 /\ Closed
                 /\ EndUnchanged(t)
    /\ UNCHANGED issued

Commit(t) ==
    /\ At(t, "writing")
    /\ thr[t].step > Len(Handler(thr[t].req).sql)
    /\ EndWith(t, staged)
    /\ Closed
    /\ UNCHANGED issued

\* A handler without a transaction: the statement is one by itself.
Write(t) ==
    /\ Checked(t)
    /\ ~ Handler(thr[t].req).tx
    /\ conn = Nobody
    /\ LET s == Handler(thr[t].req).sql[1]
       IN  \/ Accepted(s, db) /\ EndWith(t, Run(s, db))
           \/ ~ Accepted(s, db) /\ EndUnchanged(t)
    /\ UNCHANGED <<conn, staged, issued>>

\* Mutant: what the transaction staged so far is committed.
GiveUpKeepingHalf(t) ==
    /\ Busy(t)
    /\ IF conn = t THEN Closed /\ EndWith(t, staged)
                   ELSE EndUnchanged(t) /\ UNCHANGED <<conn, staged>>
    /\ UNCHANGED issued

\* A query fails, or the client is gone and its context cancelled: the handler
\* returns and the deferred Rollback drops what it staged.
GiveUp(t) ==
    /\ Busy(t)
    /\ IF conn = t THEN Closed ELSE UNCHANGED <<conn, staged>>
    /\ EndUnchanged(t)
    /\ UNCHANGED issued

\* The server stops and starts again; the write-ahead log keeps what was committed.
Crash ==
    /\ Closed
    /\ thr' = [t \in Threads |-> Idle]
    /\ seen' = [t \in Threads |-> Unread]
    /\ since' = [t \in Threads |-> Nothing]
    /\ UNCHANGED <<db, issued>>

\* GetUserGroups, GetSettlementSuggestions and GetGroupStats compute balances from
\* rows read by separate queries: members, then expenses, then transfers.
ReadMembers(t) ==
    /\ At(t, "members")
    /\ seen' = [seen EXCEPT ![t].members = MembersOf(db, thr[t].req.group)]
    /\ thr' = [thr EXCEPT ![t].phase = "expenses"]
    /\ UNCHANGED <<db, conn, staged, issued, since>>

\* Those an expense concerns; one none of whose beneficiaries is a member is skipped.
PartiesOf(d, e, members) ==
    LET for == {b.user : b \in {b \in d.beneficiaries : b.expense = e.id}}
    IN  IF for \cap members = {} THEN {}
        ELSE for \cup {p.user : p \in {p \in d.payers : p.expense = e.id}}

ReadExpenses(t) ==
    /\ At(t, "expenses")
    /\ seen' = [seen EXCEPT ![t].parties =
           UNION {PartiesOf(db, e, seen[t].members) :
                      e \in InGroup(db.expenses, thr[t].req.group)}]
    /\ thr' = [thr EXCEPT ![t].phase = "transfers"]
    /\ UNCHANGED <<db, conn, staged, issued, since>>

ReadTransfers(t) ==
    /\ At(t, "transfers")
    /\ seen' = [seen EXCEPT ![t].parties = @ \cup
           UNION {{r.sender, r.receiver} : r \in InGroup(db.transfers, thr[t].req.group)}]
    /\ thr' = [thr EXCEPT ![t].phase = "computing"]
    /\ UNCHANGED <<db, conn, staged, issued, since>>

\* ComputeGroupBalance: a balance is written for everyone concerned, into the map
\* that has an entry for each member.
Panics(t) == At(t, "computing") /\ ~ (seen[t].parties \subseteq seen[t].members)

Answer(t) ==
    /\ At(t, "computing")
    /\ EndUnchanged(t)
    /\ UNCHANGED <<conn, staged, issued>>

Next ==
    \/ \E t \in Threads :
           \/ \E r \in Requests : Receive(t, r)
           \/ Check(t) \/ Begin(t) \/ Statement(t) \/ Commit(t) \/ Write(t)
           \/ ReadMembers(t) \/ ReadExpenses(t) \/ ReadTransfers(t) \/ Answer(t)
           \/ GiveUp(t)
    \/ Crash

Spec == Init /\ [][Next]_vars

\* Goroutines are scheduled, and a query ends.  The write connection is contended:
\* database/sql hands it to a waiting request, not always to the same one.
Fairness ==
    \A t \in Threads :
        /\ WF_vars(Check(t) \/ Statement(t) \/ Commit(t))
        /\ WF_vars(ReadMembers(t) \/ ReadExpenses(t) \/ ReadTransfers(t) \/ Answer(t))
        /\ SF_vars(Begin(t) \/ Write(t))

FairSpec == Spec /\ Fairness

----------------------------------------------------------------------------
\* Properties

TypeOK ==
    /\ db \in Database /\ staged \in Database
    /\ conn \in Threads \cup {Nobody}
    /\ \A t \in Threads :
           /\ Busy(t) => thr[t].req \in Requests /\ thr[t].step \in Nat
           /\ At(t, "writing") <=> conn = t
    /\ issued \subseteq Groups \cup Rows

\* The foreign keys hold in the committed database, through cascades and rollbacks.
StoredRowsHaveParents == NoOrphans(db)

\* No two rows share a primary key, even when two requests both found it free.
StoredKeysUnique == KeysUnique(db)

\* An expense is never seen without its payer, nor with two.
StoredExpensesComplete == OnePayer(db)

\* CreateExpenseGroup and UpdateGroup: "default currency must be one of the selected
\* currencies", also when two updates of a group overlap.
StoredDefaultListed == DefaultListed(db)

\* The pages of the book that the tables of d amount to: an expense with its payer
\* and beneficiaries.  Every expense has one payer (StoredExpensesComplete).
PayersOf(d, i) == {p.user : p \in {p \in d.payers : p.expense = i}}
BeneficiariesOf(d, i) == {b.user : b \in {b \in d.beneficiaries : b.expense = i}}
Sole(U) == CHOOSE u \in Users : U = {u}

MembershipOf(r) == [user |-> r.user, weight |-> r.weight, pinned |-> r.pinned]
ExpenseOf(d, r) == [id |-> r.id, currency |-> r.currency, payer |-> Sole(PayersOf(d, r.id)),
                    for |-> BeneficiariesOf(d, r.id)]
TransferOf(r) == [id |-> r.id, sender |-> r.sender, receiver |-> r.receiver]
ConversionOf(r) == [id |-> r.id, from |-> r.from, to |-> r.to]

PageOf(d, row) ==
    LET g == row.id
    IN  [creator |-> row.creator, default |-> row.default, archived |-> row.archived,
         currencies |-> {r.currency : r \in InGroup(d.currencies, g)},
         members |-> {MembershipOf(r) : r \in InGroup(d.members, g)},
         expenses |-> {ExpenseOf(d, r) : r \in InGroup(d.expenses, g)},
         transfers |-> {TransferOf(r) : r \in InGroup(d.transfers, g)},
         conversions |-> {ConversionOf(r) : r \in InGroup(d.conversions, g)}]

BookOf(d) ==
    [g \in IdsOf(d.groups) |-> PageOf(d, CHOOSE row \in d.groups : row.id = g)]

\* What is committed is a group book: every request changes it at once and as a
\* whole, whatever runs at the same time, fails or is cut short by a crash.
Book == INSTANCE GroupBook WITH book <- BookOf(db)

ImplementsGroupBook == Book!Spec

\* What a group and its contents consist of.
RowsOf(d, g) ==
    LET ids == IdsOf(InGroup(d.expenses, g))
    IN  <<{r \in d.groups : r.id = g}, InGroup(d.members, g), InGroup(d.currencies, g),
          InGroup(d.expenses, g), {r \in d.payers : r.expense \in ids},
          {r \in d.beneficiaries : r.expense \in ids},
          InGroup(d.transfers, g), InGroup(d.conversions, g)>>

\* A request that arrives while a group is archived leaves the group alone as long
\* as it stays archived, unless it unarchives or deletes it (AssertGroupNotArchived).
FrozenSinceReceived ==
    [][\A t \in Threads :
        (Busy(t) /\ ~ Busy(t)' /\ thr[t].req.op \notin {"SetGroupArchived", "DeleteGroup"}) =>
            \A g \in since[t].frozen : RowsOf(db', g) = RowsOf(db, g)]_vars

\* Who sends and who receives a transfer are two different users who both were
\* members of the group while it was being recorded.
TransfersBetweenMembers ==
    [][\A t \in Threads : (Busy(t) /\ ~ Busy(t)') =>
        \A r \in db'.transfers \ db.transfers :
            /\ r.sender # r.receiver
            /\ {r.sender, r.receiver} \subseteq since[t].met]_vars

\* Nobody waits for ever: every request is answered, the write connection is always
\* given back.
EveryRequestAnswered == \A t \in Threads : Busy(t) ~> ~ Busy(t)

\* helpers/group.go, "Archived groups are read-only": no group changes while it is
\* archived, unless it is unarchived or deleted.
ArchivedIsReadOnly ==
    [][\A g \in ArchivedGroups(db) :
        g \in ArchivedGroups(db') => RowsOf(db', g) = RowsOf(db, g)]_vars

\* calc/balance.go, ComputeGroupBalance "replays every action": it never meets one
\* that it cannot apply.
EveryActionReplayed == \A t \in Threads : ~ Panics(t)

=============================================================================
