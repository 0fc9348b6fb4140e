------------------------------ MODULE CsvImport ------------------------------
(***************************************************************************)
(* The import of one bank CSV file into one bank account: runBankCsvImport *)
(* of src/src/index.js with the import journal of src/src/csv.js.  A call  *)
(* holds the import lock, reads the journal, asks QuickBooks about rows    *)
(* whose outcome is unknown, and posts the others in chunks, with an       *)
(* intent in the journal before each chunk and the outcomes after it.      *)
(*                                                                         *)
(* Abstractions.                                                           *)
(*   - Row stands for the money-out rows of the file.  A plan stands for   *)
(*     the resolved categories and the amount convention (plan_hash); it   *)
(*     changes when somebody edits the chart of accounts.                  *)
(*   - The import lock is that of OwnerLock seen through ExclusiveLock;    *)
(*     the short journal lock makes an append or a read one step.          *)
(*   - A batch reaches QuickBooks at most once (AtMostOnce of              *)
(*     WriteRecovery), maybe long after its call ended.                    *)
(*   - A scan for markers may miss rows (date range, indexing delay); a    *)
(*     truncated scan is one that fails.                                   *)
(***************************************************************************)
EXTENDS Naturals, FiniteSets

CONSTANTS
    Proc,          \* the calls, of one process or of several
    RowCount,      \* the number of money-out rows
    ChunkSize,     \* 30, the cap of a QuickBooks batch
    Plan,          \* plan hashes
    None,          \* nobody, no preview, no plan
    MaxFaults      \* bound on crashes and failed journal appends

ASSUME ImportAssumption ==
    /\ RowCount \in Nat \ {0}
    /\ ChunkSize \in Nat \ {0}
    /\ None \notin Proc \cup Plan
    /\ Plan # {}
    /\ MaxFaults \in Nat

Row == 1..RowCount

VARIABLES
    pc,            \* the next step of each call
    live,          \* an import rather than a preview (dry_run = false)
    plan,          \* the plan a call resolved
    found,         \* unconfirmed rows whose marker the call saw in QuickBooks
    todo,          \* the rows it still has to post
    chunk,         \* the rows of its current batch
    wire,          \* where that batch is
    accepted,      \* the rows of it that QuickBooks posted
    answer,        \* the rows the answer confirms and those it rejects
    holder,        \* who has the import lock
    row,           \* rowStates of the journal
    preview,       \* the plan of the newest preview in the journal
    torn,          \* the journal has a malformed line
    chart,         \* the plan the chart of accounts resolves to now
    strays,        \* batches on their way whose call is over
    books,         \* how often each row is posted in QuickBooks
    faults

journal == <<row, preview, torn>>
local   == <<live, plan, found, todo, chunk, wire, accepted, answer>>
vars    == <<pc, live, plan, found, todo, chunk, wire, accepted, answer, holder, row, preview, torn,
             chart, strays, books, faults>>

NoAnswer == [posted |-> {}, rejected |-> {}]

\* The type invariant; with it, no batch exceeds the cap of QuickBooks.
TypeOK ==
    /\ pc \in [Proc -> {"idle", "lock", "read", "scan", "heal", "plan", "intent", "send",
                        "await", "outcome", "dead"}]
    /\ live \in [Proc -> BOOLEAN]
    /\ plan \in [Proc -> Plan \cup {None}]
    /\ found \in [Proc -> SUBSET Row]
    /\ todo \in [Proc -> SUBSET Row]
    /\ chunk \in [Proc -> SUBSET Row]
    /\ \A p \in Proc : Cardinality(chunk[p]) <= ChunkSize
    /\ wire \in [Proc -> {"none", "traveling", "run"}]
    /\ accepted \in [Proc -> SUBSET Row]
    /\ answer \in [Proc -> [posted : SUBSET Row, rejected : SUBSET Row]]
    /\ holder \in Proc \cup {None}
    /\ row \in [Row -> {"none", "intended", "rejected", "posted"}]
    /\ preview \in Plan \cup {None}
    /\ torn \in BOOLEAN
    /\ chart \in Plan
    /\ strays \in SUBSET SUBSET Row
    /\ books \in [Row -> Nat]
    /\ faults \in 0..MaxFaults

Init ==
    /\ pc = [p \in Proc |-> "idle"]
    /\ live = [p \in Proc |-> FALSE]
    /\ plan = [p \in Proc |-> None]
    /\ found = [p \in Proc |-> {}]
    /\ todo = [p \in Proc |-> {}]
    /\ chunk = [p \in Proc |-> {}]
    /\ wire = [p \in Proc |-> "none"]
    /\ accepted = [p \in Proc |-> {}]
    /\ answer = [p \in Proc |-> NoAnswer]
    /\ holder = None
    /\ row = [r \in Row |-> "none"]
    /\ preview = None
    /\ torn = FALSE
    /\ chart \in Plan
    /\ strays = {}
    /\ books = [r \in Row |-> 0]
    /\ faults = 0
-----------------------------------------------------------------------------
RowsIn(state) == {r \in Row : row[r] = state}

Goto(p, s) == pc' = [pc EXCEPT ![p] = s]

\* The call returns or throws: the import lock is released, and a batch that was
\* not answered stays on its way.
Finish(p, s) ==
    /\ pc' = [pc EXCEPT ![p] = s]
    /\ live' = [live EXCEPT ![p] = FALSE]
    /\ plan' = [plan EXCEPT ![p] = None]
    /\ found' = [found EXCEPT ![p] = {}]
    /\ todo' = [todo EXCEPT ![p] = {}]
    /\ chunk' = [chunk EXCEPT ![p] = {}]
    /\ wire' = [wire EXCEPT ![p] = "none"]
    /\ accepted' = [accepted EXCEPT ![p] = {}]
    /\ answer' = [answer EXCEPT ![p] = NoAnswer]
    /\ holder' = IF holder = p THEN None ELSE holder
    /\ strays' = IF wire[p] = "traveling" THEN strays \cup {chunk[p]} ELSE strays

Start(p) ==
    /\ pc[p] = "idle"
    /\ \E b \in BOOLEAN : live' = [live EXCEPT ![p] = b]
    /\ Goto(p, "lock")
    /\ UNCHANGED <<plan, found, todo, chunk, wire, accepted, answer, holder, journal, chart, strays,
                   books, faults>>

\* Mutant of EnterLock: imports of one file are not serialized.
EnterUnlocked(p) ==
    /\ pc[p] = "lock"
    /\ holder' = p
    /\ plan' = [plan EXCEPT ![p] = chart]
    /\ Goto(p, "read")
    /\ UNCHANGED <<live, found, todo, chunk, wire, accepted, answer, journal, chart, strays, books,
                   faults>>

\* withImportLock; the categories are resolved inside.
EnterLock(p) ==
    /\ pc[p] = "lock"
    /\ holder = None
    /\ holder' = p
    /\ plan' = [plan EXCEPT ![p] = chart]
    /\ Goto(p, "read")
    /\ UNCHANGED <<live, found, todo, chunk, wire, accepted, answer, journal, chart, strays, books,
                   faults>>

\* Anything may fail before the next append: a query, a policy, a token, the wait
\* for the lock.  A failed qboRequest leaves its rows intended.
Fail(p) ==
    /\ pc[p] \in {"lock", "read", "scan", "plan", "send"}
    /\ Finish(p, "idle")
    /\ UNCHANGED <<journal, chart, books, faults>>
-----------------------------------------------------------------------------
(* Reading the journal and reconciling with QuickBooks                     *)

MayImport(p) == live[p] => preview = plan[p]

ReadJournal(p) ==
    /\ pc[p] = "read"
    /\ ~torn
    /\ MayImport(p)
    /\ todo' = [todo EXCEPT ![p] = Row \ RowsIn("posted")]
    /\ Goto(p, IF RowsIn("intended") # {} THEN "scan" ELSE "plan")
    /\ UNCHANGED <<live, plan, found, chunk, wire, accepted, answer, holder, journal, chart, strays,
                   books, faults>>

\* A malformed journal, or a plan that nobody previewed.
RefuseImport(p) ==
    /\ pc[p] = "read"
    /\ torn \/ ~MayImport(p)
    /\ Finish(p, "idle")
    /\ UNCHANGED <<journal, chart, books, faults>>

ScanMarkers(p) ==
    /\ pc[p] = "scan"
    /\ \E s \in SUBSET {r \in RowsIn("intended") : books[r] > 0} : found' = [found EXCEPT ![p] = s]
    /\ Goto(p, "heal")
    /\ UNCHANGED <<live, plan, todo, chunk, wire, accepted, answer, holder, journal, chart, strays,
                   books, faults>>

\* rowStates as the reader folds the records: posted is terminal.
Merge(r, state) == IF row[r] = "posted" THEN "posted" ELSE state

Record(rows, state) == row' = [r \in Row |-> IF r \in rows THEN Merge(r, state) ELSE row[r]]

\* Mutant of Heal: a row whose marker is not found is taken to be unposted.
HealAndGoOn(p) ==
    /\ pc[p] = "heal"
    /\ Record(found[p], "posted")
    /\ todo' = [todo EXCEPT ![p] = @ \ found[p]]
    /\ Goto(p, "plan")
    /\ UNCHANGED <<live, plan, found, chunk, wire, accepted, answer, holder, preview, torn, chart,
                   strays, books, faults>>

\* Rows found are journaled as posted.  When one is not found the call refuses:
\* its absence proves nothing.
Heal(p) ==
    /\ pc[p] = "heal"
    /\ Record(found[p], "posted")
    /\ IF RowsIn("intended") = found[p]
       THEN /\ todo' = [todo EXCEPT ![p] = @ \ found[p]]
            /\ Goto(p, "plan")
            /\ UNCHANGED <<live, plan, found, chunk, wire, accepted, answer, holder, strays>>
       ELSE Finish(p, "idle")
    /\ UNCHANGED <<preview, torn, chart, books, faults>>

RecordPreviewed(p) ==
    /\ pc[p] = "plan"
    /\ ~live[p]
    /\ preview' = plan[p]
    /\ Finish(p, "idle")
    /\ UNCHANGED <<row, torn, chart, books, faults>>

PlanImport(p) ==
    /\ pc[p] = "plan"
    /\ live[p]
    /\ todo[p] # {}
    /\ Goto(p, "intent")
    /\ UNCHANGED <<local, holder, journal, chart, strays, books, faults>>

NothingToImport(p) ==
    /\ pc[p] = "plan"
    /\ live[p]
    /\ todo[p] = {}
    /\ Finish(p, "idle")
    /\ UNCHANGED <<journal, chart, books, faults>>
-----------------------------------------------------------------------------
(* Posting                                                                 *)

\* Mutant of NextChunk: one row too many.
NextChunkAndOne(rows) == {r \in rows : Cardinality({q \in rows : q < r}) <= ChunkSize}

NextChunk(rows) == {r \in rows : Cardinality({q \in rows : q < r}) < ChunkSize}

RecordIntent(p) ==
    /\ pc[p] = "intent"
    /\ chunk' = [chunk EXCEPT ![p] = NextChunk(todo[p])]
    /\ Record(NextChunk(todo[p]), "intended")
    /\ Goto(p, "send")
    /\ UNCHANGED <<live, plan, found, todo, wire, accepted, answer, holder, preview, torn, chart,
                   strays, books, faults>>

SendBatch(p) ==
    /\ pc[p] = "send"
    /\ wire' = [wire EXCEPT ![p] = "traveling"]
    /\ Goto(p, "await")
    /\ UNCHANGED <<live, plan, found, todo, chunk, accepted, answer, holder, journal, chart, strays,
                   books, faults>>

\* HTTP 200: some rows are confirmed, some carry a Fault, some are missing.
Answer(p) ==
    /\ pc[p] = "await"
    /\ wire[p] = "run"
    /\ \E s \in SUBSET chunk[p] :
          answer' = [answer EXCEPT ![p] = [posted |-> s \cap accepted[p],
                                           rejected |-> s \ accepted[p]]]
    /\ Goto(p, "outcome")
    /\ UNCHANGED <<live, plan, found, todo, chunk, wire, accepted, holder, journal, chart, strays,
                   books, faults>>

\* qboRequest throws: a timeout, any other status, an unreadable body.
NoBatchAnswer(p) ==
    /\ pc[p] = "await"
    /\ Finish(p, "idle")
    /\ UNCHANGED <<journal, chart, books, faults>>

\* Mutant of Outcomes: every row without a Fault counts as posted.
OutcomesUnlessFault(p) ==
    [r \in Row |-> CASE r \in answer[p].rejected -> Merge(r, "rejected")
                     [] r \in chunk[p]           -> "posted"
                     [] OTHER                    -> row[r]]

\* Mutant of Outcomes: every row that is not confirmed counts as rejected.
OutcomesUnlessPosted(p) ==
    [r \in Row |-> CASE r \in answer[p].posted -> "posted"
                     [] r \in chunk[p]         -> Merge(r, "rejected")
                     [] OTHER                  -> row[r]]

Outcomes(p) ==
    [r \in Row |-> CASE r \in answer[p].posted   -> "posted"
                     [] r \in answer[p].rejected -> Merge(r, "rejected")
                     [] OTHER                    -> row[r]]

RecordBatchOutcomes(p) ==
    /\ pc[p] = "outcome"
    /\ row' = Outcomes(p)
    /\ IF todo[p] = chunk[p]
       THEN Finish(p, "idle")
       ELSE /\ todo' = [todo EXCEPT ![p] = @ \ chunk[p]]
            /\ chunk' = [chunk EXCEPT ![p] = {}]
            /\ wire' = [wire EXCEPT ![p] = "none"]
            /\ accepted' = [accepted EXCEPT ![p] = {}]
            /\ answer' = [answer EXCEPT ![p] = NoAnswer]
            /\ Goto(p, "intent")
            /\ UNCHANGED <<live, plan, found, holder, strays>>
    /\ UNCHANGED <<preview, torn, chart, books, faults>>
-----------------------------------------------------------------------------
(* Failed appends, crashes                                                 *)

\* What an append may leave in the journal when it fails, or when its process dies
\* in it: none, some or all of its lines, or a torn line, which every reader
\* refuses.  An intent and a preview are one line.
PartialAppend(p) ==
    \/ UNCHANGED journal
    \/ torn' = TRUE /\ UNCHANGED <<row, preview>>
    \/ /\ pc[p] = "heal"
       /\ \E s \in SUBSET found[p] : Record(s, "posted")
       /\ UNCHANGED <<preview, torn>>
    \/ /\ pc[p] = "intent"
       /\ Record(NextChunk(todo[p]), "intended")
       /\ UNCHANGED <<preview, torn>>
    \/ /\ pc[p] = "outcome"
       /\ \E s \in SUBSET chunk[p] :
             row' = [r \in Row |-> IF r \in s THEN Outcomes(p)[r] ELSE row[r]]
       /\ UNCHANGED <<preview, torn>>
    \/ /\ pc[p] = "plan"
       /\ ~live[p]
       /\ preview' = plan[p]
       /\ UNCHANGED <<row, torn>>

Appending(p) == pc[p] \in {"heal", "intent", "outcome"} \/ (pc[p] = "plan" /\ ~live[p])

AppendFails(p) ==
    /\ Appending(p)
    /\ faults < MaxFaults
    /\ faults' = faults + 1
    /\ PartialAppend(p)
    /\ Finish(p, "idle")
    /\ UNCHANGED <<chart, books>>

Crash(p) ==
    /\ pc[p] # "dead"
    /\ faults < MaxFaults
    /\ faults' = faults + 1
    /\ IF Appending(p) THEN PartialAppend(p) ELSE UNCHANGED journal
    /\ Finish(p, "dead")
    /\ UNCHANGED <<chart, books>>

\* All imports share one journal file: the append of another one is torn.
TornElsewhere ==
    /\ ~torn
    /\ faults < MaxFaults
    /\ faults' = faults + 1
    /\ torn' = TRUE
    /\ UNCHANGED <<pc, local, holder, row, preview, chart, strays, books>>

Restart(p) ==
    /\ pc[p] = "dead"
    /\ Goto(p, "idle")
    /\ UNCHANGED <<local, holder, journal, chart, strays, books, faults>>
-----------------------------------------------------------------------------
(* QuickBooks and its users                                                *)

Post(rows) == books' = [r \in Row |-> IF r \in rows THEN books[r] + 1 ELSE books[r]]

BatchArrives(p) ==
    /\ wire[p] = "traveling"
    /\ \E s \in SUBSET chunk[p] :
          /\ Post(s)
          /\ accepted' = [accepted EXCEPT ![p] = s]
    /\ wire' = [wire EXCEPT ![p] = "run"]
    /\ UNCHANGED <<pc, live, plan, found, todo, chunk, answer, holder, journal, chart, strays,
                   faults>>

\* A batch whose call is over still arrives, or never does.
StrayArrives ==
    /\ \E c \in strays, s \in SUBSET Row :
          /\ s \subseteq c
          /\ Post(s)
          /\ strays' = strays \ {c}
    /\ UNCHANGED <<pc, local, holder, journal, chart, faults>>

EditChart ==
    /\ \E h \in Plan \ {chart} : chart' = h
    /\ UNCHANGED <<pc, local, holder, journal, strays, books, faults>>
-----------------------------------------------------------------------------
Next ==
    \/ \E p \in Proc :
          \/ Start(p) \/ EnterLock(p) \/ Fail(p) \/ ReadJournal(p) \/ RefuseImport(p)
          \/ ScanMarkers(p) \/ Heal(p) \/ RecordPreviewed(p) \/ PlanImport(p)
          \/ NothingToImport(p) \/ RecordIntent(p) \/ SendBatch(p) \/ Answer(p)
          \/ NoBatchAnswer(p) \/ RecordBatchOutcomes(p) \/ AppendFails(p) \/ Crash(p)
          \/ Restart(p) \/ BatchArrives(p)
    \/ StrayArrives \/ EditChart \/ TornElsewhere

Spec == Init /\ [][Next]_vars
-----------------------------------------------------------------------------
\* However often an import is interrupted, repeated, run twice at once or answered
\* late, no row of the file is posted twice.
RowPostedOnce == \A r \in Row : books[r] <= 1

\* The journal calls a row posted only when it is in QuickBooks: a rerun that skips
\* the row loses nothing.
PostedIsInBooks == \A r \in Row : row[r] = "posted" => books[r] > 0

\* The journal calls a row rejected only when it is not in QuickBooks and nothing
\* on its way can still post it: a rerun may post it.
RejectedIsNotInBooks ==
    \A r \in Row : row[r] = "rejected" =>
        /\ books[r] = 0
        /\ \A c \in strays : r \notin c
        /\ \A p \in Proc : wire[p] = "traveling" => r \notin chunk[p]

\* What is sent is what the newest preview showed, whatever previews and edits of the
\* chart of accounts happened since the call compared the two.
SentAsPreviewed ==
    [][\A p \in Proc : pc[p] = "send" /\ pc'[p] = "await" => plan[p] = preview]_vars
=============================================================================
