--------------------------- MODULE CsvImportProofs ---------------------------
(***************************************************************************)
(* The safety of the CSV import for any number of calls, rows, plans,      *)
(* crashes and failed journal appends, and any chunk size.                 *)
(***************************************************************************)
EXTENDS CsvImport, FiniteSetTheorems, WellFoundedInduction, TLAPS

USE ImportAssumption

\* TypeOK without the size of a chunk, the torn line and the faults: Bounded.
TypeInv ==
    /\ pc \in [Proc -> {"idle", "lock", "read", "scan", "heal", "plan", "intent", "send",
                        "await", "outcome", "dead"}]
    /\ live \in [Proc -> BOOLEAN]
    /\ plan \in [Proc -> Plan \cup {None}]
    /\ found \in [Proc -> SUBSET Row]
    /\ todo \in [Proc -> SUBSET Row]
    /\ chunk \in [Proc -> SUBSET Row]
    /\ wire \in [Proc -> {"none", "traveling", "run"}]
    /\ accepted \in [Proc -> SUBSET Row]
    /\ answer \in [Proc -> [posted : SUBSET Row, rejected : SUBSET Row]]
    /\ holder \in Proc \cup {None}
    /\ row \in [Row -> {"none", "intended", "rejected", "posted"}]
    /\ preview \in Plan \cup {None}
    /\ chart \in Plan
    /\ strays \in SUBSET SUBSET Row
    /\ books \in [Row -> Nat]

\* Only the holder of the import lock is past "lock", and a batch is somewhere
\* only while its call waits for it.
Inside == {"read", "scan", "heal", "plan", "intent", "send", "await", "outcome"}
Exclusive == \A p \in Proc :
    /\ pc[p] \in Inside => holder = p
    /\ wire[p] # "none" => pc[p] \in {"await", "outcome"}
    /\ pc[p] = "await" => wire[p] # "none"
    /\ pc[p] = "outcome" => wire[p] = "run"

\* The row may be on its way to QuickBooks without a call that can name it.
Adrift(r) == \E c \in strays : r \in c

\* A row the journal holds to be open is neither in the books nor adrift; one
\* that is adrift is intended, in no book, and in one batch only.
OpenRows == RowsIn("none") \cup RowsIn("rejected")
Accounted ==
    /\ \A r \in Row :
          /\ books[r] <= 1
          /\ r \in OpenRows => books[r] = 0 /\ ~Adrift(r)
          /\ Adrift(r) => books[r] = 0
          /\ row[r] = "posted" => books[r] = 1
    /\ \A c, d \in strays : c # d => c \cap d = {}

\* What a call knows of its rows stays true while it holds the lock.
Knows == \A p \in Proc :
    /\ pc[p] = "heal" => \A r \in found[p] : row[r] = "intended" /\ books[r] = 1
    /\ pc[p] \in {"scan", "heal"} => todo[p] = Row \ RowsIn("posted")
    /\ pc[p] \in {"plan", "intent"} => todo[p] \subseteq OpenRows
    /\ pc[p] \in {"send", "await", "outcome"} =>
          /\ chunk[p] \subseteq todo[p]
          /\ todo[p] \ chunk[p] \subseteq OpenRows
          /\ \A r \in chunk[p] : row[r] = "intended" /\ ~Adrift(r)
    /\ pc[p] = "send" \/ wire[p] = "traveling" => \A r \in chunk[p] : books[r] = 0
    /\ wire[p] = "run" =>
          /\ accepted[p] \subseteq chunk[p]
          /\ \A r \in chunk[p] : books[r] = IF r \in accepted[p] THEN 1 ELSE 0
    /\ pc[p] = "outcome" =>
          /\ answer[p].posted \subseteq accepted[p]
          /\ answer[p].rejected \subseteq chunk[p] \ accepted[p]

\* A live call past the comparison still agrees with the newest preview.
Previewed == \A p \in Proc :
    /\ pc[p] \in {"intent", "send", "await", "outcome"} => live[p]
    /\ pc[p] \in Inside \ {"read"} /\ live[p] => plan[p] = preview

\* The outcomes of some rows of the batch of p are recorded.
OutcomesOf(p, s) == row' = [r \in Row |-> IF r \in s THEN Outcomes(p)[r] ELSE row[r]]
-----------------------------------------------------------------------------
\* What a failed append leaves, one case per kind of record.
LEMMA PartialAppendCases ==
  ASSUME NEW p \in Proc, PartialAppend(p)
  PROVE  \/ UNCHANGED <<row, preview>>
         \/ /\ pc[p] = "heal" /\ UNCHANGED preview
            /\ \E s \in SUBSET found[p] : Record(s, "posted")
         \/ pc[p] = "intent" /\ Record(NextChunk(todo[p]), "intended") /\ UNCHANGED preview
         \/ /\ pc[p] = "outcome" /\ UNCHANGED preview
            /\ \E s \in SUBSET chunk[p] : OutcomesOf(p, s)
         \/ pc[p] = "plan" /\ ~live[p] /\ preview' = plan[p] /\ UNCHANGED row
BY DEF PartialAppend, OutcomesOf, journal

\* The type invariant is inductive.
LEMMA TypeInvariant == Spec => []TypeInv
<1>1. Init => TypeInv
  BY DEF Init, TypeInv, Row, NoAnswer
<1>2. TypeInv /\ [Next]_vars => TypeInv'
  <2> SUFFICES ASSUME TypeInv, [Next]_vars PROVE TypeInv'
    OBVIOUS
  <2> USE DEF TypeInv, local, journal, Goto, Record, Merge, RowsIn
  <2>1. ASSUME NEW p \in Proc, Start(p) PROVE TypeInv'
    BY <2>1 DEF Start
  <2>2. ASSUME NEW p \in Proc, EnterLock(p) PROVE TypeInv'
    BY <2>2 DEF EnterLock
  <2>3. ASSUME NEW p \in Proc, Fail(p) PROVE TypeInv'
    BY <2>3 DEF Fail, Finish, NoAnswer
  <2>4. ASSUME NEW p \in Proc, ReadJournal(p) PROVE TypeInv'
    BY <2>4 DEF ReadJournal
  <2>5. ASSUME NEW p \in Proc, RefuseImport(p) PROVE TypeInv'
    BY <2>5 DEF RefuseImport, Finish, NoAnswer
  <2>6. ASSUME NEW p \in Proc, ScanMarkers(p) PROVE TypeInv'
    BY <2>6 DEF ScanMarkers
  <2>7. ASSUME NEW p \in Proc, Heal(p) PROVE TypeInv'
    <3>1. row' \in [Row -> {"none", "intended", "rejected", "posted"}]
      BY <2>7 DEF Heal
    <3>2. CASE RowsIn("intended") = found[p]
      <4>1. /\ todo' = [todo EXCEPT ![p] = @ \ found[p]]
            /\ pc' = [pc EXCEPT ![p] = "plan"]
            /\ UNCHANGED <<live, plan, found, chunk, wire, accepted, answer, holder, strays,
                          preview, chart, books>>
        BY <2>7, <3>2 DEF Heal
      <4>2. QED BY <3>1, <4>1
    <3>3. CASE RowsIn("intended") # found[p]
      <4>1. Finish(p, "idle") /\ UNCHANGED <<preview, chart, books>>
        BY <2>7, <3>3 DEF Heal
      <4>2. QED BY <3>1, <4>1 DEF Finish, NoAnswer
    <3>4. QED BY <3>2, <3>3
  <2>8. ASSUME NEW p \in Proc, RecordPreviewed(p) PROVE TypeInv'
    BY <2>8 DEF RecordPreviewed, Finish, NoAnswer
  <2>9. ASSUME NEW p \in Proc, PlanImport(p) PROVE TypeInv'
    BY <2>9 DEF PlanImport
  <2>10. ASSUME NEW p \in Proc, NothingToImport(p) PROVE TypeInv'
    BY <2>10 DEF NothingToImport, Finish, NoAnswer
  <2>11. ASSUME NEW p \in Proc, RecordIntent(p) PROVE TypeInv'
    BY <2>11 DEF RecordIntent, NextChunk
  <2>12. ASSUME NEW p \in Proc, SendBatch(p) PROVE TypeInv'
    BY <2>12 DEF SendBatch
  <2>13. ASSUME NEW p \in Proc, Answer(p) PROVE TypeInv'
    BY <2>13 DEF Answer
  <2>14. ASSUME NEW p \in Proc, NoBatchAnswer(p) PROVE TypeInv'
    BY <2>14 DEF NoBatchAnswer, Finish, NoAnswer
  <2>15. ASSUME NEW p \in Proc, RecordBatchOutcomes(p) PROVE TypeInv'
    <3>1. row' \in [Row -> {"none", "intended", "rejected", "posted"}]
      BY <2>15 DEF RecordBatchOutcomes, Outcomes
    <3>2. CASE todo[p] = chunk[p]
      <4>1. Finish(p, "idle") /\ UNCHANGED <<preview, chart, books>>
        BY <2>15, <3>2 DEF RecordBatchOutcomes
      <4>2. QED BY <3>1, <4>1 DEF Finish, NoAnswer
    <3>3. CASE todo[p] # chunk[p]
      <4>1. /\ todo' = [todo EXCEPT ![p] = @ \ chunk[p]]
            /\ chunk' = [chunk EXCEPT ![p] = {}]
            /\ wire' = [wire EXCEPT ![p] = "none"]
            /\ accepted' = [accepted EXCEPT ![p] = {}]
            /\ answer' = [answer EXCEPT ![p] = NoAnswer]
            /\ pc' = [pc EXCEPT ![p] = "intent"]
            /\ UNCHANGED <<live, plan, found, holder, strays, preview, chart, books>>
        BY <2>15, <3>3 DEF RecordBatchOutcomes
      <4>2. QED BY <3>1, <4>1 DEF NoAnswer
    <3>4. QED BY <3>2, <3>3
  <2>16. ASSUME NEW p \in Proc, AppendFails(p) PROVE TypeInv'
    <3>1. PartialAppend(p) \/ UNCHANGED journal
      BY <2>16 DEF AppendFails
    <3>2. row' \in [Row -> {"none", "intended", "rejected", "posted"}]
            /\ preview' \in Plan \cup {None}
      <4>1. CASE UNCHANGED <<row, preview>>
        BY <4>1
      <4>2. CASE (\E s \in SUBSET found[p] : Record(s, "posted")) /\ UNCHANGED preview
        BY <4>2
      <4>3. CASE Record(NextChunk(todo[p]), "intended") /\ UNCHANGED preview
        BY <4>3
      <4>4. CASE (\E s \in SUBSET chunk[p] : OutcomesOf(p, s)) /\ UNCHANGED preview
        BY <4>4 DEF Outcomes, OutcomesOf
      <4>5. CASE pc[p] = "plan" /\ preview' = plan[p] /\ UNCHANGED row
        BY <4>5
      <4>6. QED BY <3>1, <4>1, <4>2, <4>3, <4>4, <4>5, PartialAppendCases
    <3>3. Finish(p, "idle") /\ UNCHANGED <<chart, books>>
      BY <2>16 DEF AppendFails
    <3>4. QED BY <3>2, <3>3 DEF Finish, NoAnswer
  <2>17. ASSUME NEW p \in Proc, Crash(p) PROVE TypeInv'
    <3>1. PartialAppend(p) \/ UNCHANGED journal
      BY <2>17 DEF Crash
    <3>2. row' \in [Row -> {"none", "intended", "rejected", "posted"}]
            /\ preview' \in Plan \cup {None}
      <4>1. CASE UNCHANGED <<row, preview>>
        BY <4>1
      <4>2. CASE (\E s \in SUBSET found[p] : Record(s, "posted")) /\ UNCHANGED preview
        BY <4>2
      <4>3. CASE Record(NextChunk(todo[p]), "intended") /\ UNCHANGED preview
        BY <4>3
      <4>4. CASE (\E s \in SUBSET chunk[p] : OutcomesOf(p, s)) /\ UNCHANGED preview
        BY <4>4 DEF Outcomes, OutcomesOf
      <4>5. CASE pc[p] = "plan" /\ preview' = plan[p] /\ UNCHANGED row
        BY <4>5
      <4>6. QED BY <3>1, <4>1, <4>2, <4>3, <4>4, <4>5, PartialAppendCases
    <3>3. Finish(p, "dead") /\ UNCHANGED <<chart, books>>
      BY <2>17 DEF Crash
    <3>4. QED BY <3>2, <3>3 DEF Finish, NoAnswer
  <2>18. ASSUME NEW p \in Proc, Restart(p) PROVE TypeInv'
    BY <2>18 DEF Restart
  <2>19. ASSUME NEW p \in Proc, BatchArrives(p) PROVE TypeInv'
    BY <2>19 DEF BatchArrives, Post
  <2>20. CASE StrayArrives
    BY <2>20 DEF StrayArrives, Post
  <2>21. CASE EditChart
    BY <2>21 DEF EditChart
  <2>22. CASE TornElsewhere
    BY <2>22 DEF TornElsewhere
  <2>23. CASE UNCHANGED vars
    BY <2>23 DEF vars
  <2>24. QED BY <2>1, <2>2, <2>3, <2>4, <2>5, <2>6, <2>7, <2>8, <2>9, <2>10, <2>11, <2>12, <2>13, <2>14, <2>15, <2>16, <2>17, <2>18, <2>19, <2>20, <2>21, <2>22, <2>23 DEF Next
<1>3. QED BY <1>1, <1>2, PTL DEF Spec

\* Only the holder of the import lock works.
LEMMA ExclusiveInvariant == Spec => []Exclusive
<1>1. Init => Exclusive
  BY DEF Init, Exclusive, Inside
<1>2. TypeInv /\ Exclusive /\ [Next]_vars => Exclusive'
  <2> SUFFICES ASSUME TypeInv, Exclusive, [Next]_vars PROVE Exclusive'
    OBVIOUS
  <2> USE DEF TypeInv, Exclusive, Inside, local, journal, Goto
  <2>1. ASSUME NEW p \in Proc, Start(p) PROVE Exclusive'
    BY <2>1 DEF Start
  <2>2. ASSUME NEW p \in Proc, EnterLock(p) PROVE Exclusive'
    BY <2>2 DEF EnterLock
  <2>3. ASSUME NEW p \in Proc, Fail(p) PROVE Exclusive'
    BY <2>3 DEF Fail, Finish, NoAnswer
  <2>4. ASSUME NEW p \in Proc, ReadJournal(p) PROVE Exclusive'
    BY <2>4 DEF ReadJournal
  <2>5. ASSUME NEW p \in Proc, RefuseImport(p) PROVE Exclusive'
    BY <2>5 DEF RefuseImport, Finish, NoAnswer
  <2>6. ASSUME NEW p \in Proc, ScanMarkers(p) PROVE Exclusive'
    BY <2>6 DEF ScanMarkers
  <2>7. ASSUME NEW p \in Proc, Heal(p) PROVE Exclusive'
    BY <2>7 DEF Heal, Finish, NoAnswer
  <2>8. ASSUME NEW p \in Proc, RecordPreviewed(p) PROVE Exclusive'
    BY <2>8 DEF RecordPreviewed, Finish, NoAnswer
  <2>9. ASSUME NEW p \in Proc, PlanImport(p) PROVE Exclusive'
    BY <2>9 DEF PlanImport
  <2>10. ASSUME NEW p \in Proc, NothingToImport(p) PROVE Exclusive'
    BY <2>10 DEF NothingToImport, Finish, NoAnswer
  <2>11. ASSUME NEW p \in Proc, RecordIntent(p) PROVE Exclusive'
    BY <2>11 DEF RecordIntent, NextChunk
  <2>12. ASSUME NEW p \in Proc, SendBatch(p) PROVE Exclusive'
    BY <2>12 DEF SendBatch
  <2>13. ASSUME NEW p \in Proc, Answer(p) PROVE Exclusive'
    BY <2>13 DEF Answer
  <2>14. ASSUME NEW p \in Proc, NoBatchAnswer(p) PROVE Exclusive'
    BY <2>14 DEF NoBatchAnswer, Finish, NoAnswer
  <2>15. ASSUME NEW p \in Proc, RecordBatchOutcomes(p) PROVE Exclusive'
    BY <2>15 DEF RecordBatchOutcomes, Finish, NoAnswer, Outcomes
  <2>16. ASSUME NEW p \in Proc, AppendFails(p) PROVE Exclusive'
    BY <2>16 DEF AppendFails, Finish, NoAnswer, PartialAppend, Outcomes, NextChunk
  <2>17. ASSUME NEW p \in Proc, Crash(p) PROVE Exclusive'
    BY <2>17 DEF Crash, Finish, NoAnswer, PartialAppend, Outcomes, NextChunk
  <2>18. ASSUME NEW p \in Proc, Restart(p) PROVE Exclusive'
    BY <2>18 DEF Restart
  <2>19. ASSUME NEW p \in Proc, BatchArrives(p) PROVE Exclusive'
    BY <2>19 DEF BatchArrives, Post
  <2>20. CASE StrayArrives
    BY <2>20 DEF StrayArrives, Post
  <2>21. CASE EditChart
    BY <2>21 DEF EditChart
  <2>22. CASE TornElsewhere
    BY <2>22 DEF TornElsewhere
  <2>23. CASE UNCHANGED vars
    BY <2>23 DEF vars
  <2>24. QED BY <2>1, <2>2, <2>3, <2>4, <2>5, <2>6, <2>7, <2>8, <2>9, <2>10, <2>11, <2>12, <2>13, <2>14, <2>15, <2>16, <2>17, <2>18, <2>19, <2>20, <2>21, <2>22, <2>23 DEF Next
<1>3. QED BY <1>1, <1>2, TypeInvariant, PTL DEF Spec

\* The end of a call that had the lock leaves nobody who knows anything of a row.
LEMMA FinishKnows ==
  ASSUME TypeInv, Exclusive, NEW p \in Proc, NEW s \in {"idle", "dead"}, pc[p] \in Inside,
         Finish(p, s)
  PROVE  Knows'
BY DEF TypeInv, Exclusive, Inside, Finish, NoAnswer, Knows

\* The end of a call without a record: its batch, if any, is adrift.
LEMMA FinishAccounted ==
  ASSUME TypeInv, Exclusive, Accounted, Knows, NEW p \in Proc, NEW s \in {"idle", "dead"},
         Finish(p, s), UNCHANGED <<row, books>>
  PROVE  Accounted'
BY DEF TypeInv, Exclusive, Inside, Finish, NoAnswer, Accounted, Knows, Adrift, OpenRows, RowsIn

\* A record agrees with the books: rows found, the rows of the next chunk, or
\* outcomes of a chunk.
LEMMA RecordAccounted ==
  ASSUME TypeInv, Exclusive, Accounted, Knows, NEW p \in Proc, UNCHANGED <<books, strays>>,
         \/ pc[p] = "heal" /\ \E s \in SUBSET found[p] : Record(s, "posted")
         \/ pc[p] = "intent" /\ Record(NextChunk(todo[p]), "intended")
         \/ pc[p] = "outcome" /\ \E s \in SUBSET chunk[p] : OutcomesOf(p, s)
  PROVE  Accounted'
<1> USE DEF TypeInv, Exclusive, Inside, Accounted, Knows, Adrift, OpenRows, RowsIn, Merge
<1>1. CASE pc[p] = "heal" /\ \E s \in SUBSET found[p] : Record(s, "posted")
  BY <1>1 DEF Record
<1>2. CASE pc[p] = "intent" /\ Record(NextChunk(todo[p]), "intended")
  BY <1>2 DEF Record, NextChunk
<1>3. CASE pc[p] = "outcome" /\ \E s \in SUBSET chunk[p] : OutcomesOf(p, s)
  BY <1>3 DEF Outcomes, OutcomesOf
<1>4. QED BY <1>1, <1>2, <1>3

\* The outcomes of a whole chunk.
LEMMA AllOutcomes ==
  ASSUME TypeInv, Exclusive, Knows, NEW p \in Proc, pc[p] = "outcome", row' = Outcomes(p)
  PROVE  OutcomesOf(p, chunk[p])
BY DEF TypeInv, Exclusive, Inside, Knows, Outcomes, OutcomesOf

\* The end of a call in an append that may have failed.
LEMMA AppendAccounted ==
  ASSUME TypeInv, Exclusive, Accounted, Knows, NEW p \in Proc, NEW s \in {"idle", "dead"},
         Finish(p, s), UNCHANGED books, PartialAppend(p)
  PROVE  Accounted'
<1>1. CASE UNCHANGED row
  BY <1>1, FinishAccounted
<1>2. CASE row' # row
  <2>1. pc[p] \in {"heal", "intent", "outcome"}
    BY <1>2, PartialAppendCases
  <2>2. UNCHANGED strays
    BY <2>1 DEF Finish, Exclusive
  <2>3. QED BY <1>2, <2>2, PartialAppendCases, RecordAccounted
<1>3. QED BY <1>1, <1>2

\* What the journal, the books and the batches on their way say of a row agree,
\* and the lock keeps true what a call knows of its rows.
LEMMA RowInvariant == Spec => [](Accounted /\ Knows)
<1>1. Init => Accounted /\ Knows
  BY DEF Init, Accounted, Knows, Adrift, OpenRows, RowsIn
<1>2. TypeInv /\ Exclusive /\ Accounted /\ Knows /\ TypeInv' /\ [Next]_vars => (Accounted /\ Knows)'
  <2> SUFFICES ASSUME TypeInv, Exclusive, Accounted, Knows, TypeInv', [Next]_vars
               PROVE  (Accounted /\ Knows)'
    OBVIOUS
  <2> USE DEF TypeInv, Exclusive, Inside, Accounted, Knows, Adrift, OpenRows, RowsIn, Record,
              Merge, local, journal, Goto
  <2>1. ASSUME NEW p \in Proc, Start(p) PROVE (Accounted /\ Knows)'
    <3>1. Accounted'
      BY <2>1 DEF Start
    <3>2. Knows'
      BY <2>1 DEF Start
    <3>3. QED BY <3>1, <3>2
  <2>2. ASSUME NEW p \in Proc, EnterLock(p) PROVE (Accounted /\ Knows)'
    <3>1. Accounted'
      BY <2>2 DEF EnterLock
    <3>2. Knows'
      BY <2>2 DEF EnterLock
    <3>3. QED BY <3>1, <3>2
  <2>3. ASSUME NEW p \in Proc, Fail(p) PROVE (Accounted /\ Knows)'
    <3>1. Accounted'
      BY <2>3 DEF Fail, Finish, NoAnswer
    <3>2. Knows'
      BY <2>3 DEF Fail, Finish, NoAnswer
    <3>3. QED BY <3>1, <3>2
  <2>4. ASSUME NEW p \in Proc, ReadJournal(p) PROVE (Accounted /\ Knows)'
    <3>1. Accounted'
      BY <2>4 DEF ReadJournal
    <3>2. Knows'
      BY <2>4 DEF ReadJournal
    <3>3. QED BY <3>1, <3>2
  <2>5. ASSUME NEW p \in Proc, RefuseImport(p) PROVE (Accounted /\ Knows)'
    <3>1. pc[p] \in Inside /\ Finish(p, "idle") /\ UNCHANGED <<row, books>>
      BY <2>5 DEF RefuseImport
    <3>2. QED BY <3>1, FinishAccounted, FinishKnows
  <2>6. ASSUME NEW p \in Proc, ScanMarkers(p) PROVE (Accounted /\ Knows)'
    <3>1. Accounted'
      BY <2>6 DEF ScanMarkers
    <3>2. Knows'
      BY <2>6 DEF ScanMarkers
    <3>3. QED BY <3>1, <3>2
  <2>7. ASSUME NEW p \in Proc, Heal(p) PROVE (Accounted /\ Knows)'
    <3>1. UNCHANGED <<books, strays>>
      BY <2>7 DEF Heal, Finish
    <3>2. pc[p] = "heal" /\ Record(found[p], "posted")
      BY <2>7 DEF Heal
    <3>3. Accounted'
      BY <3>1, <3>2, RecordAccounted
    <3>4. CASE RowsIn("intended") = found[p]
      <4>1. /\ todo' = [todo EXCEPT ![p] = @ \ found[p]]
            /\ pc' = [pc EXCEPT ![p] = "plan"]
            /\ UNCHANGED <<found, chunk, wire, accepted, answer, books, strays>>
        BY <2>7, <3>4 DEF Heal
      <4>2. Knows'
        BY <3>2, <3>4, <4>1
      <4>3. QED BY <3>3, <4>2
    <3>5. CASE RowsIn("intended") # found[p]
      <4>1. Finish(p, "idle")
        BY <2>7, <3>5 DEF Heal
      <4>2. pc[p] \in Inside
        BY <3>2
      <4>3. Knows'
        BY <4>1, <4>2, FinishKnows
      <4>4. QED BY <3>3, <4>3
    <3>6. QED BY <3>4, <3>5
  <2>8. ASSUME NEW p \in Proc, RecordPreviewed(p) PROVE (Accounted /\ Knows)'
    <3>1. pc[p] \in Inside /\ Finish(p, "idle") /\ UNCHANGED <<row, books>>
      BY <2>8 DEF RecordPreviewed
    <3>2. QED BY <3>1, FinishAccounted, FinishKnows
  <2>9. ASSUME NEW p \in Proc, PlanImport(p) PROVE (Accounted /\ Knows)'
    <3>1. Accounted'
      BY <2>9 DEF PlanImport
    <3>2. Knows'
      BY <2>9 DEF PlanImport
    <3>3. QED BY <3>1, <3>2
  <2>10. ASSUME NEW p \in Proc, NothingToImport(p) PROVE (Accounted /\ Knows)'
    <3>1. Accounted'
      BY <2>10 DEF NothingToImport, Finish, NoAnswer
    <3>2. Knows'
      BY <2>10 DEF NothingToImport, Finish, NoAnswer
    <3>3. QED BY <3>1, <3>2
  <2>11. ASSUME NEW p \in Proc, RecordIntent(p) PROVE (Accounted /\ Knows)'
    <3>1. Accounted'
      BY <2>11 DEF RecordIntent, NextChunk
    <3>2. Knows'
      BY <2>11 DEF RecordIntent, NextChunk
    <3>3. QED BY <3>1, <3>2
  <2>12. ASSUME NEW p \in Proc, SendBatch(p) PROVE (Accounted /\ Knows)'
    <3>1. Accounted'
      BY <2>12 DEF SendBatch
    <3>2. Knows'
      BY <2>12 DEF SendBatch
    <3>3. QED BY <3>1, <3>2
  <2>13. ASSUME NEW p \in Proc, Answer(p) PROVE (Accounted /\ Knows)'
    <3>1. Accounted'
      BY <2>13 DEF Answer
    <3>2. Knows'
      BY <2>13 DEF Answer
    <3>3. QED BY <3>1, <3>2
  <2>14. ASSUME NEW p \in Proc, NoBatchAnswer(p) PROVE (Accounted /\ Knows)'
    <3>1. Accounted'
      BY <2>14 DEF NoBatchAnswer, Finish, NoAnswer
    <3>2. Knows'
      BY <2>14 DEF NoBatchAnswer, Finish, NoAnswer
    <3>3. QED BY <3>1, <3>2
  <2>15. ASSUME NEW p \in Proc, RecordBatchOutcomes(p) PROVE (Accounted /\ Knows)'
    <3>1. UNCHANGED <<books, strays>>
      BY <2>15 DEF RecordBatchOutcomes, Finish
    <3>2. pc[p] = "outcome" /\ row' = Outcomes(p)
      BY <2>15 DEF RecordBatchOutcomes
    <3>3. Accounted'
      <4>1. OutcomesOf(p, chunk[p])
        BY <3>2, AllOutcomes
      <4>2. pc[p] = "outcome" /\ \E s \in SUBSET chunk[p] : OutcomesOf(p, s)
        BY <3>2, <4>1
      <4>3. QED BY <3>1, <4>2, RecordAccounted
    <3>4. CASE todo[p] = chunk[p]
      <4>1. Finish(p, "idle")
        BY <2>15, <3>4 DEF RecordBatchOutcomes
      <4>2. QED BY <3>2, <3>3, <4>1, FinishKnows
    <3>5. CASE todo[p] # chunk[p]
      <4>1. /\ todo' = [todo EXCEPT ![p] = @ \ chunk[p]]
            /\ chunk' = [chunk EXCEPT ![p] = {}]
            /\ wire' = [wire EXCEPT ![p] = "none"]
            /\ pc' = [pc EXCEPT ![p] = "intent"]
            /\ UNCHANGED found
        BY <2>15, <3>5 DEF RecordBatchOutcomes
      <4>2. \A r \in Row \ chunk[p] : row'[r] = row[r]
        BY <3>2 DEF Outcomes
      <4>3. Knows'
        BY <3>1, <3>2, <4>1, <4>2
      <4>4. QED BY <3>3, <4>3
    <3>6. QED BY <3>4, <3>5
  <2>16. ASSUME NEW p \in Proc, AppendFails(p) PROVE (Accounted /\ Knows)'
    <3>1. pc[p] \in Inside /\ PartialAppend(p) /\ Finish(p, "idle") /\ UNCHANGED books
      BY <2>16 DEF AppendFails, Appending
    <3>2. QED BY <3>1, AppendAccounted, FinishKnows
  <2>17. ASSUME NEW p \in Proc, Crash(p) PROVE (Accounted /\ Knows)'
    <3>1. Finish(p, "dead") /\ UNCHANGED books
      BY <2>17 DEF Crash
    <3>2. CASE Appending(p)
      <4>1. pc[p] \in Inside /\ PartialAppend(p)
        BY <2>17, <3>2 DEF Crash, Appending
      <4>2. QED BY <3>1, <4>1, AppendAccounted, FinishKnows
    <3>3. CASE ~Appending(p)
      <4>1. UNCHANGED row
        BY <2>17, <3>3 DEF Crash
      <4>2. Accounted'
        BY <3>1, <4>1, FinishAccounted
      <4>3. Knows'
        BY <3>1, <4>1 DEF Finish, NoAnswer
      <4>4. QED BY <4>2, <4>3
    <3>4. QED BY <3>2, <3>3
  <2>18. ASSUME NEW p \in Proc, Restart(p) PROVE (Accounted /\ Knows)'
    <3>1. Accounted'
      BY <2>18 DEF Restart
    <3>2. Knows'
      BY <2>18 DEF Restart
    <3>3. QED BY <3>1, <3>2
  <2>19. ASSUME NEW p \in Proc, BatchArrives(p) PROVE (Accounted /\ Knows)'
    <3>1. Accounted'
      BY <2>19 DEF BatchArrives, Post
    <3>2. Knows'
      BY <2>19 DEF BatchArrives, Post
    <3>3. QED BY <3>1, <3>2
  <2>20. CASE StrayArrives
    BY <2>20 DEF StrayArrives, Post
  <2>21. CASE EditChart
    BY <2>21 DEF EditChart
  <2>22. CASE TornElsewhere
    BY <2>22 DEF TornElsewhere
  <2>23. CASE UNCHANGED vars
    BY <2>23 DEF vars
  <2>24. QED BY <2>1, <2>2, <2>3, <2>4, <2>5, <2>6, <2>7, <2>8, <2>9, <2>10, <2>11, <2>12, <2>13, <2>14, <2>15, <2>16, <2>17, <2>18, <2>19, <2>20, <2>21, <2>22, <2>23 DEF Next
<1>3. QED BY <1>1, <1>2, TypeInvariant, ExclusiveInvariant, PTL DEF Spec

\* A live call past the comparison agrees with the newest preview: nobody records
\* another one while it holds the lock.
LEMMA PreviewedInvariant == Spec => []Previewed
<1>1. Init => Previewed
  BY DEF Init, Previewed, Inside
<1>2. TypeInv /\ Exclusive /\ Previewed /\ [Next]_vars => Previewed'
  <2> SUFFICES ASSUME TypeInv, Exclusive, Previewed, [Next]_vars PROVE Previewed'
    OBVIOUS
  <2> USE DEF TypeInv, Exclusive, Inside, Previewed, local, journal, Goto
  <2>1. ASSUME NEW p \in Proc, Start(p) PROVE Previewed'
    BY <2>1 DEF Start
  <2>2. ASSUME NEW p \in Proc, EnterLock(p) PROVE Previewed'
    BY <2>2 DEF EnterLock
  <2>3. ASSUME NEW p \in Proc, Fail(p) PROVE Previewed'
    BY <2>3 DEF Fail, Finish, NoAnswer
  <2>4. ASSUME NEW p \in Proc, ReadJournal(p) PROVE Previewed'
    BY <2>4 DEF ReadJournal, MayImport
  <2>5. ASSUME NEW p \in Proc, RefuseImport(p) PROVE Previewed'
    BY <2>5 DEF RefuseImport, Finish, NoAnswer
  <2>6. ASSUME NEW p \in Proc, ScanMarkers(p) PROVE Previewed'
    BY <2>6 DEF ScanMarkers
  <2>7. ASSUME NEW p \in Proc, Heal(p) PROVE Previewed'
    BY <2>7 DEF Heal, Finish, NoAnswer
  <2>8. ASSUME NEW p \in Proc, RecordPreviewed(p) PROVE Previewed'
    BY <2>8 DEF RecordPreviewed, Finish, NoAnswer
  <2>9. ASSUME NEW p \in Proc, PlanImport(p) PROVE Previewed'
    BY <2>9 DEF PlanImport
  <2>10. ASSUME NEW p \in Proc, NothingToImport(p) PROVE Previewed'
    BY <2>10 DEF NothingToImport, Finish, NoAnswer
  <2>11. ASSUME NEW p \in Proc, RecordIntent(p) PROVE Previewed'
    BY <2>11 DEF RecordIntent
  <2>12. ASSUME NEW p \in Proc, SendBatch(p) PROVE Previewed'
    BY <2>12 DEF SendBatch
  <2>13. ASSUME NEW p \in Proc, Answer(p) PROVE Previewed'
    BY <2>13 DEF Answer
  <2>14. ASSUME NEW p \in Proc, NoBatchAnswer(p) PROVE Previewed'
    BY <2>14 DEF NoBatchAnswer, Finish, NoAnswer
  <2>15. ASSUME NEW p \in Proc, RecordBatchOutcomes(p) PROVE Previewed'
    BY <2>15 DEF RecordBatchOutcomes, Finish, NoAnswer
  <2>16. ASSUME NEW p \in Proc, AppendFails(p) PROVE Previewed'
    <3>1. Finish(p, "idle")
      BY <2>16 DEF AppendFails
    <3>2. CASE UNCHANGED preview
      BY <3>1, <3>2 DEF Finish, NoAnswer
    <3>3. CASE preview' # preview
      <4>1. PartialAppend(p)
        BY <2>16, <3>3 DEF AppendFails
      <4>2. pc[p] = "plan"
        BY <3>3, <4>1, PartialAppendCases
      <4>3. QED BY <3>1, <4>2 DEF Finish, NoAnswer
    <3>4. QED BY <3>2, <3>3
  <2>17. ASSUME NEW p \in Proc, Crash(p) PROVE Previewed'
    <3>1. Finish(p, "dead")
      BY <2>17 DEF Crash
    <3>2. CASE UNCHANGED preview
      BY <3>1, <3>2 DEF Finish, NoAnswer
    <3>3. CASE preview' # preview
      <4>1. PartialAppend(p)
        BY <2>17, <3>3 DEF Crash
      <4>2. pc[p] = "plan"
        BY <3>3, <4>1, PartialAppendCases
      <4>3. QED BY <3>1, <4>2 DEF Finish, NoAnswer
    <3>4. QED BY <3>2, <3>3
  <2>18. ASSUME NEW p \in Proc, Restart(p) PROVE Previewed'
    BY <2>18 DEF Restart
  <2>19. ASSUME NEW p \in Proc, BatchArrives(p) PROVE Previewed'
    BY <2>19 DEF BatchArrives
  <2>20. CASE StrayArrives
    BY <2>20 DEF StrayArrives
  <2>21. CASE EditChart
    BY <2>21 DEF EditChart
  <2>22. CASE TornElsewhere
    BY <2>22 DEF TornElsewhere
  <2>23. CASE UNCHANGED vars
    BY <2>23 DEF vars
  <2>24. QED BY <2>1, <2>2, <2>3, <2>4, <2>5, <2>6, <2>7, <2>8, <2>9, <2>10, <2>11, <2>12, <2>13, <2>14, <2>15, <2>16, <2>17, <2>18, <2>19, <2>20, <2>21, <2>22, <2>23 DEF Next
<1>3. QED BY <1>1, <1>2, TypeInvariant, ExclusiveInvariant, PTL DEF Spec
-----------------------------------------------------------------------------
\* The library's well-founded order of finite sets gives every set of rows a last one.
LEMMA LastRow ==
  ASSUME NEW S \in SUBSET Row, S # {}
  PROVE  \E m \in S : \A q \in S \ {m} : q < m
<1> DEFINE Above(m) == {n \in S : m < n}
           T == {Above(m) : m \in S}
<1>0. IsFiniteSet(Row) /\ \A n \in S : n \in Nat
  BY FS_Interval, ImportAssumption DEF Row
<1>1. T \subseteq FiniteSubsetsOf(Row) /\ T # {}
  <2>1. ASSUME NEW m \in S PROVE Above(m) \in FiniteSubsetsOf(Row)
    <3>1. Above(m) \in SUBSET Row
      OBVIOUS
    <3> HIDE DEF Above
    <3> QED
      BY <1>0, <3>1, FS_Subset DEF FiniteSubsetsOf
  <2> QED
    BY <2>1
<1>2. PICK U \in T : \A V \in T : ~(<<V, U>> \in StrictSubsetOrdering(Row))
  <2> HIDE DEF T
  <2> QED
    BY <1>1, FS_StrictSubsetOrderingWellFounded, WFMin
<1>3. PICK m \in S : U = Above(m)
  BY <1>2
<1>4. ASSUME NEW n \in S, m < n PROVE FALSE
  <2>1. Above(n) \subseteq Above(m) /\ n \in Above(m) /\ n \notin Above(n)
    <3>1. ASSUME NEW x \in S, n < x PROVE m < x
      BY <1>0, <1>4, <3>1
    <3>2. ~(n < n)
      BY <1>0
    <3> QED
      BY <1>4, <3>1, <3>2
  <2>2. Above(n) \in SUBSET Row /\ Above(m) \in SUBSET Row /\ Above(n) \in T
    OBVIOUS
  <2> HIDE DEF Above, T
  <2>3. <<Above(n), Above(m)>> \in StrictSubsetOrdering(Row)
    BY <2>1, <2>2 DEF StrictSubsetOrdering
  <2> QED
    BY <1>2, <1>3, <2>2, <2>3
<1> QED
  BY <1>0, <1>4

\* A chunk has at most ChunkSize rows: all of it but the last row precedes that row.
LEMMA NextChunkBounded ==
  ASSUME NEW rows \in SUBSET Row
  PROVE  Cardinality(NextChunk(rows)) <= ChunkSize
<1> DEFINE S == NextChunk(rows)
<1>1. IsFiniteSet(Row)
  BY FS_Interval, ImportAssumption DEF Row
<1>5. S \in SUBSET Row
  BY DEF NextChunk
<1>2. IsFiniteSet(S)
  BY <1>1, <1>5, FS_Subset
<1>3. CASE S = {}
  BY <1>3, FS_EmptySet, ImportAssumption
<1>4. CASE S # {}
  <2>1. PICK m \in S : \A q \in S \ {m} : q < m
    BY <1>4, <1>5, LastRow
  <2> DEFINE B == {q \in rows : q < m}
  <2>2. S \ {m} \in SUBSET B /\ B \in SUBSET Row /\ Cardinality(B) < ChunkSize
    BY <2>1 DEF NextChunk
  <2>3. Cardinality(S \ {m}) = Cardinality(S) - 1 /\ IsFiniteSet(S \ {m})
    BY <1>2, FS_RemoveElement
  <2> HIDE DEF S, B
  <2>4. IsFiniteSet(B) /\ Cardinality(S \ {m}) <= Cardinality(B)
    BY <1>1, <2>2, FS_Subset
  <2>5. /\ Cardinality(S) \in Nat /\ Cardinality(B) \in Nat /\ ChunkSize \in Nat
        /\ Cardinality(S \ {m}) \in Nat
    BY <1>2, <2>3, <2>4, FS_CardinalityType, ImportAssumption
  <2>6. Cardinality(S) <= ChunkSize
    BY <2>2, <2>3, <2>4, <2>5
  <2> QED
    BY <2>6 DEF S
<1> QED
  BY <1>3, <1>4

\* What TypeInv leaves out of TypeOK.
Bounded ==
    /\ \A p \in Proc : Cardinality(chunk[p]) <= ChunkSize
    /\ torn \in BOOLEAN
    /\ faults \in 0..MaxFaults

\* Only RecordIntent gives a call a chunk; the others keep it, or drop it.
LEMMA BoundedStep ==
  ASSUME TypeInv, Bounded, [Next]_vars
  PROVE  Bounded'
<1> DEFINE Kept == \A p \in Proc : chunk'[p] \in {chunk[p], {}}
<1>0. Cardinality({}) = 0 /\ 0 <= ChunkSize
  BY FS_EmptySet, ImportAssumption
<1>1. ASSUME Kept, torn' \in BOOLEAN, faults' \in 0..MaxFaults
      PROVE  Bounded'
  BY <1>0, <1>1 DEF Bounded
<1> USE DEF Bounded, TypeInv, local, journal, Finish
<1>2. ASSUME NEW p \in Proc, RecordIntent(p)
      PROVE  Bounded'
  <2>1. Cardinality(NextChunk(todo[p])) <= ChunkSize
    BY NextChunkBounded
  <2>2. torn' \in BOOLEAN /\ faults' \in 0..MaxFaults
    BY <1>2 DEF RecordIntent
  <2>3. \A q \in Proc : chunk'[q] = IF q = p THEN NextChunk(todo[p]) ELSE chunk[q]
    BY <1>2 DEF RecordIntent
  <2> QED
    BY <2>1, <2>2, <2>3
<1>3. ASSUME NEW p \in Proc,
             \/ Start(p) \/ EnterLock(p) \/ ReadJournal(p) \/ ScanMarkers(p) \/ PlanImport(p)
             \/ SendBatch(p) \/ Answer(p) \/ Restart(p) \/ BatchArrives(p)
      PROVE  Bounded'
  BY <1>3 DEF Start, EnterLock, ReadJournal, ScanMarkers, PlanImport, SendBatch, Answer, Restart,
              BatchArrives
<1>4. ASSUME NEW p \in Proc,
             \/ Fail(p) \/ RefuseImport(p) \/ RecordPreviewed(p) \/ NothingToImport(p)
             \/ NoBatchAnswer(p)
      PROVE  Kept /\ torn' \in BOOLEAN /\ faults' \in 0..MaxFaults
  BY <1>4 DEF Fail, RefuseImport, RecordPreviewed, NothingToImport, NoBatchAnswer
<1>5. ASSUME NEW p \in Proc, Heal(p) \/ RecordBatchOutcomes(p)
      PROVE  Kept /\ torn' \in BOOLEAN /\ faults' \in 0..MaxFaults
  BY <1>5 DEF Heal, RecordBatchOutcomes
<1>6. ASSUME NEW p \in Proc, AppendFails(p) \/ Crash(p)
      PROVE  Kept /\ torn' \in BOOLEAN /\ faults' \in 0..MaxFaults
  <2>1. torn' \in BOOLEAN
    BY <1>6 DEF AppendFails, Crash, PartialAppend
  <2>2. Kept
    BY <1>6 DEF AppendFails, Crash
  <2>3. faults' \in 0..MaxFaults
    BY <1>6, ImportAssumption DEF AppendFails, Crash
  <2> QED
    BY <2>1, <2>2, <2>3
<1>7. CASE StrayArrives \/ EditChart \/ TornElsewhere
  <2>1. CASE StrayArrives \/ EditChart
    BY <2>1 DEF StrayArrives, EditChart
  <2>2. CASE TornElsewhere
    <3>1. faults' \in 0..MaxFaults
      BY <2>2, ImportAssumption DEF TornElsewhere
    <3>2. torn' = TRUE /\ UNCHANGED chunk
      BY <2>2 DEF TornElsewhere
    <3> QED
      BY <3>1, <3>2
  <2> QED
    BY <1>7, <2>1, <2>2
<1>8. CASE UNCHANGED vars
  BY <1>8 DEF vars
<1> HIDE DEF Bounded, TypeInv, local, journal, Finish, Kept
<1> QED
  BY <1>1, <1>2, <1>3, <1>4, <1>5, <1>6, <1>7, <1>8 DEF Next

\* The state of the import keeps its types, and no batch is larger than QuickBooks takes
\* (the chunks of 30 of import_bank_csv).
THEOREM TypeCorrect == Spec => []TypeOK
<1>1. Init => Bounded
  <2>1. Cardinality({}) = 0 /\ 0 <= ChunkSize /\ 0 \in 0..MaxFaults
    BY FS_EmptySet, ImportAssumption
  <2> QED
    BY <2>1 DEF Init, Bounded
<1>2. TypeInv /\ Bounded => TypeOK
  BY DEF TypeInv, Bounded, TypeOK
<1>3. QED BY <1>1, <1>2, BoundedStep, TypeInvariant, PTL DEF Spec

-----------------------------------------------------------------------------
\* No row of the file is posted twice, whatever interrupts, repeats, overlaps or
\* delays the import.
THEOREM RowPostedOnceHolds == Spec => []RowPostedOnce
<1>1. Accounted => RowPostedOnce
  BY DEF Accounted, RowPostedOnce
<1>2. QED BY <1>1, RowInvariant, PTL

\* A row the journal calls posted is in QuickBooks.
THEOREM PostedIsInBooksHolds == Spec => []PostedIsInBooks
<1>1. Accounted => PostedIsInBooks
  BY DEF Accounted, PostedIsInBooks
<1>2. QED BY <1>1, RowInvariant, PTL

\* A row the journal calls rejected is not in QuickBooks, and nothing on its way can
\* still post it.
THEOREM RejectedIsNotInBooksHolds == Spec => []RejectedIsNotInBooks
<1>1. TypeInv /\ Exclusive /\ Accounted /\ Knows => RejectedIsNotInBooks
  BY DEF TypeInv, Exclusive, Accounted, Knows, OpenRows, RowsIn, Adrift, RejectedIsNotInBooks
<1>2. QED BY <1>1, TypeInvariant, ExclusiveInvariant, RowInvariant, PTL

\* What is sent is what the newest preview showed.
THEOREM SentAsPreviewedHolds == Spec => SentAsPreviewed
<1>1. Previewed => [\A p \in Proc : pc[p] = "send" /\ pc'[p] = "await" => plan[p] = preview]_vars
  BY DEF Previewed, Inside
<1>2. QED BY <1>1, PreviewedInvariant, PTL DEF SentAsPreviewed
=============================================================================
