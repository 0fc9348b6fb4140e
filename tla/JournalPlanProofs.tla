--------------------------- MODULE JournalPlanProofs ---------------------------
(***************************************************************************)
(* Proofs about JournalPlan and the updates of WritePolicy in it, for any  *)
(* numbers of companies, calls, processes, plans and entries: Shape (types *)
(* and what each phase implies), Updates (what an update of the policy has *)
(* in hand), Plans (who may post under a plan) and Guards (what a call     *)
(* that sends was permitted).                                              *)
(***************************************************************************)
EXTENDS JournalPlan, WritePolicyProofs

Posting  == {"post", "load", "judge", "send"}
Checking == {"load", "judge", "send"}

\* What a step of a call, or of an update, says about its locals.
Phases ==
    /\ \A c \in Call :
          /\ pc[c] # "idle" => manifest[c] \in Manifest /\ entry[c] \in Entry
          /\ pc[c] \in Posting => plan[c] \in Plan
          /\ pc[c] \in Checking => at[c] \in left[c] /\ copy[c] \in Copy
    /\ \A p \in Proc :
          /\ upc[p] # "idle" => change[p] \in Patch
          /\ upc[p] = "replace" => doc[p] \in Policy

Shape == TypeOK /\ Phases

USE JournalPlanAssumption, WritePolicyAssumption DEF callVars, policyVars
-----------------------------------------------------------------------------
\* A change of one rule gives rules.
LEMMA PatchedTypes ==
    ASSUME NEW rules \in Rules, NEW patch \in Patch
    PROVE  Patched(rules, patch) \in Rules
<1>1. CASE patch.key = "read_only"
  <2>1. patch.value \in {"unset", "locked", "open"}
      BY <1>1
  <2>2. Patched(rules, patch) = [rules EXCEPT !.read_only = patch.value]
      BY <1>1 DEF Patched
  <2> QED
      BY <2>1, <2>2 DEF Rules
<1>2. CASE patch.key = "cap"
  <2>1. patch.value \in Nat
      BY <1>2
  <2>2. Patched(rules, patch) = [rules EXCEPT !.cap = patch.value]
      BY <1>2 DEF Patched
  <2> QED
      BY <2>1, <2>2 DEF Rules
<1>3. CASE patch.key = "floor"
  <2>1. patch.value \in Nat
      BY <1>3
  <2>2. Patched(rules, patch) = [rules EXCEPT !.floor = patch.value]
      BY <1>3 DEF Patched
  <2> QED
      BY <2>1, <2>2 DEF Rules
<1> QED
    BY <1>1, <1>2, <1>3

\* The document a first update starts from is a policy.
LEMMA EmptyTypes == NoRules \in Rules /\ NoCompanies \in [Slug -> Rules] /\ EmptyPolicy \in Policy
<1>1. NoRules \in Rules
    BY DEF NoRules, Rules
<1>2. NoCompanies \in [Slug -> Rules]
    BY <1>1 DEF NoCompanies
<1> QED
    BY <1>1, <1>2 DEF EmptyPolicy, Policy

\* The initial state has its types.
LEMMA InitShape == Init => Shape
<1> SUFFICES ASSUME Init PROVE Shape
    OBVIOUS
<1>1. policy \in Policy \cup {None}
  <2>1. \A r \in {"unset", "locked"} :
           [defaults |-> [NoRules EXCEPT !.read_only = r], companies |-> NoCompanies] \in Policy
    <3>1. \A r \in {"unset", "locked"} : [NoRules EXCEPT !.read_only = r] \in Rules
        BY DEF NoRules, Rules
    <3> QED
        BY <3>1, EmptyTypes DEF Policy
  <2> QED
      BY <2>1 DEF Init, PolicyInit
<1>2. PolicyTypeOK
    BY <1>1, EmptyTypes DEF Init, PolicyInit, PolicyTypeOK
<1>3. TypeOK
    BY <1>2 DEF Init, TypeOK
<1>4. Phases
    BY DEF Init, PolicyInit, Phases, Posting, Checking
<1> QED
    BY <1>3, <1>4 DEF Shape

\* What a check has in hand is a copy of a policy.
LEMMA LoadTypes ==
    ASSUME Shape, policy # None
    PROVE  Load \in Copy
    BY DEF Shape, TypeOK, PolicyTypeOK, Load, Copy

\* Each action keeps the types and what the phases say.
LEMMA ShapeStep ==
    ASSUME Shape, [Next]_vars PROVE Shape'
<1> USE DEF Shape
<1>0. TypeOK /\ PolicyTypeOK /\ Phases /\ (policy # None => Load \in Copy)
    BY LoadTypes DEF Shape, TypeOK
<1>1. ASSUME NEW c \in Call, NEW e \in Entry, NEW k \in Plan \cup {None},
            NEW companies \in Companies, Request(c, e, k, companies)
     PROVE  Shape'
  <2>1. PolicyTypeOK'
      BY <1>1, <1>0 DEF Request, PolicyTypeOK, Goto
  <2>2. TypeOK'
    <3>1. [entry |-> e, seen |-> [s \in Slug |-> None]] \in Manifest /\ companies \in SUBSET Slug
        BY DEF Manifest
    <3> QED
        BY <1>1, <1>0, <2>1, <3>1 DEF Request, TypeOK, Goto
  <2>3. Phases'
    <3>1. [entry |-> e, seen |-> [s \in Slug |-> None]] \in Manifest
        BY DEF Manifest
    <3>2. pc'[c] = "resolve" /\ entry'[c] = e /\ manifest'[c] \in Manifest
        BY <1>1, <1>0, <3>1 DEF Request, Goto, TypeOK
    <3>3. \A d \in Call \ {c} : UNCHANGED <<pc[d], entry[d], manifest[d], plan[d], left[d]>>
        BY <1>1, <1>0 DEF Request, Goto, TypeOK
    <3> QED
        BY <1>1, <1>0, <3>2, <3>3 DEF Request, Phases, Posting, Checking
  <2> QED
      BY <2>1, <2>2, <2>3
<1>2. ASSUME NEW c \in Call, Resolve(c)
     PROVE  Shape'
  <2>1. PolicyTypeOK'
      BY <1>2, <1>0 DEF Resolve, PolicyTypeOK, CacheCopy
  <2>2. TypeOK'
    <3>1. PICK s \in left[c] : /\ manifest' = [manifest EXCEPT ![c].seen[s] = books[s]]
                             /\ left' = [left EXCEPT ![c] = @ \ {s}]
        BY <1>2 DEF Resolve
    <3>2. s \in Slug /\ manifest[c] \in Manifest
        BY <1>2, <1>0 DEF Resolve, TypeOK, Phases
    <3>3. [manifest[c] EXCEPT !.seen[s] = books[s]] \in Manifest
        BY <1>0, <3>2 DEF Manifest, TypeOK
    <3>4. manifest' \in [Call -> Manifest \cup {None}] /\ left' \in [Call -> SUBSET Slug]
        BY <1>0, <3>1, <3>2, <3>3 DEF TypeOK
    <3> QED
        BY <1>2, <1>0, <2>1, <3>4 DEF Resolve, TypeOK
  <2>3. Phases'
    <3>1. PICK s \in left[c] : /\ manifest' = [manifest EXCEPT ![c].seen[s] = books[s]]
                             /\ left' = [left EXCEPT ![c] = @ \ {s}]
        BY <1>2 DEF Resolve
    <3>2. s \in Slug /\ manifest[c] \in Manifest
        BY <1>2, <1>0 DEF Resolve, TypeOK, Phases
    <3>3. [manifest[c] EXCEPT !.seen[s] = books[s]] \in Manifest
        BY <1>0, <3>2 DEF Manifest, TypeOK
    <3>4. manifest'[c] \in Manifest /\ pc[c] = "resolve"
        BY <1>2, <1>0, <3>1, <3>3 DEF Resolve, TypeOK
    <3>5. \A d \in Call \ {c} : UNCHANGED <<manifest[d], left[d]>>
        BY <1>0, <3>1 DEF TypeOK
    <3> QED
        BY <1>2, <1>0, <3>4, <3>5 DEF Resolve, CacheCopy, Phases, Posting, Checking
  <2> QED
      BY <2>1, <2>2, <2>3
<1>3. ASSUME NEW c \in Call, RefuseResolve(c)
     PROVE  Shape'
  <2>1. PolicyTypeOK'
      BY <1>3, <1>0 DEF RefuseResolve, PolicyTypeOK, End, Reset
  <2>2. TypeOK'
      BY <1>3, <1>0, <2>1 DEF RefuseResolve, TypeOK, End, Reset
  <2>3. Phases'
      BY <1>3, <1>0 DEF RefuseResolve, Phases, TypeOK, End, Posting, Checking,
              PolicyTypeOK, Reset
  <2> QED
      BY <2>1, <2>2, <2>3
<1>4. ASSUME NEW c \in Call, NEW k \in Plan, Preview(c, k)
     PROVE  Shape'
  <2>1. PolicyTypeOK'
      BY <1>4, <1>0 DEF Preview, PolicyTypeOK, End, Reset
  <2>2. TypeOK'
      BY <1>4, <1>0, <2>1 DEF Preview, TypeOK, End, Reset
  <2>3. Phases'
      BY <1>4, <1>0 DEF Preview, Phases, TypeOK, End, Posting, Checking, PolicyTypeOK,
              Reset
  <2> QED
      BY <2>1, <2>2, <2>3
<1>5. ASSUME NEW c \in Call, Confirm(c)
     PROVE  Shape'
  <2>1. PolicyTypeOK'
      BY <1>5, <1>0 DEF Confirm, PolicyTypeOK, TakePlan, Goto
  <2>2. TypeOK'
      BY <1>5, <1>0, <2>1 DEF Confirm, TypeOK, TakePlan, Goto
  <2>3. Phases'
      BY <1>5, <1>0 DEF Confirm, Phases, TypeOK, TakePlan, Goto, Posting, Checking,
              PolicyTypeOK
  <2> QED
      BY <2>1, <2>2, <2>3
<1>6. ASSUME NEW c \in Call, RefusePlan(c)
     PROVE  Shape'
  <2>1. PolicyTypeOK'
      BY <1>6, <1>0 DEF RefusePlan, PolicyTypeOK, TakePlan, End, Reset
  <2>2. TypeOK'
      BY <1>6, <1>0, <2>1 DEF RefusePlan, TypeOK, TakePlan, End, Reset
  <2>3. Phases'
      BY <1>6, <1>0 DEF RefusePlan, Phases, TypeOK, TakePlan, End, Posting, Checking,
              PolicyTypeOK, Reset
  <2> QED
      BY <2>1, <2>2, <2>3
<1>7. ASSUME NEW c \in Call, Check(c)
     PROVE  Shape'
  <2>1. PolicyTypeOK'
      BY <1>7, <1>0 DEF Check, PolicyTypeOK, Goto
  <2>2. TypeOK'
    <3>1. PICK s \in left[c] : at' = [at EXCEPT ![c] = s]
        BY <1>7 DEF Check
    <3>2. s \in Slug /\ Load \in Copy /\ gen \in 0..MaxGen
        BY <1>7, <1>0 DEF Check, TypeOK, PolicyTypeOK
    <3>3. /\ at' \in [Call -> Slug \cup {None}]
          /\ copy' \in [Call -> Copy \cup {None}]
          /\ since' \in [Call -> 0..MaxGen]
        BY <1>7, <1>0, <3>1, <3>2 DEF Check, TypeOK
    <3>4. pc' \in [Call -> {"idle", "resolve", "post", "load", "judge", "send"}]
        BY <1>7, <1>0 DEF Check, TypeOK, Goto
    <3> QED
        BY <1>7, <1>0, <2>1, <3>3, <3>4 DEF Check, TypeOK
  <2>3. Phases'
      BY <1>7, <1>0 DEF Check, Phases, TypeOK, Goto, Posting, Checking, PolicyTypeOK
  <2> QED
      BY <2>1, <2>2, <2>3
<1>8. ASSUME NEW c \in Call, Judge(c)
     PROVE  Shape'
  <2>1. PolicyTypeOK'
    <3>1. pc[c] = "load" => copy[c] \in Copy
        BY <1>8, <1>0 DEF Phases, Checking
    <3> QED
        BY <1>8, <1>0, <3>1 DEF Judge, Loaded, CacheCopy, PolicyTypeOK
  <2>2. TypeOK'
      BY <1>8, <1>0, <2>1 DEF Judge, TypeOK, Loaded, Goto, CacheCopy
  <2>3. Phases'
      BY <1>8, <1>0 DEF Judge, Phases, TypeOK, Loaded, Goto, Posting, Checking,
              PolicyTypeOK, CacheCopy
  <2> QED
      BY <2>1, <2>2, <2>3
<1>9. ASSUME NEW c \in Call, Send(c)
     PROVE  Shape'
  <2>1. PolicyTypeOK'
      BY <1>9, <1>0 DEF Send, PolicyTypeOK, Dropped, Goto
  <2>2. TypeOK'
    <3>1. plan[c] \in Plan /\ at[c] \in Slug
        BY <1>9, <1>0 DEF Send, Phases, Posting, Checking, TypeOK
    <3>2. posts' \in [Plan -> [Slug -> Nat]]
        BY <1>9, <1>0, <3>1 DEF Send, TypeOK
    <3> QED
        BY <1>9, <1>0, <2>1, <3>2 DEF Send, Dropped, Goto, TypeOK
  <2>3. Phases'
      BY <1>9, <1>0 DEF Send, Phases, TypeOK, Dropped, Posting, Checking, PolicyTypeOK,
              Goto
  <2> QED
      BY <2>1, <2>2, <2>3
<1>10. ASSUME NEW c \in Call, PostFails(c)
     PROVE  Shape'
  <2>1. PolicyTypeOK'
    <3>1. pc[c] = "load" => copy[c] \in Copy
        BY <1>10, <1>0 DEF Phases, Checking
    <3> QED
        BY <1>10, <1>0, <3>1 DEF PostFails, Loaded, CacheCopy, PolicyTypeOK
  <2>2. TypeOK'
      BY <1>10, <1>0, <2>1 DEF PostFails, TypeOK, Loaded, Dropped, CacheCopy,
              Goto
  <2>3. Phases'
      BY <1>10, <1>0 DEF PostFails, Phases, TypeOK, Loaded, Dropped, Posting, Checking,
              PolicyTypeOK, CacheCopy, Goto
  <2> QED
      BY <2>1, <2>2, <2>3
<1>11. ASSUME NEW c \in Call, PolicyMissing(c)
     PROVE  Shape'
  <2>1. PolicyTypeOK'
      BY <1>11, <1>0 DEF PolicyMissing, PolicyTypeOK, CacheCopy
  <2>2. TypeOK'
      BY <1>11, <1>0, <2>1 DEF PolicyMissing, TypeOK, CacheCopy
  <2>3. Phases'
      BY <1>11, <1>0 DEF PolicyMissing, Phases, TypeOK, CacheCopy, Posting, Checking,
              PolicyTypeOK
  <2> QED
      BY <2>1, <2>2, <2>3
<1>12. ASSUME NEW c \in Call, Done(c)
     PROVE  Shape'
  <2>1. PolicyTypeOK'
      BY <1>12, <1>0 DEF Done, PolicyTypeOK, End, Reset
  <2>2. TypeOK'
      BY <1>12, <1>0, <2>1 DEF Done, TypeOK, End, Reset
  <2>3. Phases'
      BY <1>12, <1>0 DEF Done, Phases, TypeOK, End, Posting, Checking, PolicyTypeOK,
              Reset
  <2> QED
      BY <2>1, <2>2, <2>3
<1>13. ASSUME NEW k \in Plan, ExpirePlan(k)
     PROVE  Shape'
  <2>1. PolicyTypeOK'
      BY <1>13, <1>0 DEF ExpirePlan, PolicyTypeOK
  <2>2. TypeOK'
      BY <1>13, <1>0, <2>1 DEF ExpirePlan, TypeOK
  <2>3. Phases'
      BY <1>13, <1>0 DEF ExpirePlan, Phases, TypeOK, Posting, Checking, PolicyTypeOK
  <2> QED
      BY <2>1, <2>2, <2>3
<1>14. ASSUME NEW s \in Slug, EditBooks(s)
     PROVE  Shape'
  <2>1. PolicyTypeOK'
      BY <1>14, <1>0 DEF EditBooks, PolicyTypeOK
  <2>2. TypeOK'
      BY <1>14, <1>0, <2>1 DEF EditBooks, TypeOK
  <2>3. Phases'
      BY <1>14, <1>0 DEF EditBooks, Phases, TypeOK, Posting, Checking, PolicyTypeOK
  <2> QED
      BY <2>1, <2>2, <2>3
<1>15. CASE RestartServer
  <2>1. PolicyTypeOK'
      BY <1>15, <1>0 DEF RestartServer, PolicyTypeOK, End, Release, Reset, UGoto
  <2>2. TypeOK'
      BY <1>15, <1>0, <2>1 DEF RestartServer, TypeOK, End, Release, Reset, UGoto
  <2>3. Phases'
      BY <1>15, <1>0 DEF RestartServer, Phases, TypeOK, End, Release, Posting, Checking,
              PolicyTypeOK, Reset, UGoto
  <2> QED
      BY <2>1, <2>2, <2>3
<1>16. ASSUME NEW p \in Proc, NEW patch \in Patch, SetCompanyPolicy(p, patch),
             UNCHANGED <<realm, books, plans, previewed, callVars, posts>>
     PROVE  Shape'
  <2>1. PolicyTypeOK'
      BY <1>16, <1>0 DEF SetCompanyPolicy, PolicyTypeOK, UGoto
  <2>2. TypeOK'
      BY <1>16, <1>0, <2>1 DEF SetCompanyPolicy, TypeOK
  <2>3. Phases'
      BY <1>16, <1>0 DEF SetCompanyPolicy, Phases, TypeOK, UGoto, Posting, Checking,
              PolicyTypeOK
  <2> QED
      BY <2>1, <2>2, <2>3
<1>17. ASSUME NEW p \in Proc, ReadDocument(p),
             UNCHANGED <<realm, books, plans, previewed, callVars, posts>>
     PROVE  Shape'
  <2>1. PolicyTypeOK'
    <3>1. change[p] \in Patch /\ change[p].slug \in Slug
        BY <1>17, <1>0 DEF ReadDocument, Phases, PolicyTypeOK
    <3>2. \A old \in Policy :
             [old EXCEPT !.companies[change[p].slug] = Patched(@, change[p])] \in Policy
        BY <3>1, PatchedTypes DEF Policy
    <3>3. (IF policy = None THEN EmptyPolicy ELSE policy) \in Policy
        BY <1>0, EmptyTypes DEF PolicyTypeOK
    <3>4. doc' = [doc EXCEPT ![p] = doc'[p]] /\ doc'[p] \in Policy
        BY <1>17, <1>0, <3>2, <3>3 DEF ReadDocument, PolicyTypeOK
    <3>5. doc' \in [Proc -> Policy \cup {None}]
        BY <1>0, <3>4 DEF PolicyTypeOK
    <3>6. /\ upc' = [upc EXCEPT ![p] = "replace"] /\ upc[p] = "read" /\ backup' = policy
          /\ UNCHANGED <<policy, gen, cache, lock, change, want>>
        BY <1>17 DEF ReadDocument, BackUp, UGoto
    <3> QED
        BY <1>0, <3>5, <3>6 DEF PolicyTypeOK
  <2>2. TypeOK'
      BY <1>17, <1>0, <2>1 DEF ReadDocument, TypeOK
  <2>3. Phases'
    <3>1. change[p] \in Patch /\ change[p].slug \in Slug
        BY <1>17, <1>0 DEF ReadDocument, Phases, PolicyTypeOK
    <3>2. \A old \in Policy :
             [old EXCEPT !.companies[change[p].slug] = Patched(@, change[p])] \in Policy
        BY <3>1, PatchedTypes DEF Policy
    <3>3. (IF policy = None THEN EmptyPolicy ELSE policy) \in Policy
        BY <1>0, EmptyTypes DEF PolicyTypeOK
    <3>4. doc' = [doc EXCEPT ![p] = doc'[p]] /\ doc'[p] \in Policy
        BY <1>17, <1>0, <3>2, <3>3 DEF ReadDocument, PolicyTypeOK
    <3>6. upc' = [upc EXCEPT ![p] = "replace"] /\ upc[p] = "read" /\ UNCHANGED change
        BY <1>17 DEF ReadDocument, UGoto
    <3> QED
        BY <1>17, <1>0, <3>4, <3>6 DEF Phases, PolicyTypeOK
  <2> QED
      BY <2>1, <2>2, <2>3
<1>18. ASSUME NEW p \in Proc, Replace(p),
             UNCHANGED <<realm, books, plans, previewed, callVars, posts>>
     PROVE  Shape'
  <2>1. PolicyTypeOK'
    <3>1. change[p] \in Patch /\ change[p].slug \in Slug
        BY <1>18, <1>0 DEF Replace, Phases, PolicyTypeOK
    <3>2. doc[p] \in Policy /\ upc[p] = "replace" /\ lock = p
        BY <1>18, <1>0 DEF Replace, Phases, PolicyTypeOK
    <3>3. want' \in [Slug -> Rules]
        BY <1>18, <1>0, <3>1, PatchedTypes DEF Replace, PolicyTypeOK
    <3>4. gen' \in 0..MaxGen
        BY <1>18, <1>0 DEF Replace, PolicyTypeOK
    <3> QED
        BY <1>18, <1>0, <3>2, <3>3, <3>4 DEF Replace, Release, UGoto, PolicyTypeOK
  <2>2. TypeOK'
      BY <1>18, <1>0, <2>1 DEF Replace, TypeOK
  <2>3. Phases'
      BY <1>18, <1>0 DEF Replace, Phases, TypeOK, Release, Posting, Checking,
              PolicyTypeOK, UGoto
  <2> QED
      BY <2>1, <2>2, <2>3
<1>19. ASSUME NEW p \in Proc, FailUpdate(p),
             UNCHANGED <<realm, books, plans, previewed, callVars, posts>>
     PROVE  Shape'
  <2>1. PolicyTypeOK'
      BY <1>19, <1>0 DEF FailUpdate, PolicyTypeOK, Release, UGoto
  <2>2. TypeOK'
      BY <1>19, <1>0, <2>1 DEF FailUpdate, TypeOK
  <2>3. Phases'
      BY <1>19, <1>0 DEF FailUpdate, Phases, TypeOK, Release, Posting, Checking,
              PolicyTypeOK, UGoto
  <2> QED
      BY <2>1, <2>2, <2>3
<1>20. ASSUME DeleteFile, UNCHANGED <<realm, books, plans, previewed, callVars, posts>>
     PROVE  Shape'
  <2>1. PolicyTypeOK'
      BY <1>20, <1>0, EmptyTypes DEF DeleteFile, PolicyTypeOK
  <2>2. TypeOK'
      BY <1>20, <1>0, <2>1 DEF DeleteFile, TypeOK
  <2>3. Phases'
      BY <1>20, <1>0 DEF DeleteFile, Phases, TypeOK, Posting, Checking, PolicyTypeOK
  <2> QED
      BY <2>1, <2>2, <2>3
<1>21. CASE UNCHANGED vars
    BY <1>21, <1>0 DEF vars, PolicyTypeOK, TypeOK, Phases, Posting, Checking
<1> QED
    BY <1>1, <1>2, <1>3, <1>4, <1>5, <1>6, <1>7, <1>8, <1>9, <1>10, <1>11, <1>12, <1>13,
            <1>14, <1>15, <1>16, <1>17, <1>18, <1>19, <1>20, <1>21 DEF
            Next, Step, PolicyNext

-----------------------------------------------------------------------------
(* Updates: the rules users set are in the file, or in the document that is about to *)
(* replace it, unless the file is gone.                                               *)

Updates ==
    /\ policy = None /\ backup = None => want = NoCompanies
    /\ \A p \in Proc : upc[p] = "replace" =>
          /\ doc[p].companies = [want EXCEPT ![change[p].slug] = Patched(@, change[p])]
          /\ backup = None => policy = None

\* ReadDocument takes in what users have set so far, and until Replace the lock keeps others out.
LEMMA UpdatesStep ==
    ASSUME Shape, Updates, RulesKept, [Next]_vars PROVE Updates' /\ RulesKept'
<1>0. TypeOK /\ PolicyTypeOK /\ Phases /\ Updates /\ RulesKept
    BY DEF Shape, TypeOK
<1>1. ASSUME NEW c \in Call, NEW e \in Entry, NEW k \in Plan \cup {None},
            NEW companies \in Companies, Request(c, e, k, companies)
     PROVE  Updates' /\ RulesKept'
  <2>1. Updates'
      BY <1>1, <1>0 DEF Request, Updates, Goto
  <2>2. RulesKept'
      BY <1>1, <1>0 DEF Request, RulesKept, Goto
  <2> QED
      BY <2>1, <2>2
<1>2. ASSUME NEW c \in Call, Resolve(c)
     PROVE  Updates' /\ RulesKept'
  <2>1. Updates'
      BY <1>2, <1>0 DEF Resolve, Updates, CacheCopy
  <2>2. RulesKept'
      BY <1>2, <1>0 DEF Resolve, RulesKept, CacheCopy
  <2> QED
      BY <2>1, <2>2
<1>3. ASSUME NEW c \in Call, RefuseResolve(c)
     PROVE  Updates' /\ RulesKept'
  <2>1. Updates'
      BY <1>3, <1>0 DEF RefuseResolve, Updates, End, Reset
  <2>2. RulesKept'
      BY <1>3, <1>0 DEF RefuseResolve, RulesKept, End, Reset
  <2> QED
      BY <2>1, <2>2
<1>4. ASSUME NEW c \in Call, NEW k \in Plan, Preview(c, k)
     PROVE  Updates' /\ RulesKept'
  <2>1. Updates'
      BY <1>4, <1>0 DEF Preview, Updates, End, Reset
  <2>2. RulesKept'
      BY <1>4, <1>0 DEF Preview, RulesKept, End, Reset
  <2> QED
      BY <2>1, <2>2
<1>5. ASSUME NEW c \in Call, Confirm(c)
     PROVE  Updates' /\ RulesKept'
  <2>1. Updates'
      BY <1>5, <1>0 DEF Confirm, Updates, TakePlan, Goto
  <2>2. RulesKept'
      BY <1>5, <1>0 DEF Confirm, RulesKept, TakePlan, Goto
  <2> QED
      BY <2>1, <2>2
<1>6. ASSUME NEW c \in Call, RefusePlan(c)
     PROVE  Updates' /\ RulesKept'
  <2>1. Updates'
      BY <1>6, <1>0 DEF RefusePlan, Updates, TakePlan, End, Reset
  <2>2. RulesKept'
      BY <1>6, <1>0 DEF RefusePlan, RulesKept, TakePlan, End, Reset
  <2> QED
      BY <2>1, <2>2
<1>7. ASSUME NEW c \in Call, Check(c)
     PROVE  Updates' /\ RulesKept'
  <2>1. Updates'
      BY <1>7, <1>0 DEF Check, Updates, Goto
  <2>2. RulesKept'
      BY <1>7, <1>0 DEF Check, RulesKept, Goto
  <2> QED
      BY <2>1, <2>2
<1>8. ASSUME NEW c \in Call, Judge(c)
     PROVE  Updates' /\ RulesKept'
  <2>1. Updates'
      BY <1>8, <1>0 DEF Judge, Updates, Loaded, Goto, CacheCopy
  <2>2. RulesKept'
      BY <1>8, <1>0 DEF Judge, RulesKept, Loaded, Goto, CacheCopy
  <2> QED
      BY <2>1, <2>2
<1>9. ASSUME NEW c \in Call, Send(c)
     PROVE  Updates' /\ RulesKept'
  <2>1. Updates'
      BY <1>9, <1>0 DEF Send, Updates, Dropped, Goto
  <2>2. RulesKept'
      BY <1>9, <1>0 DEF Send, RulesKept, Dropped, Goto
  <2> QED
      BY <2>1, <2>2
<1>10. ASSUME NEW c \in Call, PostFails(c)
     PROVE  Updates' /\ RulesKept'
  <2>1. Updates'
      BY <1>10, <1>0 DEF PostFails, Updates, Loaded, Dropped, CacheCopy, Goto
  <2>2. RulesKept'
      BY <1>10, <1>0 DEF PostFails, RulesKept, Loaded, Dropped, CacheCopy, Goto
  <2> QED
      BY <2>1, <2>2
<1>11. ASSUME NEW c \in Call, PolicyMissing(c)
     PROVE  Updates' /\ RulesKept'
  <2>1. Updates'
      BY <1>11, <1>0 DEF PolicyMissing, Updates, CacheCopy
  <2>2. RulesKept'
      BY <1>11, <1>0 DEF PolicyMissing, RulesKept, CacheCopy
  <2> QED
      BY <2>1, <2>2
<1>12. ASSUME NEW c \in Call, Done(c)
     PROVE  Updates' /\ RulesKept'
  <2>1. Updates'
      BY <1>12, <1>0 DEF Done, Updates, End, Reset
  <2>2. RulesKept'
      BY <1>12, <1>0 DEF Done, RulesKept, End, Reset
  <2> QED
      BY <2>1, <2>2
<1>13. ASSUME NEW k \in Plan, ExpirePlan(k)
     PROVE  Updates' /\ RulesKept'
  <2>1. Updates'
      BY <1>13, <1>0 DEF ExpirePlan, Updates
  <2>2. RulesKept'
      BY <1>13, <1>0 DEF ExpirePlan, RulesKept
  <2> QED
      BY <2>1, <2>2
<1>14. ASSUME NEW s \in Slug, EditBooks(s)
     PROVE  Updates' /\ RulesKept'
  <2>1. Updates'
      BY <1>14, <1>0 DEF EditBooks, Updates
  <2>2. RulesKept'
      BY <1>14, <1>0 DEF EditBooks, RulesKept
  <2> QED
      BY <2>1, <2>2
<1>15. CASE RestartServer
  <2>1. Updates'
      BY <1>15, <1>0 DEF PolicyTypeOK, Phases, RestartServer, Updates, End, Release,
              Reset, UGoto
  <2>2. RulesKept'
      BY <1>15, <1>0 DEF PolicyTypeOK, Phases, RestartServer, RulesKept, End, Release,
              Reset, UGoto
  <2> QED
      BY <2>1, <2>2
<1>16. ASSUME NEW p \in Proc, NEW patch \in Patch, SetCompanyPolicy(p, patch),
             UNCHANGED <<realm, books, plans, previewed, callVars, posts>>
     PROVE  Updates' /\ RulesKept'
  <2>1. Updates'
      BY <1>16, <1>0 DEF PolicyTypeOK, Phases, SetCompanyPolicy, Updates, UGoto
  <2>2. RulesKept'
      BY <1>16, <1>0 DEF PolicyTypeOK, Phases, SetCompanyPolicy, RulesKept, UGoto
  <2> QED
      BY <2>1, <2>2
<1>17. ASSUME NEW p \in Proc, ReadDocument(p),
             UNCHANGED <<realm, books, plans, previewed, callVars, posts>>
     PROVE  Updates' /\ RulesKept'
  <2>1. Updates'
    <3>1. ASSUME NEW q \in Proc, upc'[q] = "replace"
          PROVE  /\ doc'[q].companies =
                       [want' EXCEPT ![change'[q].slug] = Patched(@, change'[q])]
                 /\ backup' = None => policy' = None
      <4>1. q = p
          BY <1>17, <1>0, <3>1 DEF ReadDocument, UGoto, PolicyTypeOK
      <4>2. (IF policy = None THEN EmptyPolicy ELSE policy).companies = want
          BY <1>17, <1>0 DEF PolicyTypeOK, Phases, ReadDocument, Lost, EmptyPolicy,
                  Updates, RulesKept
      <4>3. doc'[p].companies = [want EXCEPT ![change[p].slug] = Patched(@, change[p])]
        <5>1. change[p].slug \in Slug
            BY <1>17, <1>0 DEF PolicyTypeOK, Phases, ReadDocument, Phases
        <5>2. (IF policy = None THEN EmptyPolicy ELSE policy) \in Policy
            BY <1>0, EmptyTypes DEF PolicyTypeOK
        <5>3. \A old \in Policy : [old EXCEPT !.companies[change[p].slug] = Patched(@, change[p])].companies
                 = [old.companies EXCEPT ![change[p].slug] = Patched(@, change[p])]
            BY DEF Policy
        <5>4. doc'[p] = [(IF policy = None THEN EmptyPolicy ELSE policy) EXCEPT
                             !.companies[change[p].slug] = Patched(@, change[p])]
            BY <1>17, <1>0 DEF PolicyTypeOK, Phases, ReadDocument, PolicyTypeOK
        <5> QED
            BY <4>2, <5>2, <5>3, <5>4
      <4> QED
          BY <1>17, <4>1, <4>3 DEF ReadDocument, BackUp
    <3>2. policy' = None /\ backup' = None => want' = NoCompanies
        BY <1>17, <1>0 DEF PolicyTypeOK, Phases, ReadDocument, Lost, Updates
    <3> QED
        BY <3>1, <3>2 DEF Updates
  <2>2. RulesKept'
      BY <1>17, <1>0 DEF PolicyTypeOK, Phases, ReadDocument, RulesKept, Lost, BackUp,
              EmptyPolicy, UGoto
  <2> QED
      BY <2>1, <2>2
<1>18. ASSUME NEW p \in Proc, Replace(p),
             UNCHANGED <<realm, books, plans, previewed, callVars, posts>>
     PROVE  Updates' /\ RulesKept'
  <2>1. Updates'
    <3>1. \A q \in Proc : upc'[q] # "replace"
        BY <1>18, <1>0 DEF PolicyTypeOK, Phases, Replace, Release, UGoto, PolicyTypeOK
    <3>2. policy' # None
        BY <1>18, <1>0 DEF PolicyTypeOK, Phases, Replace, Phases
    <3> QED
        BY <3>1, <3>2 DEF Updates
  <2>2. RulesKept'
    <3>1. policy' = doc[p] /\ upc[p] = "replace"
        BY <1>18 DEF Replace
    <3>2. want' = [want EXCEPT ![change[p].slug] = Patched(@, change[p])]
        BY <1>18 DEF Replace
    <3> QED
        BY <1>0, <3>1, <3>2 DEF Updates, RulesKept
  <2> QED
      BY <2>1, <2>2
<1>19. ASSUME NEW p \in Proc, FailUpdate(p),
             UNCHANGED <<realm, books, plans, previewed, callVars, posts>>
     PROVE  Updates' /\ RulesKept'
  <2>1. Updates'
      BY <1>19, <1>0 DEF PolicyTypeOK, Phases, FailUpdate, Updates, Release, UGoto
  <2>2. RulesKept'
      BY <1>19, <1>0 DEF PolicyTypeOK, Phases, FailUpdate, RulesKept, Release, UGoto
  <2> QED
      BY <2>1, <2>2
<1>20. ASSUME DeleteFile, UNCHANGED <<realm, books, plans, previewed, callVars, posts>>
     PROVE  Updates' /\ RulesKept'
  <2>1. Updates'
      BY <1>20, <1>0 DEF PolicyTypeOK, Phases, DeleteFile, Updates
  <2>2. RulesKept'
      BY <1>20, <1>0 DEF PolicyTypeOK, Phases, DeleteFile, RulesKept
  <2> QED
      BY <2>1, <2>2
<1>21. CASE UNCHANGED vars
    BY <1>21, <1>0 DEF vars, Updates, RulesKept
<1> QED
    BY <1>1, <1>2, <1>3, <1>4, <1>5, <1>6, <1>7, <1>8, <1>9, <1>10, <1>11, <1>12, <1>13,
            <1>14, <1>15, <1>16, <1>17, <1>18, <1>19, <1>20, <1>21 DEF
            Next, Step, PolicyNext

-----------------------------------------------------------------------------
(* Plans: who may still post under a plan.  A plan that waits has posted nothing and *)
(* nobody posts under it, so whoever takes it is alone with it.                      *)

Waits(k) ==
    plans[k] # None =>
        /\ previewed[k] = plans[k]
        /\ \A s \in Slug : posts[k][s] = 0
        /\ \A c \in Call : pc[c] \in Posting => plan[c] # k

Unused(k) ==
    previewed[k] = None => plans[k] = None /\ \A s \in Slug : posts[k][s] = 0

\* What the call has still to post is what its plan showed and has not posted.
Poster(c) ==
    pc[c] \in Posting =>
        /\ manifest[c] = previewed[plan[c]]
        /\ \A s \in left[c] : posts[plan[c]][s] = 0 /\ manifest[c].seen[s] # None
        /\ \A d \in Call : pc[d] \in Posting /\ plan[d] = plan[c] => d = c

Plans ==
    /\ \A k \in Plan : Waits(k) /\ Unused(k) /\ \A s \in Slug : posts[k][s] <= 1
    /\ \A c \in Call : Poster(c)

\* Confirm takes the plan it posts under and is alone with it; Send drops its company.
LEMMA PlansStep ==
    ASSUME Shape, Plans, [Next]_vars PROVE Plans'
<1>0. TypeOK /\ Phases /\ Plans
    BY DEF Shape
<1>1. ASSUME NEW c \in Call, NEW e \in Entry, NEW k \in Plan \cup {None},
            NEW companies \in Companies, Request(c, e, k, companies)
     PROVE  Plans'
    BY <1>1, <1>0 DEF Request, Plans, TypeOK, Goto, Waits, Unused, Poster, Manifest,
            Posting
<1>2. ASSUME NEW c \in Call, Resolve(c)
     PROVE  Plans'
    BY <1>2, <1>0 DEF Resolve, Plans, TypeOK, CacheCopy, Waits, Unused, Poster,
            Manifest, Posting
<1>3. ASSUME NEW c \in Call, RefuseResolve(c)
     PROVE  Plans'
    BY <1>3, <1>0 DEF RefuseResolve, Plans, TypeOK, End, Waits, Unused, Poster,
            Manifest, Reset, Posting
<1>4. ASSUME NEW c \in Call, NEW k \in Plan, Preview(c, k)
     PROVE  Plans'
  <2>1. /\ plans' = [plans EXCEPT ![k] = manifest[c]]
        /\ previewed' = [previewed EXCEPT ![k] = manifest[c]]
        /\ previewed[k] = None /\ posts' = posts /\ manifest[c] # None
      BY <1>4, <1>0 DEF Preview, Phases
  <2>2. /\ pc' = [pc EXCEPT ![c] = "idle"] /\ pc[c] = "resolve"
        /\ \A d \in Call \ {c} : UNCHANGED <<plan[d], left[d], manifest[d]>>
      BY <1>4, <1>0 DEF Preview, End, Reset, TypeOK
  <2>3. \A d \in Call : pc'[d] \in Posting => /\ d # c /\ pc[d] \in Posting /\ plan[d] \in Plan
                                            /\ plan[d] # k /\ manifest[d] # None
    <3>1. \A d \in Call : pc'[d] \in Posting => d # c /\ pc[d] \in Posting
        BY <1>0, <2>2 DEF TypeOK, Posting
    <3>2. \A d \in Call : pc[d] \in Posting => plan[d] \in Plan /\ manifest[d] # None
        BY <1>0 DEF Phases, Posting
    <3>3. \A d \in Call : pc[d] \in Posting => plan[d] # k
        BY <1>0, <2>1, <3>2 DEF Plans, Poster
    <3> QED
        BY <3>1, <3>2, <3>3
  <2>4. ASSUME NEW m \in Plan PROVE (Waits(m) /\ Unused(m) /\ \A s \in Slug : posts[m][s] <= 1)'
    <3>1. CASE m = k
        BY <1>0, <2>1, <2>2, <2>3, <3>1 DEF Plans, Waits, Unused, TypeOK
    <3>2. CASE m # k
        BY <1>0, <2>1, <2>2, <2>3, <3>2 DEF Plans, Waits, Unused, TypeOK
    <3> QED
        BY <3>1, <3>2
  <2>5. ASSUME NEW d \in Call PROVE Poster(d)'
      BY <1>0, <2>1, <2>2, <2>3 DEF Plans, Poster, TypeOK
  <2> QED
      BY <2>4, <2>5 DEF Plans
<1>5. ASSUME NEW c \in Call, Confirm(c)
     PROVE  Plans'
  <2> DEFINE k == plan[c]
  <2>1. /\ k \in Plan /\ plans[k] = manifest[c] /\ manifest[c] # None
        /\ plans' = [plans EXCEPT ![k] = None]
        /\ UNCHANGED <<previewed, posts, plan, manifest>>
      BY <1>5, <1>0 DEF Confirm, TakePlan, Phases, TypeOK
  <2>2. /\ pc' = [pc EXCEPT ![c] = "post"]
        /\ left' = [left EXCEPT ![c] = {s \in Slug : manifest[c].seen[s] # None}]
      BY <1>5 DEF Confirm, Goto
  <2>3. /\ previewed[k] = manifest[c]
        /\ \A s \in Slug : posts[k][s] = 0
        /\ \A d \in Call : pc[d] \in Posting => plan[d] # k
      BY <1>0, <2>1 DEF Plans, Waits
  <2> HIDE DEF k
  <2>4. ASSUME NEW m \in Plan PROVE (Waits(m) /\ Unused(m) /\ \A s \in Slug : posts[m][s] <= 1)'
    <3>1. CASE m = k
        BY <1>0, <2>1, <2>3, <3>1 DEF Plans, Waits, Unused, TypeOK
    <3>2. CASE m # k
      <4>1. plans'[m] = plans[m]
          BY <1>0, <2>1, <3>2 DEF TypeOK
      <4>2. plan[c] # m
          BY <3>2 DEF k
      <4>3. \A d \in Call : pc'[d] \in Posting => d = c \/ pc[d] \in Posting
          BY <1>0, <2>2 DEF TypeOK
      <4> QED
          BY <1>0, <2>1, <4>1, <4>2, <4>3 DEF Plans, Waits, Unused
    <3> QED
        BY <3>1, <3>2
  <2>5. ASSUME NEW d \in Call PROVE Poster(d)'
    <3>1. CASE d = c
        BY <1>0, <2>1, <2>2, <2>3, <3>1 DEF Poster, TypeOK, k
    <3>2. CASE d # c
        BY <1>0, <2>1, <2>2, <2>3, <3>2 DEF Plans, Poster, TypeOK, k
    <3> QED
        BY <3>1, <3>2
  <2> QED
      BY <2>4, <2>5 DEF Plans
<1>6. ASSUME NEW c \in Call, RefusePlan(c)
     PROVE  Plans'
    BY <1>6, <1>0 DEF RefusePlan, Plans, TypeOK, TakePlan, End, Waits, Unused, Poster,
            Manifest, Reset, Posting
<1>7. ASSUME NEW c \in Call, Check(c)
     PROVE  Plans'
    BY <1>7, <1>0 DEF Check, Plans, TypeOK, Goto, Waits, Unused, Poster, Manifest,
            Posting
<1>8. ASSUME NEW c \in Call, Judge(c)
     PROVE  Plans'
    BY <1>8, <1>0 DEF Judge, Plans, TypeOK, Loaded, Goto, Waits, Unused, Poster,
            Manifest, CacheCopy, Posting
<1>9. ASSUME NEW c \in Call, Send(c)
     PROVE  Plans'
  <2> DEFINE k == plan[c]
             t == at[c]
  <2>1. /\ k \in Plan /\ t \in left[c] /\ t \in Slug /\ pc[c] = "send"
        /\ UNCHANGED <<plans, previewed, plan, manifest>>
        /\ manifest[c] # None
      BY <1>9, <1>0 DEF Send, Phases, Posting, Checking, TypeOK
  <2>2. /\ pc' = [pc EXCEPT ![c] = "post"]
        /\ left' = [left EXCEPT ![c] = @ \ {t}]
        /\ posts' = [posts EXCEPT ![k][t] = @ + 1]
      BY <1>9 DEF Send, Dropped, Goto
  <2>3. /\ previewed[k] = manifest[c] /\ posts[k][t] = 0
        /\ \A d \in Call : pc[d] \in Posting /\ d # c => plan[d] # k
      BY <1>0, <2>1 DEF Plans, Poster, Posting
  <2>4. plans[k] = None
      BY <1>0, <2>1 DEF Plans, Waits, Posting
  <2> HIDE DEF k, t
  <2>5. /\ \A s \in Slug : posts'[k][s] = IF s = t THEN 1 ELSE posts[k][s]
        /\ \A m \in Plan : m # k => posts'[m] = posts[m]
      BY <1>0, <2>1, <2>2, <2>3 DEF TypeOK
  <2>6. \A d \in Call : pc'[d] \in Posting <=> pc[d] \in Posting
      BY <1>0, <2>1, <2>2 DEF TypeOK, Posting
  <2>7. ASSUME NEW m \in Plan PROVE (Waits(m) /\ Unused(m) /\ \A s \in Slug : posts[m][s] <= 1)'
    <3>1. CASE m = k
        BY <1>0, <2>1, <2>3, <2>4, <2>5, <3>1 DEF Plans, Waits, Unused
    <3>2. CASE m # k
        BY <1>0, <2>1, <2>5, <2>6, <3>2 DEF Plans, Waits, Unused
    <3> QED
        BY <3>1, <3>2
  <2>8. ASSUME NEW d \in Call PROVE Poster(d)'
    <3>1. CASE d = c
      <4>1. \A s \in left'[c] : s \in left[c] /\ s # t /\ s \in Slug
          BY <1>0, <2>2 DEF TypeOK
      <4> QED
          BY <1>0, <2>1, <2>5, <2>6, <3>1, <4>1 DEF Plans, Poster, k
    <3>2. CASE d # c
      <4>1. left'[d] = left[d]
          BY <1>0, <2>2, <3>2 DEF TypeOK
      <4>2. pc[d] \in Posting => plan[d] \in Plan /\ plan[d] # k
          BY <1>0, <2>3, <3>2 DEF Phases
      <4> QED
          BY <1>0, <2>1, <2>5, <2>6, <4>1, <4>2 DEF Plans, Poster
    <3> QED
        BY <3>1, <3>2
  <2> QED
      BY <2>7, <2>8 DEF Plans
<1>10. ASSUME NEW c \in Call, PostFails(c)
     PROVE  Plans'
    BY <1>10, <1>0 DEF PostFails, Plans, TypeOK, Loaded, Dropped, Waits, Unused, Poster,
            Manifest, CacheCopy, Goto, Posting
<1>11. ASSUME NEW c \in Call, PolicyMissing(c)
     PROVE  Plans'
    BY <1>11, <1>0 DEF PolicyMissing, Plans, TypeOK, CacheCopy, Waits, Unused, Poster,
            Manifest, Posting
<1>12. ASSUME NEW c \in Call, Done(c)
     PROVE  Plans'
    BY <1>12, <1>0 DEF Done, Plans, TypeOK, End, Waits, Unused, Poster, Manifest, Reset,
            Posting
<1>13. ASSUME NEW k \in Plan, ExpirePlan(k)
     PROVE  Plans'
    BY <1>13, <1>0 DEF ExpirePlan, Plans, TypeOK, Waits, Unused, Poster, Manifest,
            Posting
<1>14. ASSUME NEW s \in Slug, EditBooks(s)
     PROVE  Plans'
    BY <1>14, <1>0 DEF EditBooks, Plans, TypeOK, Waits, Unused, Poster, Manifest,
            Posting
<1>15. CASE RestartServer
    BY <1>15, <1>0 DEF RestartServer, Plans, TypeOK, End, Release, Waits, Unused,
            Poster, Manifest, Reset, UGoto, Posting
<1>16. ASSUME NEW p \in Proc, NEW patch \in Patch, SetCompanyPolicy(p, patch),
             UNCHANGED <<realm, books, plans, previewed, callVars, posts>>
     PROVE  Plans'
    BY <1>16, <1>0 DEF SetCompanyPolicy, Plans, TypeOK, UGoto, Waits, Unused, Poster,
            Manifest, Posting
<1>17. ASSUME NEW p \in Proc, ReadDocument(p),
             UNCHANGED <<realm, books, plans, previewed, callVars, posts>>
     PROVE  Plans'
    BY <1>17, <1>0 DEF ReadDocument, Plans, TypeOK, Lost, BackUp, EmptyPolicy, UGoto,
            Waits, Unused, Poster, Manifest, Posting
<1>18. ASSUME NEW p \in Proc, Replace(p),
             UNCHANGED <<realm, books, plans, previewed, callVars, posts>>
     PROVE  Plans'
    BY <1>18, <1>0 DEF Replace, Plans, TypeOK, Release, Waits, Unused, Poster, Manifest,
            UGoto, Posting
<1>19. ASSUME NEW p \in Proc, FailUpdate(p),
             UNCHANGED <<realm, books, plans, previewed, callVars, posts>>
     PROVE  Plans'
    BY <1>19, <1>0 DEF FailUpdate, Plans, TypeOK, Release, Waits, Unused, Poster,
            Manifest, UGoto, Posting
<1>20. ASSUME DeleteFile, UNCHANGED <<realm, books, plans, previewed, callVars, posts>>
     PROVE  Plans'
    BY <1>20, <1>0 DEF DeleteFile, Plans, TypeOK, Waits, Unused, Poster, Manifest,
            Posting
<1>21. CASE UNCHANGED vars
    BY <1>21, <1>0 DEF vars, Plans, TypeOK, Waits, Unused, Poster, Manifest, Posting
<1> QED
    BY <1>1, <1>2, <1>3, <1>4, <1>5, <1>6, <1>7, <1>8, <1>9, <1>10, <1>11, <1>12, <1>13,
            <1>14, <1>15, <1>16, <1>17, <1>18, <1>19, <1>20, <1>21 DEF
            Next, Step, PolicyNext

-----------------------------------------------------------------------------
(* Guards: a call that sends has a copy from its own check, which permits the entry *)
(* under every name of the books.                                                   *)

Guarded(c) ==
    /\ pc[c] \in Checking => copy[c].gen = since[c]
    /\ pc[c] = "send" =>
          \A t \in Siblings(at[c]) : Allows(RulesOf(copy[c].policy, t), entry[c], TRUE)

Guards == \A c \in Call : Guarded(c)

\* Judge is the action that lets a call send, after StrictestWins.
LEMMA GuardsStep ==
    ASSUME Shape, Guards, [Next]_vars PROVE Guards'
<1>0. TypeOK /\ Phases /\ Guards
    BY DEF Shape
<1>1. ASSUME NEW c \in Call, NEW e \in Entry, NEW k \in Plan \cup {None},
            NEW companies \in Companies, Request(c, e, k, companies)
     PROVE  Guards'
    BY <1>1, <1>0 DEF Request, Guards, TypeOK, Goto, Guarded, Checking, Siblings
<1>2. ASSUME NEW c \in Call, Resolve(c)
     PROVE  Guards'
    BY <1>2, <1>0 DEF Resolve, Guards, TypeOK, CacheCopy, Guarded, Checking, Siblings
<1>3. ASSUME NEW c \in Call, RefuseResolve(c)
     PROVE  Guards'
    BY <1>3, <1>0 DEF RefuseResolve, Guards, TypeOK, End, Guarded, Reset, Checking,
            Siblings
<1>4. ASSUME NEW c \in Call, NEW k \in Plan, Preview(c, k)
     PROVE  Guards'
    BY <1>4, <1>0 DEF Preview, Guards, TypeOK, End, Guarded, Reset, Checking, Siblings
<1>5. ASSUME NEW c \in Call, Confirm(c)
     PROVE  Guards'
    BY <1>5, <1>0 DEF Confirm, Guards, TypeOK, TakePlan, Goto, Guarded, Checking,
            Siblings
<1>6. ASSUME NEW c \in Call, RefusePlan(c)
     PROVE  Guards'
    BY <1>6, <1>0 DEF RefusePlan, Guards, TypeOK, TakePlan, End, Guarded, Reset,
            Checking, Siblings
<1>7. ASSUME NEW c \in Call, Check(c)
     PROVE  Guards'
  <2>1. /\ copy' = [copy EXCEPT ![c] = Load] /\ since' = [since EXCEPT ![c] = gen]
        /\ Load.gen = gen
      BY <1>7, <1>0 DEF Check, Load
  <2>2. pc'[c] # "send" /\ UNCHANGED <<realm, entry>>
      BY <1>7, <1>0 DEF Check, Goto, TypeOK
  <2>3. \A d \in Call \ {c} : UNCHANGED <<pc[d], at[d], copy[d], since[d]>>
      BY <1>7, <1>0 DEF Check, Goto, TypeOK
  <2>4. ASSUME NEW d \in Call PROVE Guarded(d)'
    <3>1. CASE d = c
        BY <1>0, <2>1, <2>2, <3>1 DEF Guarded, TypeOK
    <3>2. CASE d # c
        BY <1>0, <2>2, <2>3, <3>2 DEF Guards, Guarded, Siblings
    <3> QED
        BY <3>1, <3>2
  <2> QED
      BY <2>4 DEF Guards
<1>8. ASSUME NEW c \in Call, Judge(c)
     PROVE  Guards'
  <2>1. /\ pc' = [pc EXCEPT ![c] = "send"] /\ pc[c] \in Checking
        /\ UNCHANGED <<realm, entry, at, copy, since>>
        /\ Allows(Effective(copy[c].policy, at[c], Siblings(at[c])), entry[c], TRUE)
      BY <1>8 DEF Judge, Goto, Allowed, Checking
  <2>2. /\ copy[c].policy \in Policy /\ at[c] \in Slug
        /\ entry[c] \in [lines : Lines, date : Nat]
    <3>1. copy[c] \in Copy /\ at[c] \in left[c] /\ left[c] \in SUBSET Slug /\ entry[c] \in Entry
        BY <1>0, <2>1 DEF Phases, Checking, TypeOK
    <3> QED
        BY <3>1 DEF Copy, Lines
  <2>3. Siblings(at[c]) \in SUBSET Slug
      BY DEF Siblings
  <2>4. \A t \in Siblings(at[c]) : Allows(RulesOf(copy[c].policy, t), entry[c], TRUE)
      BY <2>1, <2>2, <2>3, StrictestWins
  <2>5. ASSUME NEW d \in Call PROVE Guarded(d)'
    <3>1. CASE d = c
      <4>1. copy[c].gen = since[c]
          BY <1>0, <2>1 DEF Guards, Guarded
      <4>2. Siblings(at[c])' = Siblings(at[c])
          BY <2>1 DEF Siblings
      <4> QED
          BY <2>1, <2>4, <3>1, <4>1, <4>2 DEF Guarded
    <3>2. CASE d # c
      <4>1. pc'[d] = pc[d]
          BY <1>0, <2>1, <3>2 DEF TypeOK
      <4>2. Siblings(at[d])' = Siblings(at[d])
          BY <2>1 DEF Siblings
      <4> QED
          BY <1>0, <2>1, <4>1, <4>2 DEF Guards, Guarded
    <3> QED
        BY <3>1, <3>2
  <2> QED
      BY <2>5 DEF Guards
<1>9. ASSUME NEW c \in Call, Send(c)
     PROVE  Guards'
    BY <1>9, <1>0 DEF Send, Guards, TypeOK, Dropped, Guarded, Goto, Checking, Siblings
<1>10. ASSUME NEW c \in Call, PostFails(c)
     PROVE  Guards'
    BY <1>10, <1>0 DEF PostFails, Guards, TypeOK, Loaded, Dropped, Guarded, CacheCopy,
            Goto, Checking, Siblings
<1>11. ASSUME NEW c \in Call, PolicyMissing(c)
     PROVE  Guards'
    BY <1>11, <1>0 DEF PolicyMissing, Guards, TypeOK, CacheCopy, Guarded, Checking,
            Siblings
<1>12. ASSUME NEW c \in Call, Done(c)
     PROVE  Guards'
    BY <1>12, <1>0 DEF Done, Guards, TypeOK, End, Guarded, Reset, Checking, Siblings
<1>13. ASSUME NEW k \in Plan, ExpirePlan(k)
     PROVE  Guards'
    BY <1>13, <1>0 DEF ExpirePlan, Guards, TypeOK, Guarded, Checking, Siblings
<1>14. ASSUME NEW s \in Slug, EditBooks(s)
     PROVE  Guards'
    BY <1>14, <1>0 DEF EditBooks, Guards, TypeOK, Guarded, Checking, Siblings
<1>15. CASE RestartServer
    BY <1>15, <1>0 DEF RestartServer, Guards, TypeOK, End, Release, Guarded, Reset,
            UGoto, Checking, Siblings
<1>16. ASSUME NEW p \in Proc, NEW patch \in Patch, SetCompanyPolicy(p, patch),
             UNCHANGED <<realm, books, plans, previewed, callVars, posts>>
     PROVE  Guards'
    BY <1>16, <1>0 DEF SetCompanyPolicy, Guards, TypeOK, UGoto, Guarded, Checking,
            Siblings
<1>17. ASSUME NEW p \in Proc, ReadDocument(p),
             UNCHANGED <<realm, books, plans, previewed, callVars, posts>>
     PROVE  Guards'
    BY <1>17, <1>0 DEF ReadDocument, Guards, TypeOK, Lost, BackUp, EmptyPolicy, UGoto,
            Guarded, Checking, Siblings
<1>18. ASSUME NEW p \in Proc, Replace(p),
             UNCHANGED <<realm, books, plans, previewed, callVars, posts>>
     PROVE  Guards'
    BY <1>18, <1>0 DEF Replace, Guards, TypeOK, Release, Guarded, UGoto, Checking,
            Siblings
<1>19. ASSUME NEW p \in Proc, FailUpdate(p),
             UNCHANGED <<realm, books, plans, previewed, callVars, posts>>
     PROVE  Guards'
    BY <1>19, <1>0 DEF FailUpdate, Guards, TypeOK, Release, Guarded, UGoto, Checking,
            Siblings
<1>20. ASSUME DeleteFile, UNCHANGED <<realm, books, plans, previewed, callVars, posts>>
     PROVE  Guards'
    BY <1>20, <1>0 DEF DeleteFile, Guards, TypeOK, Guarded, Checking, Siblings
<1>21. CASE UNCHANGED vars
    BY <1>21, <1>0 DEF vars, Guards, TypeOK, Guarded, Checking, Siblings
<1> QED
    BY <1>1, <1>2, <1>3, <1>4, <1>5, <1>6, <1>7, <1>8, <1>9, <1>10, <1>11, <1>12, <1>13,
            <1>14, <1>15, <1>16, <1>17, <1>18, <1>19, <1>20, <1>21 DEF
            Next, Step, PolicyNext

-----------------------------------------------------------------------------
\* The inductive invariant.
Inv == Shape /\ Updates /\ RulesKept /\ Plans /\ Guards

\* The initial state has every layer.
LEMMA InitInv == Init => Inv
<1> SUFFICES ASSUME Init PROVE Inv
    OBVIOUS
<1>1. Shape
    BY InitShape
<1>2. Updates
    BY DEF Init, PolicyInit, Updates
<1>3. RulesKept
  <2>1. \A r \in {"unset", "locked"} :
           [defaults |-> [NoRules EXCEPT !.read_only = r],
            companies |-> NoCompanies].companies = NoCompanies
      OBVIOUS
  <2> QED
      BY <2>1 DEF Init, PolicyInit, RulesKept
<1>4. Plans
    BY DEF Init, Plans, Waits, Unused, Poster, Posting
<1>5. Guards
    BY DEF Init, Guards, Guarded, Checking
<1> QED
    BY <1>1, <1>2, <1>3, <1>4, <1>5 DEF Inv

\* The layers are inductive, so they hold in every reachable state.
LEMMA Invariance == Spec => []Inv
<1>1. Inv /\ [Next]_vars => Inv'
    BY ShapeStep, UpdatesStep, PlansStep, GuardsStep DEF Inv
<1> QED
    BY InitInv, <1>1, PTL DEF Spec

\* The state keeps its types, and the policy lock is held by the one process that updates
\* (setCompanyPolicy, create_journal_entry_multi).
THEOREM TypeCorrect == Spec => []TypeOK
<1>1. Inv => TypeOK
    BY DEF Inv, Shape
<1> QED
    BY Invariance, <1>1, PTL

\* However many processes change the policy, and whoever deletes the file, an update loses
\* no rule of another update and a lost file is not created again without its rules
\* (setCompanyPolicy, newestPolicyBackup).
THEOREM UpdatesAreKept == Spec => []RulesKept
<1>1. Inv => RulesKept
    BY DEF Inv
<1> QED
    BY Invariance, <1>1, PTL

\* A plan posts what it showed, at most once in each company, for any number of racing
\* confirmations, expiries and restarts (create_journal_entry_multi, pendingWritePlans).
THEOREM PlansPostOnce == Spec => []PlanPostedOnce
<1>1. Inv => PlanPostedOnce
  <2> SUFFICES ASSUME Inv PROVE PlanPostedOnce
      OBVIOUS
  <2>1. \A k \in Plan, s \in Slug : posts[k][s] <= 1
      BY DEF Inv, Plans
  <2>2. ASSUME NEW c \in Call, pc[c] = "send"
        PROVE  manifest[c] = previewed[plan[c]] /\ manifest[c].seen[at[c]] # None
    <3>1. at[c] \in left[c] /\ Poster(c)
        BY <2>2 DEF Inv, Shape, Phases, Checking, Plans
    <3> QED
        BY <2>2, <3>1 DEF Poster, Posting
  <2> QED
      BY <2>1, <2>2 DEF PlanPostedOnce
<1> QED
    BY Invariance, <1>1, PTL
\* Whatever name a journal is written under, its policy check saw the newest rules of every
\* name of those books, and they permit it (checkWritePolicy, policyFor, loadPolicyFile).
THEOREM BooksAreGuarded == Spec => []BooksGuarded
<1>1. Inv => BooksGuarded
  <2> SUFFICES ASSUME Inv, NEW c \in Call, pc[c] = "send"
               PROVE  /\ copy[c].gen >= since[c]
                      /\ \A t \in Siblings(at[c]) : Allows(RulesOf(copy[c].policy, t), entry[c], TRUE)
      BY DEF BooksGuarded
  <2>1. Guarded(c) /\ since[c] \in Nat
      BY DEF Inv, Guards, Shape, TypeOK
  <2>2. copy[c].gen = since[c]
      BY <2>1 DEF Guarded, Checking
  <2>3. \A t \in Siblings(at[c]) : Allows(RulesOf(copy[c].policy, t), entry[c], TRUE)
      BY <2>1 DEF Guarded
  <2>4. copy[c].gen >= since[c]
      BY <2>1, <2>2
  <2> QED
      BY <2>3, <2>4
<1> QED
    BY Invariance, <1>1, PTL
================================================================================
