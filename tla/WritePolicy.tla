------------------------------ MODULE WritePolicy ------------------------------
(***************************************************************************)
(* The write guardrails of src/src/policy.js: one file with default rules  *)
(* and rules for each company, changed by set_company_policy in any of     *)
(* several processes, and read by every write.  JournalPlan adds the       *)
(* writes.                                                                 *)
(*                                                                         *)
(* Abstractions.                                                           *)
(*   - A rule that is absent is "unset" or 0.  Amounts and dates are       *)
(*     numbers; a transaction without a date has date 0.                   *)
(*   - The file's identity (device, inode, size, times) is the number of   *)
(*     the generation: each replacement is a new file.                     *)
(*   - A file that cannot be read, parsed or validated, or is in the wrong *)
(*     place, makes every call throw: Fail.  A missing one is modelled.    *)
(*   - The policy lock is the lock of OwnerLock; the promise queue of a    *)
(*     process makes its updates one.                                      *)
(*   - Backups older than the newest one decide nothing; prunePolicyBackups *)
(*     never removes the newest.                                           *)
(***************************************************************************)
EXTENDS Naturals, Sequences, FiniteSets

CONSTANTS
    Slug,        \* company names
    Proc,        \* connector processes that change the policy
    Server,      \* the one whose writes are modelled
    Patch,       \* the changes users ask for: [slug, key, value]
    None,        \* no file, nobody
    MaxGen       \* bound on the generations of the file

Rules == [read_only : {"unset", "locked", "open"}, cap : Nat, floor : Nat]
Policy == [defaults : Rules, companies : [Slug -> Rules]]

ASSUME WritePolicyAssumption ==
    /\ IsFiniteSet(Slug)
    /\ Server \in Proc
    /\ Patch \subseteq [slug : Slug, key : {"read_only"}, value : {"unset", "locked", "open"}]
                 \cup [slug : Slug, key : {"cap", "floor"}, value : Nat]
    /\ MaxGen \in Nat
    /\ None \notin Policy
    /\ None \notin Proc
    /\ None \notin Patch

VARIABLES
    policy,      \* the policy file
    gen,         \* its generation
    backup,      \* its newest backup
    cache,       \* the server's cached copy: [gen, policy]
    lock,        \* the holder of the policy lock
    upc,         \* each process's step in setCompanyPolicy
    change,      \* the change it makes
    doc,         \* the document it read and changed
    want         \* the rules users have set so far

policyVars == <<policy, gen, backup, cache, lock, upc, change, doc, want>>

Copy == [gen : 0..MaxGen, policy : Policy]

PolicyTypeOK ==
    /\ policy \in Policy \cup {None}
    /\ gen \in 0..MaxGen
    /\ backup \in Policy \cup {None}
    /\ cache \in Copy \cup {None}
    /\ lock \in Proc \cup {None}
    /\ upc \in [Proc -> {"idle", "read", "replace"}]
    /\ change \in [Proc -> Patch \cup {None}]
    /\ doc \in [Proc -> Policy \cup {None}]
    /\ want \in [Slug -> Rules]
    /\ \A p \in Proc : upc[p] # "idle" <=> lock = p
-----------------------------------------------------------------------------
(* The rules. *)

NoRules == [read_only |-> "unset", cap |-> 0, floor |-> 0]
NoCompanies == [s \in Slug |-> NoRules]
EmptyPolicy == [defaults |-> NoRules, companies |-> NoCompanies]

\* Within one slug a company rule overrides the default.
Override(base, own) ==
    [read_only |-> IF own.read_only = "unset" THEN base.read_only ELSE own.read_only,
     cap       |-> IF own.cap = 0 THEN base.cap ELSE own.cap,
     floor     |-> IF own.floor = 0 THEN base.floor ELSE own.floor]

RulesOf(p, s) == Override(p.defaults, p.companies[s])

\* mergeStrictest, for one more set of rules: locked if either is, the lower cap, the
\* later floor.
StricterCap(a, b) == IF a = 0 \/ (b # 0 /\ b < a) THEN b ELSE a
Stricter(x, y) ==
    [read_only |-> IF "locked" \in {x.read_only, y.read_only} THEN "locked"
                   ELSE IF x.read_only = "unset" THEN y.read_only ELSE x.read_only,
     cap       |-> StricterCap(x.cap, y.cap),
     floor     |-> IF y.floor > x.floor THEN y.floor ELSE x.floor]

\* Mutant of Effective: the rules of the slug the write names.
EffectiveBySlug(p, s, siblings) == RulesOf(p, s)

\* policyFor: the rules of all slugs of one realm, merged.
Effective(p, s, siblings) ==
    LET merged[T \in SUBSET siblings] ==
            IF T = {} THEN RulesOf(p, s)
            ELSE LET t == CHOOSE x \in T : TRUE
                 IN  Stricter(merged[T \ {t}], RulesOf(p, t))
    IN  merged[siblings]

\* writeAmount: the larger side of a journal entry, line by line.
WriteAmount(lines) ==
    LET side(posting) ==
            LET sum[k \in 0..Len(lines)] ==
                    IF k = 0 THEN 0
                    ELSE sum[k - 1] + IF lines[k].posting = posting THEN lines[k].amount ELSE 0
            IN  sum[Len(lines)]
    IN  IF side("Debit") > side("Credit") THEN side("Debit") ELSE side("Credit")

\* checkWritePolicy for an entry; dated says whether a posting without a date is refused
\* under a date floor.
Allows(rules, entry, dated) ==
    /\ rules.read_only # "locked"
    /\ rules.cap = 0 \/ WriteAmount(entry.lines) <= rules.cap
    /\ rules.floor = 0 \/ entry.date >= rules.floor \/ (entry.date = 0 /\ ~dated)

Patched(rules, patch) == [rules EXCEPT ![patch.key] = patch.value]
-----------------------------------------------------------------------------
(* setCompanyPolicy. *)

PolicyInit ==
    /\ policy \in {None} \cup
          {[defaults |-> [NoRules EXCEPT !.read_only = r], companies |-> NoCompanies] :
               r \in {"unset", "locked"}}
    /\ gen = 0
    /\ backup = None
    /\ cache = None
    /\ lock = None
    /\ upc = [p \in Proc |-> "idle"]
    /\ change = [p \in Proc |-> None]
    /\ doc = [p \in Proc |-> None]
    /\ want = NoCompanies

UGoto(p, s) == upc' = [upc EXCEPT ![p] = s]

\* Mutant of SetCompanyPolicy: only the promise queue of the process orders updates.
SetCompanyPolicyUnlocked(p, patch) ==
    /\ upc[p] = "idle"
    /\ gen < MaxGen
    /\ lock' = p
    /\ change' = [change EXCEPT ![p] = patch]
    /\ UGoto(p, "read")
    /\ UNCHANGED <<policy, gen, backup, cache, doc, want>>

SetCompanyPolicy(p, patch) ==
    /\ upc[p] = "idle"
    /\ lock = None
    /\ gen < MaxGen
    /\ lock' = p
    /\ change' = [change EXCEPT ![p] = patch]
    /\ UGoto(p, "read")
    /\ UNCHANGED <<policy, gen, backup, cache, doc, want>>

\* newestPolicyBackup: a backup beside a missing file shows that it was in use.
Lost == policy = None /\ backup # None

\* durableCreateFile; there is nothing to back up before the first change.
BackUp == backup' = policy

\* The document is read, backed up and changed; a lost one is not created again.
ReadDocument(p) ==
    /\ upc[p] = "read"
    /\ ~Lost
    /\ BackUp
    /\ doc' = [doc EXCEPT ![p] =
          LET old == IF policy = None THEN EmptyPolicy ELSE policy
          IN  [old EXCEPT !.companies[change[p].slug] = Patched(@, change[p])]]
    /\ UGoto(p, "replace")
    /\ UNCHANGED <<policy, gen, cache, lock, change, want>>

\* Mutant of Release: an update that ends keeps the lock.
ReleaseQueueOnly(p) ==
    /\ UGoto(p, "idle")
    /\ change' = [change EXCEPT ![p] = None]
    /\ doc' = [doc EXCEPT ![p] = None]
    /\ UNCHANGED lock

Release(p) ==
    /\ UGoto(p, "idle")
    /\ lock' = IF lock = p THEN None ELSE lock
    /\ change' = [change EXCEPT ![p] = None]
    /\ doc' = [doc EXCEPT ![p] = None]

\* durableAtomicReplace; the process forgets its cached copy and gives the lock back.
Replace(p) ==
    /\ upc[p] = "replace"
    /\ gen < MaxGen
    /\ policy' = doc[p]
    /\ gen' = gen + 1
    /\ cache' = IF p = Server THEN None ELSE cache
    /\ want' = [want EXCEPT ![change[p].slug] = Patched(@, change[p])]
    /\ Release(p)
    /\ UNCHANGED backup

\* The update throws or its process dies before the file is replaced.
FailUpdate(p) ==
    /\ upc[p] # "idle"
    /\ Release(p)
    /\ UNCHANGED <<policy, gen, backup, cache, want>>

\* Somebody deletes the file: without a backup nobody knows the rules it held.
DeleteFile ==
    /\ policy # None
    /\ policy' = None
    /\ want' = IF backup = None THEN NoCompanies ELSE want
    /\ UNCHANGED <<gen, backup, cache, lock, upc, change, doc>>

PolicyNext ==
    \/ \E p \in Proc :
          \/ \E patch \in Patch : SetCompanyPolicy(p, patch)
          \/ ReadDocument(p) \/ Replace(p) \/ FailUpdate(p)
    \/ DeleteFile

\* No update of one company's rules undoes another's, and no update recreates a lost
\* file without the rules it held (setCompanyPolicy under the policy lock, with its
\* backups).
RulesKept == policy # None => policy.companies = want
=============================================================================
