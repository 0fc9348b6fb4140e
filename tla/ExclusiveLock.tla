---------------------------- MODULE ExclusiveLock ----------------------------
(***************************************************************************)
(* What a caller of withOwnerDirectoryLock(lockPath, label, fn) is         *)
(* promised (src/src/owner-lock.js): fn runs "while exclusively owning a   *)
(* cross-process directory lock".  At most one process is inside fn, and   *)
(* the next one enters only after the previous one left or died.           *)
(*                                                                         *)
(* The modules that describe what is done under a lock rely on this module *)
(* and not on the directory protocol; OwnerLock shows that the protocol    *)
(* implements it.                                                          *)
(***************************************************************************)
EXTENDS FiniteSets

CONSTANT Proc           \* the processes that share the lock path

VARIABLE holders        \* the processes inside fn

Init == holders = {}

Acquire(p) ==
    /\ holders = {}
    /\ holders' = {p}

\* The holder returns from fn, or dies inside it.
Leave(p) ==
    /\ holders = {p}
    /\ holders' = {}

Next == \E p \in Proc : Acquire(p) \/ Leave(p)

Spec == Init /\ [][Next]_holders
=============================================================================
