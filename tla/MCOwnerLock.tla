----------------------------- MODULE MCOwnerLock -----------------------------
(* Small instances of OwnerLock for TLC. *)
EXTENDS OwnerLock, TLC

\* Inodes are interchangeable, so are the serials of markers, and so are the
\* processes p1 and p2, which run on one host.
Symmetry == Permutations(Dir) \cup Permutations(Serial) \cup Permutations(Proc \ Remote)

\* I/O errors at every step but unlink; none at all.
AllButUnlink == Steps \ UnlinkSteps
NoSteps == {}
=============================================================================
