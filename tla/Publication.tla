---------------------------- MODULE Publication -----------------------------
(***************************************************************************)
(* Publishing one release candidate (scripts/release_candidate_once.py):   *)
(* under a lock file, an archive and its checksum sidecar are built        *)
(* privately and copied into the output directory with exclusive create,   *)
(* and a failure rolls back what this invocation created.                  *)
(*                                                                         *)
(* Several invocations for one target and version share the directory.     *)
(* Each may fail at any step, be interrupted (KeyboardInterrupt, which can *)
(* come between any two statements), or be killed, which leaves its files  *)
(* and its lock behind; an operator clears a lock whose holder is gone.    *)
(* Files may also appear from outside the lock.                            *)
(***************************************************************************)
EXTENDS Naturals, FiniteSets

CONSTANTS
    Publishers,    \* invocations of build_and_publish
    Outsider,      \* creates files without taking the lock
    Nobody         \* the creator of a file that does not exist

ASSUME PublicationAssumption ==
    /\ Outsider \notin Publishers
    /\ Nobody \notin Publishers \cup {Outsider}

VARIABLES
    pc,         \* where each invocation stands
    lock,       \* who created the lock file
    archive,    \* the final archive: who created it, and is it complete
    sidecar,    \* the final checksum file, likewise
    stray       \* ghost: invocations interrupted in a gap of their bookkeeping

vars == <<pc, lock, archive, sidecar, stray>>

Files == [by : Publishers \cup {Outsider, Nobody}, whole : BOOLEAN]
Absent == [by |-> Nobody, whole |-> FALSE]

\* Invocations inside the lock, and what they may still have to undo.
Inside == {"check", "build", "recheck", "archive", "copy_archive", "sidecar",
           "copy_sidecar", "commit", "undo_sidecar", "undo_archive",
           "cleanup", "unlock", "unlock_failed"}
Over == {"refused", "done", "failed", "killed"}

PublicationTypeOK ==
    /\ pc \in [Publishers -> Inside \cup Over \cup {"start"}]
    /\ lock \in Publishers \cup {Nobody}
    /\ archive \in Files
    /\ sidecar \in Files
    /\ stray \in SUBSET Publishers

Init ==
    /\ pc = [p \in Publishers |-> "start"]
    /\ lock = Nobody
    /\ archive = Absent
    /\ sidecar = Absent
    /\ stray = {}

Goes(p, to) == pc' = [pc EXCEPT ![p] = to]

\* Mutant: the lock file is opened whether or not it exists.
LockIgnored == TRUE

LockFree == lock = Nobody

\* Mutant: an invocation that finds the lock held tries again.
TryAgain == "start"

\* It gives up.
AfterRefusal == "refused"

\* O_CREAT | O_EXCL on the lock path.
Lock(p) ==
    /\ pc[p] = "start"
    /\ \/ LockFree /\ lock' = p /\ Goes(p, "check")
       \/ ~LockFree /\ Goes(p, AfterRefusal) /\ UNCHANGED lock
    /\ UNCHANGED <<archive, sidecar, stray>>

\* require_absent, before the build and again before the first copy.
RequireAbsent(p) ==
    /\ pc[p] \in {"check", "recheck"}
    /\ IF archive = Absent /\ sidecar = Absent
       THEN Goes(p, IF pc[p] = "check" THEN "build" ELSE "archive")
       ELSE Goes(p, "unlock_failed")
    /\ UNCHANGED <<lock, archive, sidecar, stray>>

\* build_release_candidate in the private directory, and the check of the
\* names it returns.
Build(p) ==
    /\ pc[p] = "build"
    /\ Goes(p, "recheck") \/ Goes(p, "unlock_failed")
    /\ UNCHANGED <<lock, archive, sidecar, stray>>

\* Mutant: an archive that exists already is rolled back like one's own.
RollBackAnyway == "undo_archive"

\* Nothing was created yet when the archive could not be.
AfterNoArchive == "unlock_failed"

\* copy_exclusive(source_archive, ..): destination.open("xb").
CreateArchive(p) ==
    /\ pc[p] = "archive"
    /\ \/ archive = Absent /\ archive' = [by |-> p, whole |-> FALSE]
          /\ Goes(p, "copy_archive")
       \/ Goes(p, AfterNoArchive) /\ UNCHANGED archive
    /\ UNCHANGED <<lock, sidecar, stray>>

\* The copy completes, or fails and removes its partial file.
CopyArchive(p) ==
    /\ pc[p] = "copy_archive"
    /\ \/ archive' = [archive EXCEPT !.whole = TRUE] /\ Goes(p, "sidecar")
       \/ archive' = Absent /\ Goes(p, "unlock_failed")
    /\ UNCHANGED <<lock, sidecar, stray>>

\* copy_exclusive(source_sidecar, ..): a failure rolls the archive back.
CreateSidecar(p) ==
    /\ pc[p] = "sidecar"
    /\ \/ sidecar = Absent /\ sidecar' = [by |-> p, whole |-> FALSE]
          /\ Goes(p, "copy_sidecar")
       \/ Goes(p, "undo_archive") /\ UNCHANGED sidecar
    /\ UNCHANGED <<lock, archive, stray>>

CopySidecar(p) ==
    /\ pc[p] = "copy_sidecar"
    /\ \/ sidecar' = [sidecar EXCEPT !.whole = TRUE] /\ Goes(p, "commit")
       \/ sidecar' = Absent /\ Goes(p, "undo_archive")
    /\ UNCHANGED <<lock, archive, stray>>

\* Mutant: what was created is removed in the order of creation.
UndoInOrder ==
    [commit |-> "undo_archive", undo_archive |-> "undo_sidecar",
     undo_sidecar |-> "unlock_failed"]

\* reversed(created): the sidecar goes first, then the archive.
Undo ==
    [commit |-> "undo_sidecar", undo_sidecar |-> "undo_archive",
     undo_archive |-> "unlock_failed"]

\* publish_candidate_evidence returns, unless it is interrupted before.
Commit(p) ==
    /\ pc[p] = "commit"
    /\ Goes(p, "cleanup") \/ Goes(p, Undo["commit"])
    /\ UNCHANGED <<lock, archive, sidecar, stray>>

\* Leaving the TemporaryDirectory removes it, which may itself fail: the
\* invocation then reports failure with its pair in place.
Cleanup(p) ==
    /\ pc[p] = "cleanup"
    /\ Goes(p, "unlock") \/ Goes(p, "unlock_failed")
    /\ UNCHANGED <<lock, archive, sidecar, stray>>

UndoSidecar(p) ==
    /\ pc[p] = "undo_sidecar"
    /\ sidecar' = Absent
    /\ Goes(p, Undo["undo_sidecar"])
    /\ UNCHANGED <<lock, archive, stray>>

UndoArchive(p) ==
    /\ pc[p] = "undo_archive"
    /\ archive' = Absent
    /\ Goes(p, Undo["undo_archive"])
    /\ UNCHANGED <<lock, sidecar, stray>>

\* Mutant: a failed invocation leaves its lock file.
UnlockOnSuccess == {"unlock"}

\* __exit__ runs on every way out.
UnlockAlways == {"unlock", "unlock_failed"}

\* The lock file is unlinked by name.
Unlock(p) ==
    /\ pc[p] \in {"unlock", "unlock_failed"}
    /\ lock' = IF pc[p] \in UnlockAlways THEN Nobody ELSE lock
    /\ Goes(p, IF pc[p] = "unlock" THEN "done" ELSE "failed")
    /\ UNCHANGED <<archive, sidecar, stray>>

\* The process dies: nothing is cleaned up.
Killed(p) ==
    /\ pc[p] \in Inside
    /\ Goes(p, "killed")
    /\ UNCHANGED <<lock, archive, sidecar, stray>>

\* Where an interrupt leads that comes right after a file was created,
\* completed or removed, and before the code has noted it.
AfterInterrupt ==
    [check |-> "failed",                  \* in __enter__, after os.open
     copy_archive |-> "unlock_failed",    \* before created = True
     sidecar |-> "unlock_failed",         \* before created.append(archive)
     copy_sidecar |-> "undo_archive",     \* before created = True
     commit |-> "undo_archive",           \* before created.append(sidecar)
     undo_sidecar |-> "unlock_failed",    \* in the rollback loop
     undo_archive |-> "unlock_failed",
     unlock |-> "failed",                 \* in __exit__, before unlink
     unlock_failed |-> "failed"]

\* An interrupt in one of those gaps (an unlink that fails in the rollback
\* ends the same way).  One that comes elsewhere is a failure like any other.
Interrupted(p) ==
    /\ pc[p] \in DOMAIN AfterInterrupt
    /\ Goes(p, AfterInterrupt[pc[p]])
    /\ stray' = stray \cup {p}
    /\ UNCHANGED <<lock, archive, sidecar>>

\* The operator removes the lock file of an invocation that is gone.
ClearLock ==
    /\ lock # Nobody /\ pc[lock] \in Over
    /\ lock' = Nobody
    /\ UNCHANGED <<pc, archive, sidecar, stray>>

\* A file is put in place by someone else.
Intrude ==
    /\ \/ archive = Absent /\ archive' = [by |-> Outsider, whole |-> TRUE] /\ UNCHANGED sidecar
       \/ sidecar = Absent /\ sidecar' = [by |-> Outsider, whole |-> TRUE] /\ UNCHANGED archive
    /\ UNCHANGED <<pc, lock, stray>>

Step(p) ==
    \/ Lock(p) \/ RequireAbsent(p) \/ Build(p) \/ CreateArchive(p) \/ CopyArchive(p)
    \/ CreateSidecar(p) \/ CopySidecar(p) \/ Commit(p) \/ UndoSidecar(p) \/ UndoArchive(p)
    \/ Cleanup(p) \/ Unlock(p)

AllOver == (\A p \in Publishers : pc[p] \in Over) /\ UNCHANGED vars

Next ==
    \/ \E p \in Publishers : Step(p) \/ Killed(p) \/ Interrupted(p)
    \/ ClearLock \/ Intrude \/ AllOver

Spec == Init /\ [][Next]_vars

FairSpec == Spec /\ \A p \in Publishers : WF_vars(Step(p))

-----------------------------------------------------------------------------

\* Publication is serialised: at most one live invocation is inside the lock,
\* and the lock file is its own.
Serialised == \A p \in Publishers : pc[p] \in Inside => lock = p

\* A checksum file that an invocation completed always has its own complete
\* archive next to it, whatever fails or is killed in between (unless an
\* interrupt found the gap in that invocation's bookkeeping).
SidecarVouches ==
    sidecar.by \in Publishers \ stray /\ sidecar.whole => archive = sidecar

\* An invocation that was neither killed nor interrupted in a gap has
\* published all or nothing, and no longer holds the lock; one that reports
\* success has published.
Pair(p) == archive = [by |-> p, whole |-> TRUE] /\ sidecar = archive
AllOrNothing ==
    \A p \in Publishers \ stray :
        /\ pc[p] = "failed" => lock # p /\ (p \in {archive.by, sidecar.by} => Pair(p))
        /\ pc[p] = "done" => lock # p /\ Pair(p)

\* A failed or interrupted copy removes the partial evidence it created
\* (copy_exclusive and the rollback of publish_candidate_evidence).
InterruptedCopyRemoved ==
    \A p \in Publishers : pc[p] = "failed" /\ p \in {archive.by, sidecar.by} => Pair(p)

\* Evidence is immutable: an existing file is changed or removed only by the
\* invocation that created it, while that copies it or rolls it back.
Touching(p) ==
    p \in Publishers /\ pc[p] \in {"copy_archive", "copy_sidecar", "undo_archive",
                                   "undo_sidecar"}
OnlyCreatorTouches ==
    [][/\ archive \notin {Absent, archive'} => Touching(archive.by)
       /\ sidecar \notin {Absent, sidecar'} => Touching(sidecar.by)]_vars

\* Every invocation comes to an end: a lock that is held is a reason to give
\* up, never to wait.
AllEnd == <>(\A p \in Publishers : pc[p] \in Over)

=============================================================================
