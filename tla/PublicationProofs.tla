-------------------------- MODULE PublicationProofs -------------------------
(* Proofs about Publication, for any set of invocations. *)
EXTENDS Publication, TLAPS

Whole(p) == [by |-> p, whole |-> TRUE]
Partial(p) == [by |-> p, whole |-> FALSE]

\* Stages in which an invocation has created nothing.
Clean == {"start", "check", "build", "recheck", "archive", "refused"}

\* What an invocation at each stage knows of the two files.
Holds(p) ==
    /\ pc[p] \in Clean => archive.by # p /\ sidecar.by # p
    /\ pc[p] = "copy_archive" => archive = Partial(p) /\ sidecar.by # p
    /\ pc[p] = "sidecar" => archive = Whole(p) /\ sidecar.by # p
    /\ pc[p] = "copy_sidecar" => archive = Whole(p) /\ sidecar = Partial(p)
    /\ pc[p] \in {"commit", "cleanup", "unlock", "undo_sidecar", "done"} =>
           archive = Whole(p) /\ sidecar = Whole(p)
    /\ pc[p] = "undo_archive" => archive = Whole(p)
    /\ p \notin stray =>
           /\ pc[p] = "undo_archive" => sidecar.by # p
           /\ pc[p] \in {"unlock_failed", "failed"} /\ p \in {archive.by, sidecar.by} =>
                  archive = Whole(p) /\ sidecar = Whole(p)
           /\ pc[p] \in {"done", "failed"} => lock # p
           /\ sidecar = Whole(p) => archive = Whole(p)

\* The inductive invariant.
PublicationInv ==
    /\ PublicationTypeOK
    /\ Serialised
    /\ \A p \in Publishers : Holds(p)

LEMMA PublicationInitially == Init => PublicationInv
<1> SUFFICES ASSUME Init PROVE PublicationInv
  OBVIOUS
<1>1. archive = [by |-> Nobody, whole |-> FALSE] /\ sidecar = [by |-> Nobody, whole |-> FALSE]
  BY DEF Init, Absent
<1>2. PublicationTypeOK
  BY <1>1 DEF Init, PublicationTypeOK, Files
<1>3. Serialised
  BY DEF Init, Serialised, Inside
<1>4. ASSUME NEW p \in Publishers PROVE Holds(p)
  <2>1. pc[p] = "start" /\ archive.by = Nobody /\ sidecar.by = Nobody /\ Nobody # p
    BY <1>1, PublicationAssumption DEF Init
  <2>2. sidecar # Whole(p)
    BY <2>1, <1>1 DEF Whole
  <2>3. QED
    BY <2>1, <2>2 DEF Holds
<1>5. QED
  BY <1>2, <1>3, <1>4 DEF PublicationInv

LEMMA PublicationPreserved == PublicationInv /\ [Next]_vars => PublicationInv'
<1> SUFFICES ASSUME PublicationInv, [Next]_vars PROVE PublicationInv'
  OBVIOUS
<1>1. /\ PublicationTypeOK /\ Serialised
      /\ \A p \in Publishers : Holds(p)
  BY DEF PublicationInv
<1>2. /\ Absent.by = Nobody /\ Absent \in Files
      /\ \A p \in Publishers : p # Nobody /\ p # Outsider /\ Whole(p) \in Files /\ Partial(p) \in Files
  BY PublicationAssumption DEF Absent, Files, Whole, Partial
<1>3. \A p : /\ Whole(p).by = p /\ Partial(p).by = p
             /\ Whole(p).whole = TRUE /\ Partial(p).whole = FALSE
  BY DEF Whole, Partial
\* A step of one invocation, seen from all of them.
<1>4. ASSUME NEW p \in Publishers, NEW to \in Inside \cup Over, Goes(p, to),
             lock' \in {lock, p, Nobody}, archive' \in Files, sidecar' \in Files,
             stray' \in {stray, stray \cup {p}},
             lock' # lock => lock \in {p, Nobody},
             archive' # archive => archive.by \in {p, Nobody} /\ archive'.by \in {p, Nobody},
             sidecar' # sidecar => sidecar.by \in {p, Nobody} /\ sidecar'.by \in {p, Nobody},
             to \in Inside => lock' = p,
             Holds(p)'
      PROVE  PublicationInv'
  <2>1. pc' = [pc EXCEPT ![p] = to] /\ pc \in [Publishers -> Inside \cup Over \cup {"start"}]
    BY <1>1, <1>4 DEF Goes, PublicationTypeOK
  <2>2. PublicationTypeOK'
    BY <1>1, <1>4, <2>1 DEF PublicationTypeOK
  <2>3. Serialised'
    BY <1>1, <1>2, <1>4, <2>1 DEF Serialised
  <2>4. ASSUME NEW q \in Publishers PROVE Holds(q)'
    <3>1. CASE q = p
      BY <1>4, <3>1
    <3>2. CASE q # p
      <4>1. pc'[q] = pc[q] /\ (q \in stray' <=> q \in stray)
        BY <1>4, <2>1, <3>2
      <4>2. archive' = archive \/ (archive.by # q /\ archive'.by # q)
        BY <1>2, <1>4, <3>2
      <4>3. sidecar' = sidecar \/ (sidecar.by # q /\ sidecar'.by # q)
        BY <1>2, <1>4, <3>2
      <4>4. Holds(q)
        BY <1>1
      <4>5. QED
        BY <1>2, <1>3, <1>4, <3>2, <4>1, <4>2, <4>3, <4>4 DEF Holds
    <3>3. QED
      BY <3>1, <3>2
  <2>5. QED
    BY <2>2, <2>3, <2>4 DEF PublicationInv
<1>5. ASSUME NEW p \in Publishers, Lock(p) PROVE PublicationInv'
  <2>1. Holds(p) /\ (pc[p] \in Inside => lock = p)
    BY <1>1 DEF Serialised
  <2>2. PICK to \in Inside \cup Over : Goes(p, to)
    BY <1>5 DEF Lock, LockFree, AfterRefusal, Inside, Over
  <2>3. pc'[p] = to
    BY <1>1, <2>2 DEF Goes, PublicationTypeOK
  <2>4. Holds(p)'
    BY <1>1, <1>2, <1>3, <1>5, <2>1, <2>3 DEF Lock, LockFree, AfterRefusal, Goes, Holds, Clean, PublicationTypeOK, Inside, Over
  <2>5. QED
    BY <1>1, <1>2, <1>3, <1>4, <1>5, <2>1, <2>2, <2>3, <2>4 DEF Lock, LockFree, AfterRefusal, Holds, Clean, Inside, Over, PublicationTypeOK
<1>6. ASSUME NEW p \in Publishers, RequireAbsent(p) PROVE PublicationInv'
  <2>1. Holds(p) /\ (pc[p] \in Inside => lock = p)
    BY <1>1 DEF Serialised
  <2>2. PICK to \in Inside \cup Over : Goes(p, to)
    BY <1>6 DEF RequireAbsent, Inside, Over
  <2>3. pc'[p] = to
    BY <1>1, <2>2 DEF Goes, PublicationTypeOK
  <2>4. Holds(p)'
    BY <1>1, <1>2, <1>3, <1>6, <2>1, <2>3 DEF RequireAbsent, Goes, Holds, Clean, PublicationTypeOK, Inside, Over
  <2>5. QED
    BY <1>1, <1>2, <1>3, <1>4, <1>6, <2>1, <2>2, <2>3, <2>4 DEF RequireAbsent, Holds, Clean, Inside, Over, PublicationTypeOK
<1>7. ASSUME NEW p \in Publishers, Build(p) PROVE PublicationInv'
  <2>1. Holds(p) /\ (pc[p] \in Inside => lock = p)
    BY <1>1 DEF Serialised
  <2>2. PICK to \in Inside \cup Over : Goes(p, to)
    BY <1>7 DEF Build, Inside, Over
  <2>3. pc'[p] = to
    BY <1>1, <2>2 DEF Goes, PublicationTypeOK
  <2>4. Holds(p)'
    BY <1>1, <1>2, <1>3, <1>7, <2>1, <2>3 DEF Build, Goes, Holds, Clean, PublicationTypeOK, Inside, Over
  <2>5. QED
    BY <1>1, <1>2, <1>3, <1>4, <1>7, <2>1, <2>2, <2>3, <2>4 DEF Build, Holds, Clean, Inside, Over, PublicationTypeOK
<1>8. ASSUME NEW p \in Publishers, CreateArchive(p) PROVE PublicationInv'
  <2>1. Holds(p) /\ pc[p] = "archive" /\ lock = p /\ UNCHANGED <<lock, sidecar, stray>>
    BY <1>1, <1>8 DEF CreateArchive, Serialised, Inside
  <2>2. PICK to \in Inside \cup Over :
        /\ Goes(p, to)
        /\ \/ archive = Absent /\ archive' = Partial(p) /\ to = "copy_archive"
           \/ archive' = archive /\ to = "unlock_failed"
    BY <1>8, <2>1 DEF CreateArchive, AfterNoArchive, Inside, Over, Holds, Whole, Partial
  <2>3. pc'[p] = to
    BY <1>1, <2>2 DEF Goes, PublicationTypeOK
  <2>4. Holds(p)'
    BY <1>2, <1>3, <2>1, <2>2, <2>3 DEF Holds, Clean
  <2>5. QED
    BY <1>1, <1>2, <1>3, <1>4, <2>1, <2>2, <2>4 DEF Holds, Clean, PublicationTypeOK
<1>9. ASSUME NEW p \in Publishers, CopyArchive(p) PROVE PublicationInv'
  <2>1. Holds(p) /\ pc[p] = "copy_archive" /\ lock = p /\ UNCHANGED <<lock, sidecar, stray>>
    BY <1>1, <1>9 DEF CopyArchive, Serialised, Inside
  <2>2. PICK to \in Inside \cup Over :
        /\ Goes(p, to)
        /\ \/ archive' = Whole(p) /\ to = "sidecar"
           \/ archive' = Absent /\ to = "unlock_failed"
    BY <1>9, <2>1 DEF CopyArchive, Inside, Over, Holds, Whole, Partial
  <2>3. pc'[p] = to
    BY <1>1, <2>2 DEF Goes, PublicationTypeOK
  <2>4. Holds(p)'
    BY <1>2, <1>3, <2>1, <2>2, <2>3 DEF Holds, Clean
  <2>5. QED
    BY <1>1, <1>2, <1>3, <1>4, <2>1, <2>2, <2>4 DEF Holds, Clean, PublicationTypeOK
<1>10. ASSUME NEW p \in Publishers, CreateSidecar(p) PROVE PublicationInv'
  <2>1. Holds(p) /\ pc[p] = "sidecar" /\ lock = p /\ UNCHANGED <<lock, archive, stray>>
    BY <1>1, <1>10 DEF CreateSidecar, Serialised, Inside
  <2>2. PICK to \in Inside \cup Over :
        /\ Goes(p, to)
        /\ \/ sidecar = Absent /\ sidecar' = Partial(p) /\ to = "copy_sidecar"
           \/ sidecar' = sidecar /\ to = "undo_archive"
    BY <1>10, <2>1 DEF CreateSidecar, Inside, Over, Holds, Whole, Partial
  <2>3. pc'[p] = to
    BY <1>1, <2>2 DEF Goes, PublicationTypeOK
  <2>4. Holds(p)'
    BY <1>2, <1>3, <2>1, <2>2, <2>3 DEF Holds, Clean
  <2>5. QED
    BY <1>1, <1>2, <1>3, <1>4, <2>1, <2>2, <2>4 DEF Holds, Clean, PublicationTypeOK
<1>11. ASSUME NEW p \in Publishers, CopySidecar(p) PROVE PublicationInv'
  <2>1. Holds(p) /\ pc[p] = "copy_sidecar" /\ lock = p /\ UNCHANGED <<lock, archive, stray>>
    BY <1>1, <1>11 DEF CopySidecar, Serialised, Inside
  <2>2. PICK to \in Inside \cup Over :
        /\ Goes(p, to)
        /\ \/ sidecar' = Whole(p) /\ to = "commit"
           \/ sidecar' = Absent /\ to = "undo_archive"
    BY <1>11, <2>1 DEF CopySidecar, Inside, Over, Holds, Whole, Partial
  <2>3. pc'[p] = to
    BY <1>1, <2>2 DEF Goes, PublicationTypeOK
  <2>4. Holds(p)'
    BY <1>2, <1>3, <2>1, <2>2, <2>3 DEF Holds, Clean
  <2>5. QED
    BY <1>1, <1>2, <1>3, <1>4, <2>1, <2>2, <2>4 DEF Holds, Clean, PublicationTypeOK
<1>12. ASSUME NEW p \in Publishers, Commit(p) PROVE PublicationInv'
  <2>1. Holds(p) /\ (pc[p] \in Inside => lock = p)
    BY <1>1 DEF Serialised
  <2>2. PICK to \in Inside \cup Over : Goes(p, to)
    BY <1>12 DEF Commit, Undo, Inside, Over
  <2>3. pc'[p] = to
    BY <1>1, <2>2 DEF Goes, PublicationTypeOK
  <2>4. Holds(p)'
    BY <1>1, <1>2, <1>3, <1>12, <2>1, <2>3 DEF Commit, Undo, Goes, Holds, Clean, PublicationTypeOK, Inside, Over
  <2>5. QED
    BY <1>1, <1>2, <1>3, <1>4, <1>12, <2>1, <2>2, <2>3, <2>4 DEF Commit, Undo, Holds, Clean, Inside, Over, PublicationTypeOK
<1>13. ASSUME NEW p \in Publishers, Cleanup(p) PROVE PublicationInv'
  <2>1. Holds(p) /\ (pc[p] \in Inside => lock = p)
    BY <1>1 DEF Serialised
  <2>2. PICK to \in Inside \cup Over : Goes(p, to)
    BY <1>13 DEF Cleanup, Inside, Over
  <2>3. pc'[p] = to
    BY <1>1, <2>2 DEF Goes, PublicationTypeOK
  <2>4. Holds(p)'
    BY <1>1, <1>2, <1>3, <1>13, <2>1, <2>3 DEF Cleanup, Goes, Holds, Clean, PublicationTypeOK, Inside, Over
  <2>5. QED
    BY <1>1, <1>2, <1>3, <1>4, <1>13, <2>1, <2>2, <2>3, <2>4 DEF Cleanup, Holds, Clean, Inside, Over, PublicationTypeOK
<1>14. ASSUME NEW p \in Publishers, UndoSidecar(p) PROVE PublicationInv'
  <2>1. Holds(p) /\ (pc[p] \in Inside => lock = p)
    BY <1>1 DEF Serialised
  <2>2. PICK to \in Inside \cup Over : Goes(p, to)
    BY <1>14 DEF UndoSidecar, Undo, Inside, Over
  <2>3. pc'[p] = to
    BY <1>1, <2>2 DEF Goes, PublicationTypeOK
  <2>4. Holds(p)'
    BY <1>1, <1>2, <1>3, <1>14, <2>1, <2>3 DEF UndoSidecar, Undo, Goes, Holds, Clean, PublicationTypeOK, Inside, Over
  <2>5. QED
    BY <1>1, <1>2, <1>3, <1>4, <1>14, <2>1, <2>2, <2>3, <2>4 DEF UndoSidecar, Undo, Holds, Clean, Inside, Over, PublicationTypeOK
<1>15. ASSUME NEW p \in Publishers, UndoArchive(p) PROVE PublicationInv'
  <2>1. Holds(p) /\ (pc[p] \in Inside => lock = p)
    BY <1>1 DEF Serialised
  <2>2. PICK to \in Inside \cup Over : Goes(p, to)
    BY <1>15 DEF UndoArchive, Undo, Inside, Over
  <2>3. pc'[p] = to
    BY <1>1, <2>2 DEF Goes, PublicationTypeOK
  <2>4. Holds(p)'
    BY <1>1, <1>2, <1>3, <1>15, <2>1, <2>3 DEF UndoArchive, Undo, Goes, Holds, Clean, PublicationTypeOK, Inside, Over
  <2>5. QED
    BY <1>1, <1>2, <1>3, <1>4, <1>15, <2>1, <2>2, <2>3, <2>4 DEF UndoArchive, Undo, Holds, Clean, Inside, Over, PublicationTypeOK
<1>16. ASSUME NEW p \in Publishers, Unlock(p) PROVE PublicationInv'
  <2>1. Holds(p) /\ (pc[p] \in Inside => lock = p)
    BY <1>1 DEF Serialised
  <2>2. PICK to \in Inside \cup Over : Goes(p, to)
    BY <1>16 DEF Unlock, UnlockAlways, Inside, Over
  <2>3. pc'[p] = to
    BY <1>1, <2>2 DEF Goes, PublicationTypeOK
  <2>4. Holds(p)'
    BY <1>1, <1>2, <1>3, <1>16, <2>1, <2>3 DEF Unlock, UnlockAlways, Goes, Holds, Clean, PublicationTypeOK, Inside, Over
  <2>5. QED
    BY <1>1, <1>2, <1>3, <1>4, <1>16, <2>1, <2>2, <2>3, <2>4 DEF Unlock, UnlockAlways, Holds, Clean, Inside, Over, PublicationTypeOK
<1>17. ASSUME NEW p \in Publishers, Killed(p) PROVE PublicationInv'
  <2>1. Holds(p) /\ (pc[p] \in Inside => lock = p)
    BY <1>1 DEF Serialised
  <2>2. PICK to \in Inside \cup Over : Goes(p, to)
    BY <1>17 DEF Killed, Inside, Over
  <2>3. pc'[p] = to
    BY <1>1, <2>2 DEF Goes, PublicationTypeOK
  <2>4. Holds(p)'
    BY <1>1, <1>2, <1>3, <1>17, <2>1, <2>3 DEF Killed, Goes, Holds, Clean, PublicationTypeOK, Inside, Over
  <2>5. QED
    BY <1>1, <1>2, <1>3, <1>4, <1>17, <2>1, <2>2, <2>3, <2>4 DEF Killed, Holds, Clean, Inside, Over, PublicationTypeOK
<1>18. ASSUME NEW p \in Publishers, Interrupted(p) PROVE PublicationInv'
  <2>1. Holds(p) /\ (pc[p] \in Inside => lock = p)
    BY <1>1 DEF Serialised
  <2>2. PICK to \in Inside \cup Over : Goes(p, to)
    BY <1>18 DEF Interrupted, AfterInterrupt, Inside, Over
  <2>3. pc'[p] = to
    BY <1>1, <2>2 DEF Goes, PublicationTypeOK
  <2>4. Holds(p)'
    BY <1>1, <1>2, <1>3, <1>18, <2>1, <2>3 DEF Interrupted, AfterInterrupt, Goes, Holds, Clean, PublicationTypeOK, Inside, Over
  <2>5. QED
    BY <1>1, <1>2, <1>3, <1>4, <1>18, <2>1, <2>2, <2>3, <2>4 DEF Interrupted, AfterInterrupt, Holds, Clean, Inside, Over, PublicationTypeOK
<1>19. CASE ClearLock
  <2>1. PublicationTypeOK'
    BY <1>1, <1>19 DEF ClearLock, PublicationTypeOK
  <2>2. Serialised'
    BY <1>1, <1>2, <1>19 DEF ClearLock, Serialised, Inside, Over
  <2>3. \A q \in Publishers : Holds(q)'
    BY <1>1, <1>2, <1>19 DEF ClearLock, Holds
  <2>4. QED
    BY <2>1, <2>2, <2>3 DEF PublicationInv
<1>20. CASE Intrude
  <2>1. Whole(Outsider) = [by |-> Outsider, whole |-> TRUE] /\ Whole(Outsider) \in Files
    BY DEF Whole, Files
  <2>2. PublicationTypeOK'
    BY <1>1, <1>20, <2>1 DEF Intrude, PublicationTypeOK
  <2>3. Serialised'
    BY <1>1, <1>20 DEF Intrude, Serialised
  <2>4. ASSUME NEW q \in Publishers PROVE Holds(q)'
    <3>1. /\ archive' # archive => archive.by # q /\ archive'.by # q
          /\ sidecar' # sidecar => sidecar.by # q /\ sidecar'.by # q
      BY <1>2, <1>3, <1>20, <2>1 DEF Intrude
    <3>2. QED
      BY <1>1, <1>2, <1>3, <1>20, <3>1 DEF Intrude, Holds
  <2>5. QED
    BY <2>2, <2>3, <2>4 DEF PublicationInv
<1>21. CASE UNCHANGED vars
  BY <1>1, <1>21 DEF vars, PublicationInv, PublicationTypeOK, Serialised, Holds
<1>22. QED
  BY <1>5, <1>6, <1>7, <1>8, <1>9, <1>10, <1>11, <1>12, <1>13, <1>14, <1>15, <1>16, <1>17, <1>18, <1>19, <1>20, <1>21 DEF Next, Step, AllOver

\* At most one invocation is inside the lock, and the lock is its own.
THEOREM PublicationSerialised == Spec => []Serialised
<1>1. PublicationInv => Serialised
  BY DEF PublicationInv
<1>2. QED
  BY <1>1, PublicationInitially, PublicationPreserved, PTL DEF Spec

\* A completed checksum file vouches for the complete archive of the same
\* invocation.
THEOREM PublicationSidecarVouches == Spec => []SidecarVouches
<1>1. PublicationInv => SidecarVouches
  <2> SUFFICES ASSUME PublicationInv, sidecar.by \in Publishers \ stray, sidecar.whole
               PROVE archive = sidecar
    BY DEF SidecarVouches
  <2>1. sidecar = Whole(sidecar.by)
    BY DEF PublicationInv, PublicationTypeOK, Files, Whole
  <2>2. QED
    BY <2>1 DEF PublicationInv, Holds
<1>2. QED
  BY <1>1, PublicationInitially, PublicationPreserved, PTL DEF Spec

\* Every invocation that ends by itself has published all or nothing.
THEOREM PublicationAllOrNothing == Spec => []AllOrNothing
<1>1. PublicationInv => AllOrNothing
  <2> SUFFICES ASSUME PublicationInv, NEW p \in Publishers \ stray
               PROVE /\ pc[p] = "failed" => lock # p /\ (p \in {archive.by, sidecar.by} => Pair(p))
                     /\ pc[p] = "done" => lock # p /\ Pair(p)
    BY DEF AllOrNothing
  <2>1. Holds(p)
    BY DEF PublicationInv
  <2>2. archive = Whole(p) /\ sidecar = Whole(p) => Pair(p)
    BY DEF Pair, Whole
  <2>3. QED
    BY <2>1, <2>2 DEF Holds
<1>2. QED
  BY <1>1, PublicationInitially, PublicationPreserved, PTL DEF Spec

\* A file is changed or removed only by the invocation that created it.
THEOREM PublicationImmutable == Spec => OnlyCreatorTouches
<1> DEFINE own == /\ archive \notin {Absent, archive'} => Touching(archive.by)
                  /\ sidecar \notin {Absent, sidecar'} => Touching(sidecar.by)
<1>1. PublicationInv /\ [Next]_vars => [own]_vars
  <2> SUFFICES ASSUME PublicationInv, [Next]_vars PROVE own
    OBVIOUS
  <2>1. \A p : Whole(p).by = p /\ Partial(p).by = p
    BY DEF Whole, Partial
  <2>2. ASSUME NEW p \in Publishers,
               Lock(p) \/ RequireAbsent(p) \/ Build(p) \/ CreateArchive(p) \/ CreateSidecar(p)
               \/ Commit(p) \/ Cleanup(p) \/ Unlock(p) \/ Killed(p) \/ Interrupted(p)
        PROVE own
    BY <2>2 DEF Lock, RequireAbsent, Build, CreateArchive, CreateSidecar, Commit, Cleanup, Unlock,
                Killed, Interrupted
  <2>3. ASSUME NEW p \in Publishers, CopyArchive(p) \/ UndoArchive(p) PROVE own
    <3>1. archive.by = p /\ Touching(p) /\ sidecar' = sidecar
      BY <2>1, <2>3 DEF CopyArchive, UndoArchive, PublicationInv, Holds, Touching
    <3>2. QED
      BY <3>1
  <2>4. ASSUME NEW p \in Publishers, CopySidecar(p) \/ UndoSidecar(p) PROVE own
    <3>1. sidecar.by = p /\ Touching(p) /\ archive' = archive
      BY <2>1, <2>4 DEF CopySidecar, UndoSidecar, PublicationInv, Holds, Touching
    <3>2. QED
      BY <3>1
  <2>5. CASE ClearLock \/ Intrude \/ UNCHANGED vars
    BY <2>5 DEF ClearLock, Intrude, vars
  <2>6. QED
    BY <2>2, <2>3, <2>4, <2>5 DEF Next, Step, AllOver
<1>2. QED
  BY <1>1, PublicationInitially, PublicationPreserved, PTL DEF Spec, OnlyCreatorTouches

=============================================================================
