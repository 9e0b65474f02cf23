--------------------------- MODULE DeploymentProofs ---------------------------
(***************************************************************************)
(* Theorems about Deployment for any releases, any number of updates and any *)
(* bounds: the executable stays whole while updates do not overlap, what is  *)
(* printed was stored, a migration takes effect once, a release that serves  *)
(* finds the schema its queries need, and a start that is cut off at any     *)
(* place is completed by the next one.                                       *)
(*                                                                           *)
(* The first rests on where an update that runs alone stands with the file at *)
(* the temporary path (AloneInv); the third on the parts of a database, which *)
(* every migration keeps (MigrationKeeps); the last two on SchemaInv: what is *)
(* applied is always 1..k, and the schema has what these migrations bring and *)
(* not yet the columns of the next ones that do not look first (Fits).       *)
(***************************************************************************)
EXTENDS Deployment, FiniteSetTheorems, WellFoundedInduction, TLAPS

UpdatePc == {"idle", "begin", "open", "copy", "verify", "install", "restart", "exec"}

\* Where an update is.
Place == [pc : UpdatePc, release : Releases \cup {0}, pos : Nat, file : Files]

\* The shape of what a self-update touches.
UpdateTyped ==
    /\ latest \in Releases
    /\ exe \in Files
    /\ tmp \in Files \cup {None}
    /\ file \in [Files -> [Chunks -> Releases \cup {0, Damaged}]]
    /\ update \in [Updates -> Place]
    /\ \A a \in Updates : update[a].pc \notin {"idle", "begin"} => update[a].release \in Releases
    /\ updatesOverlapped \in BOOLEAN

Busy(a) == update[a].pc # "idle"

\* Where an update that runs alone has left the two paths.
AloneInv ==
    ~updatesOverlapped =>
        /\ \A a, b \in Updates : Busy(a) /\ Busy(b) => a = b
        /\ Whole(file[exe])
        /\ tmp # exe
        /\ \A a \in Updates : update[a].pc = "copy" => update[a].file = tmp
        /\ \A a \in Updates : update[a].pc \in {"verify", "install"} => tmp # None
        /\ \A a \in Updates : update[a].pc = "install" => Whole(file[tmp])

UpdateInv == UpdateTyped /\ AloneInv

LEMMA Paths == 0 \in Files /\ None \notin Files /\ Files \subseteq Nat
<1>1. Cardinality(Updates) \in Nat
  BY UpdatesAssumption, FS_CardinalityType
<1> QED BY <1>1, UpdatesAssumption DEF Files

LEMMA NoUpdatePlace == NoUpdate \in Place /\ NoUpdate.pc = "idle"
BY Paths DEF NoUpdate, Place, UpdatePc

LEMMA InitUpdateInv == DeployInit => UpdateInv
<1> SUFFICES ASSUME DeployInit PROVE UpdateInv
  OBVIOUS
<1>1. \A a \in Updates : update[a] = NoUpdate /\ update[a].pc = "idle"
  BY NoUpdatePlace DEF DeployInit
<1>2. file[exe] = [c \in Chunks |-> latest] /\ latest \in Releases
  BY Paths DEF DeployInit
<1>3. UpdateTyped
  <2>1. Blank \in [Chunks -> Releases \cup {0, Damaged}]
        /\ [c \in Chunks |-> latest] \in [Chunks -> Releases \cup {0, Damaged}]
    BY <1>2 DEF Blank
  <2>2. file \in [Files -> [Chunks -> Releases \cup {0, Damaged}]]
    BY <2>1 DEF DeployInit
  <2>3. update \in [Updates -> Place]
    BY NoUpdatePlace DEF DeployInit
  <2> QED BY <1>1, <1>2, <2>2, <2>3, Paths DEF DeployInit, UpdateTyped
<1>4. AloneInv
  BY <1>1, <1>2, Paths DEF DeployInit, AloneInv, Busy, Whole, WholeOf
<1> QED BY <1>3, <1>4 DEF UpdateInv

\* One update moves to a place of the right shape.
LEMMA MoveTyped ==
    ASSUME UpdateTyped, NEW a \in Updates, NEW q \in Place, update' = [update EXCEPT ![a] = q],
           q.pc \notin {"idle", "begin"} => q.release \in Releases
    PROVE  /\ update' \in [Updates -> Place]
           /\ \A b \in Updates : update'[b].pc \notin {"idle", "begin"} => update'[b].release \in Releases
           /\ update'[a] = q
           /\ \A b \in Updates \ {a} : update'[b] = update[b]
BY DEF UpdateTyped

\* The server's end ends every update.
LEMMA GoneInv ==
    ASSUME UpdateInv, ServerGone, UNCHANGED <<disk, latest, updatesOverlapped>>
    PROVE  UpdateInv'
<1>1. \A a \in Updates : update'[a] = NoUpdate /\ update'[a].pc = "idle"
  BY NoUpdatePlace DEF ServerGone
<1>2. update' \in [Updates -> Place]
  BY NoUpdatePlace DEF ServerGone
<1>3. UpdateTyped'
  BY <1>1, <1>2 DEF UpdateInv, UpdateTyped, disk
<1>4. AloneInv'
  BY <1>1 DEF UpdateInv, AloneInv, Busy, disk, Whole
<1> QED BY <1>3, <1>4 DEF UpdateInv

\* One update gives up, with or without the temporary file; the executable stays.
LEMMA GiveUpInv ==
    ASSUME UpdateInv, NEW a \in Updates, Busy(a), update' = [update EXCEPT ![a] = NoUpdate],
           tmp' \in {tmp, None}, UNCHANGED <<exe, file, latest, updatesOverlapped>>
    PROVE  UpdateInv'
<1>1. /\ update' \in [Updates -> Place]
      /\ \A b \in Updates : update'[b].pc \notin {"idle", "begin"} => update'[b].release \in Releases
      /\ update'[a] = NoUpdate
      /\ \A b \in Updates \ {a} : update'[b] = update[b]
  BY MoveTyped, NoUpdatePlace DEF UpdateInv, NoUpdate
<1>2. UpdateTyped'
  BY <1>1 DEF UpdateInv, UpdateTyped
<1>3. ASSUME ~updatesOverlapped PROVE \A b \in Updates : update'[b].pc = "idle"
  BY <1>1, <1>3, NoUpdatePlace DEF UpdateInv, AloneInv, Busy
<1>4. AloneInv'
  BY <1>3, Paths DEF UpdateInv, UpdateTyped, AloneInv, Busy, Whole
<1> QED BY <1>2, <1>4 DEF UpdateInv

\* One update goes on, with the two paths as they are, to a place that needs no file;
LEMMA GoesOnInv ==
    ASSUME UpdateInv, NEW a \in Updates, Busy(a), NEW q \in Place,
           update' = [update EXCEPT ![a] = q],
           q.pc \in {"open", "restart", "exec"}, q.release \in Releases,
           UNCHANGED <<disk, latest, updatesOverlapped>>
    PROVE  UpdateInv'
<1>1. /\ update' \in [Updates -> Place]
      /\ \A b \in Updates : update'[b].pc \notin {"idle", "begin"} => update'[b].release \in Releases
      /\ update'[a] = q
      /\ \A b \in Updates \ {a} : update'[b] = update[b]
  BY MoveTyped DEF UpdateInv
<1>2. UpdateTyped'
  BY <1>1 DEF UpdateInv, UpdateTyped, disk
<1>3. ASSUME ~updatesOverlapped PROVE \A b \in Updates \ {a} : update'[b].pc = "idle"
  BY <1>1, <1>3 DEF UpdateInv, AloneInv, Busy
<1>4. AloneInv'
  BY <1>1, <1>3 DEF UpdateInv, AloneInv, Busy, disk, Whole
<1> QED BY <1>2, <1>4 DEF UpdateInv

LEMMA RequestInv ==
    ASSUME UpdateInv, NEW a \in Updates, RequestUpdate(a)
    PROVE  UpdateInv'
<1> DEFINE q == [update[a] EXCEPT !.pc = "begin"]
<1>1. /\ update[a].pc = "idle" /\ UNCHANGED <<disk, latest>>
      /\ updatesOverlapped' = (updatesOverlapped \/ \E b \in Updates : update[b].pc # "idle")
      /\ update' = [update EXCEPT ![a] = q]
  BY DEF RequestUpdate, UpdateInv, UpdateTyped
<1>2. q \in Place /\ q.pc = "begin"
  BY DEF UpdateInv, UpdateTyped, Place, UpdatePc
<1>3. /\ update' \in [Updates -> Place]
      /\ \A b \in Updates : update'[b].pc \notin {"idle", "begin"} => update'[b].release \in Releases
      /\ update'[a] = q
      /\ \A b \in Updates \ {a} : update'[b] = update[b]
  BY <1>1, <1>2, MoveTyped DEF UpdateInv
<1>4. UpdateTyped'
  BY <1>1, <1>3 DEF UpdateInv, UpdateTyped, disk
<1>5. AloneInv'
  BY <1>1, <1>2, <1>3 DEF UpdateInv, AloneInv, Busy, disk, Whole
<1> QED BY <1>4, <1>5 DEF UpdateInv

LEMMA OpenInv ==
    ASSUME UpdateInv, NEW a \in Updates, OpenDownload(a)
    PROVE  UpdateInv'
<1>1. PICK f \in Files :
        /\ IF tmp = None THEN f \notin InUse ELSE f = tmp
        /\ tmp' = f
        /\ file' = [file EXCEPT ![f] = Blank]
        /\ update' = [update EXCEPT ![a].pc = "copy", ![a].file = f, ![a].pos = 1]
  BY DEF OpenDownload
<1> DEFINE q == [update[a] EXCEPT !.pc = "copy", !.file = f, !.pos = 1]
<1>2. update[a].pc = "open" /\ UNCHANGED <<exe, latest, updatesOverlapped>>
  BY DEF OpenDownload, histories
<1>3. q \in Place /\ q.pc = "copy" /\ q.file = f /\ q.release = update[a].release
      /\ update' = [update EXCEPT ![a] = q]
  BY <1>1 DEF UpdateInv, UpdateTyped, Place, UpdatePc
<1>4. q.release \in Releases
  BY <1>2, <1>3 DEF UpdateInv, UpdateTyped
<1> HIDE DEF q
<1>5. /\ update' \in [Updates -> Place]
      /\ \A b \in Updates : update'[b].pc \notin {"idle", "begin"} => update'[b].release \in Releases
      /\ update'[a] = q
      /\ \A b \in Updates \ {a} : update'[b] = update[b]
  BY <1>3, <1>4, MoveTyped DEF UpdateInv
<1>6. file' \in [Files -> [Chunks -> Releases \cup {0, Damaged}]]
  BY <1>1 DEF Blank, UpdateInv, UpdateTyped
<1>7. UpdateTyped'
  BY <1>1, <1>2, <1>5, <1>6 DEF UpdateInv, UpdateTyped
<1>8. ASSUME ~updatesOverlapped PROVE f # exe /\ \A b \in Updates \ {a} : update'[b].pc = "idle"
  BY <1>1, <1>2, <1>5, <1>8 DEF InUse, UpdateInv, AloneInv, Busy
<1>9. f # exe => file'[exe] = file[exe]
  BY <1>1 DEF UpdateInv, UpdateTyped
<1>10. AloneInv'
  BY <1>1, <1>2, <1>3, <1>5, <1>8, <1>9 DEF UpdateInv, AloneInv, Busy, Whole
<1> QED BY <1>7, <1>10 DEF UpdateInv

LEMMA CopyInv ==
    ASSUME UpdateInv, NEW a \in Updates, Copy(a)
    PROVE  UpdateInv'
<1> DEFINE f == update[a].file
<1>1. PICK content \in {update[a].release, Damaged} :
        file' = [file EXCEPT ![update[a].file][update[a].pos] = content]
  BY DEF Copy
<1>3. /\ update[a].pc = "copy" /\ UNCHANGED <<exe, tmp, latest, updatesOverlapped>>
      /\ update[a] \in Place /\ update[a].release \in Releases /\ f \in Files
  BY DEF Copy, histories, UpdateInv, UpdateTyped, Place
<1>4. PICK q \in Place : /\ q.release \in Releases
                         /\ (q.pc = "copy" /\ q.file = f) \/ q.pc = "verify"
                         /\ update' = [update EXCEPT ![a] = q]
  <2> DEFINE more == [update[a] EXCEPT !.pos = @ + 1]
             last == [update[a] EXCEPT !.pc = "verify", !.pos = 0, !.file = 0]
  <2>1. update' = [update EXCEPT ![a] = more] \/ update' = [update EXCEPT ![a] = last]
    <3>1. CASE update[a].pos + 1 \in Chunks
      BY <3>1 DEF Copy, UpdateInv, UpdateTyped
    <3>2. CASE update[a].pos + 1 \notin Chunks
      BY <3>2 DEF Copy, UpdateInv, UpdateTyped
    <3> QED BY <3>1, <3>2
  <2>2. more \in Place /\ more.release \in Releases /\ more.pc = "copy" /\ more.file = f
    BY <1>3 DEF Place, UpdatePc
  <2>3. last \in Place /\ last.release \in Releases /\ last.pc = "verify"
    BY <1>3, Paths DEF Place, UpdatePc
  <2> HIDE DEF more, last
  <2> QED BY <2>1, <2>2, <2>3
<1>5. /\ update' \in [Updates -> Place]
      /\ \A b \in Updates : update'[b].pc \notin {"idle", "begin"} => update'[b].release \in Releases
      /\ update'[a] = q
      /\ \A b \in Updates \ {a} : update'[b] = update[b]
  BY <1>4, MoveTyped DEF UpdateInv
<1>6. file' \in [Files -> [Chunks -> Releases \cup {0, Damaged}]]
      /\ \A g \in Files \ {f} : file'[g] = file[g]
  BY <1>1, <1>3 DEF UpdateInv, UpdateTyped
<1>7. UpdateTyped'
  BY <1>3, <1>5, <1>6 DEF UpdateInv, UpdateTyped
<1>8. ASSUME ~updatesOverlapped
      PROVE  f = tmp /\ tmp # exe /\ \A b \in Updates \ {a} : update'[b].pc = "idle"
  BY <1>3, <1>5, <1>8 DEF UpdateInv, AloneInv, Busy
<1>9. ~updatesOverlapped => file'[exe] = file[exe]
  BY <1>6, <1>8 DEF UpdateInv, UpdateTyped
<1>10. AloneInv'
  <2> SUFFICES ASSUME ~updatesOverlapped PROVE AloneInv'
    BY <1>3 DEF AloneInv
  <2>1. \A b \in Updates : update'[b].pc # "idle" => b = a
    BY <1>8
  <2>2. Whole(file[exe])'
    BY <1>3, <1>9 DEF UpdateInv, AloneInv, Whole, WholeOf
  <2>3. tmp' = f /\ tmp' # None /\ tmp' # exe'
    BY <1>3, <1>8, Paths
  <2> QED BY <1>4, <1>5, <2>1, <2>2, <2>3 DEF AloneInv, Busy
<1> QED BY <1>7, <1>10 DEF UpdateInv

LEMMA VerifyInv ==
    ASSUME UpdateInv, NEW a \in Updates, VerifyDownload(a)
    PROVE  UpdateInv'
<1>1. update[a].pc = "verify" /\ UNCHANGED <<exe, file, latest, updatesOverlapped>>
  BY DEF VerifyDownload, histories
<1>2. CASE GiveUp(a)
  BY <1>1, <1>2, GiveUpInv DEF GiveUp, Busy
<1>3. CASE ~GiveUp(a)
  <2> DEFINE q == [update[a] EXCEPT !.pc = "install"]
  <2>1. /\ tmp # None /\ WholeOf(file[tmp], update[a].release) /\ UNCHANGED tmp
        /\ update' = [update EXCEPT ![a] = q]
    BY <1>3 DEF VerifyDownload, UpdateInv, UpdateTyped
  <2>2. q \in Place /\ q.pc = "install" /\ q.release \in Releases
    BY <1>1 DEF UpdateInv, UpdateTyped, Place, UpdatePc
  <2> HIDE DEF q
  <2>3. /\ update' \in [Updates -> Place]
        /\ \A b \in Updates : update'[b].pc \notin {"idle", "begin"} => update'[b].release \in Releases
        /\ update'[a] = q
        /\ \A b \in Updates \ {a} : update'[b] = update[b]
    BY <2>1, <2>2, MoveTyped DEF UpdateInv
  <2>4. UpdateTyped'
    BY <1>1, <2>1, <2>3 DEF UpdateInv, UpdateTyped
  <2>5. Whole(file[tmp])'
    BY <1>1, <2>1 DEF UpdateInv, UpdateTyped, Whole, WholeOf
  <2>6. ASSUME ~updatesOverlapped PROVE \A b \in Updates \ {a} : update'[b].pc = "idle"
    BY <1>1, <2>3, <2>6 DEF UpdateInv, AloneInv, Busy
  <2>7. AloneInv'
    BY <1>1, <2>1, <2>2, <2>3, <2>5, <2>6 DEF UpdateInv, AloneInv, Busy, Whole
  <2> QED BY <2>4, <2>7 DEF UpdateInv
<1> QED BY <1>2, <1>3

LEMMA InstallInv ==
    ASSUME UpdateInv, NEW a \in Updates, InstallDownload(a)
    PROVE  UpdateInv'
<1>1. update[a].pc = "install" /\ UNCHANGED <<file, latest, updatesOverlapped>>
  BY DEF InstallDownload, histories
<1>2. CASE tmp = None
  BY <1>1, <1>2, GiveUpInv DEF InstallDownload, GiveUp, Busy
<1>3. CASE tmp # None
  <2> DEFINE q == [update[a] EXCEPT !.pc = "restart"]
  <2>1. exe' = tmp /\ tmp' = None /\ update' = [update EXCEPT ![a] = q]
    BY <1>3 DEF InstallDownload, UpdateInv, UpdateTyped
  <2>2. q \in Place /\ q.pc = "restart" /\ (q.release \in Releases)
    BY <1>1 DEF UpdateInv, UpdateTyped, Place, UpdatePc
  <2> HIDE DEF q
  <2>3. /\ update' \in [Updates -> Place]
        /\ \A b \in Updates : update'[b].pc \notin {"idle", "begin"} => update'[b].release \in Releases
        /\ update'[a] = q
        /\ \A b \in Updates \ {a} : update'[b] = update[b]
    BY <2>1, <2>2, MoveTyped DEF UpdateInv
  <2>4. UpdateTyped'
    BY <1>1, <1>3, <2>1, <2>3 DEF UpdateInv, UpdateTyped
  <2>5. ASSUME ~updatesOverlapped
        PROVE  Whole(file[tmp]) /\ \A b \in Updates \ {a} : update'[b].pc = "idle"
    BY <1>1, <2>3, <2>5 DEF UpdateInv, AloneInv, Busy
  <2>6. AloneInv'
    BY <1>1, <1>3, <2>1, <2>2, <2>3, <2>5, Paths DEF UpdateInv, UpdateTyped, AloneInv, Busy, Whole
  <2> QED BY <2>4, <2>6 DEF UpdateInv
<1> QED BY <1>2, <1>3

\* Every step.
LEMMA StepUpdateInv == UpdateInv /\ [DeployNext]_deployVars => UpdateInv'
<1> SUFFICES ASSUME UpdateInv, [DeployNext]_deployVars PROVE UpdateInv'
  OBVIOUS
<1> USE DEF disk, histories, bounds
<1>1. ASSUME UNCHANGED <<disk, update, latest, updatesOverlapped>> PROVE UpdateInv'
  BY <1>1 DEF UpdateInv, UpdateTyped, AloneInv, Busy, Whole
<1>2. ASSUME NEW p \in Processes, Start(p) \/ Starting(p) \/ Fail(p) PROVE UpdateInv'
  BY <1>1, <1>2 DEF Start, Starting, Fail, Configure, ReadApplied, Migrate, Migrated,
       UseGivenPassword, EnsureRead, EnsureWrite
<1>3. CASE SeedSettings \/ StartServing \/ BootstrapDone \/ LoseConfig \/ ReadAccount
           \/ WriteAccount \/ SwitchSelfUpdate \/ ExpireStatus \/ CheckStatus
  BY <1>1, <1>3 DEF SeedSettings, StartServing, BootstrapDone, LoseConfig, ReadAccount,
       WriteAccount, SwitchSelfUpdate, ExpireStatus, CheckStatus
<1>4. CASE Crash
  BY <1>4, GoneInv DEF Crash
<1>5. CASE Publish
  BY <1>5 DEF Publish, UpdateInv, UpdateTyped, AloneInv, Busy, Whole
<1>6. ASSUME NEW a \in Updates, BeginUpdate(a) PROVE UpdateInv'
  <2> DEFINE q == [update[a] EXCEPT !.pc = "open", !.release = latest]
  <2>1. /\ update[a].pc = "begin" /\ update' = [update EXCEPT ![a] = q]
        /\ UNCHANGED <<disk, latest, updatesOverlapped>>
    BY <1>6 DEF BeginUpdate, UpdateInv, UpdateTyped
  <2>2. q \in Place /\ q.pc = "open" /\ q.release \in Releases
    BY DEF UpdateInv, UpdateTyped, Place, UpdatePc
  <2> HIDE DEF q
  <2> QED BY <2>1, <2>2, GoesOnInv DEF Busy
<1>7. ASSUME NEW a \in Updates, StopBgp(a) PROVE UpdateInv'
  <2> DEFINE q == [update[a] EXCEPT !.pc = "exec"]
  <2>1. /\ update[a].pc = "restart" /\ update' = [update EXCEPT ![a] = q]
        /\ UNCHANGED <<disk, latest, updatesOverlapped>>
    BY <1>7 DEF StopBgp, Step, UpdateInv, UpdateTyped
  <2>2. q \in Place /\ q.pc = "exec" /\ q.release \in Releases
    BY <2>1 DEF UpdateInv, UpdateTyped, Place, UpdatePc
  <2> HIDE DEF q
  <2> QED BY <2>1, <2>2, GoesOnInv DEF Busy
<1>8. ASSUME NEW a \in Updates, Exec(a) PROVE UpdateInv'
  <2>1. CASE ServerGone
    BY <1>8, <2>1, GoneInv DEF Exec
  <2>2. CASE update' = [update EXCEPT ![a] = NoUpdate]
    BY <1>8, <2>2, GiveUpInv DEF Exec, Busy
  <2> QED BY <1>8, <2>1, <2>2 DEF Exec
<1>9. ASSUME NEW a \in Updates, AbortUpdate(a) \/ RefuseUpdate(a) PROVE UpdateInv'
  BY <1>9, GiveUpInv DEF AbortUpdate, RefuseUpdate, GiveUp, Busy
<1>10. ASSUME NEW a \in Updates, Updating(a) PROVE UpdateInv'
  BY <1>6, <1>7, <1>8, <1>10, OpenInv, CopyInv, VerifyInv, InstallInv DEF Updating
<1>11. CASE UNCHANGED deployVars
  BY <1>1, <1>11 DEF deployVars
<1> QED BY <1>2, <1>3, <1>4, <1>5, <1>9, <1>10, <1>11, RequestInv DEF DeployNext

\* The binary at the executable's path is a whole release, after a crash at any
\* moment too, as long as two updates never ran at the same time: the rename that
\* Apply ends with finds the file whose checksum it compared.
THEOREM ExecutableIsWhole == DeploySpec => []AloneUpdateIsWhole
<1>1. UpdateInv => AloneUpdateIsWhole
  BY DEF UpdateInv, AloneInv, AloneUpdateIsWhole
<1> QED BY <1>1, InitUpdateInv, StepUpdateInv, PTL DEF DeploySpec

-----------------------------------------------------------------------------
\* What was printed as the account's password had been stored as such, whoever
\* else was starting at the time: both follow from the rows the conditional
\* UPDATE changed.
THEOREM PrintedIsStored == DeploySpec => []PrintedWasStored
<1>1. DeployInit => PrintedWasStored
  BY DEF DeployInit, PrintedWasStored
<1>2. PrintedWasStored /\ [DeployNext]_deployVars => PrintedWasStored'
  <2> SUFFICES ASSUME PrintedWasStored, [DeployNext]_deployVars PROVE PrintedWasStored'
    OBVIOUS
  <2> USE DEF PrintedWasStored, histories
  <2>1. ASSUME NEW p \in Processes, Start(p) \/ Starting(p) \/ Fail(p) PROVE PrintedWasStored'
    BY <2>1 DEF Start, Starting, Fail, Configure, ReadApplied, Migrate, Migrated,
         UseGivenPassword, EnsureRead, EnsureWrite
  <2>2. ASSUME NEW a \in Updates, RequestUpdate(a) \/ Updating(a) \/ AbortUpdate(a) \/ RefuseUpdate(a)
        PROVE  PrintedWasStored'
    BY <2>2 DEF RequestUpdate, Updating, AbortUpdate, RefuseUpdate, BeginUpdate, OpenDownload, Copy,
         VerifyDownload, InstallDownload, StopBgp, Exec
  <2>3. CASE WriteAccount
    BY <2>3 DEF WriteAccount
  <2>4. CASE \/ SeedSettings \/ StartServing \/ BootstrapDone \/ Crash \/ LoseConfig \/ ReadAccount
             \/ SwitchSelfUpdate \/ Publish \/ ExpireStatus \/ CheckStatus \/ UNCHANGED deployVars
    BY <2>4 DEF SeedSettings, StartServing, BootstrapDone, Crash, LoseConfig, ReadAccount,
         SwitchSelfUpdate, Publish, ExpireStatus, CheckStatus, deployVars
  <2> QED BY <2>1, <2>2, <2>3, <2>4 DEF DeployNext
<1> QED BY <1>1, <1>2, PTL DEF DeploySpec

-----------------------------------------------------------------------------
Parts == {"applied", "schema", "users", "nodes", "neighbors", "rules", "audit", "settings", "quick"}

\* A migration's statements change rows and schema, never the list of the
\* migrations that ran.
LEMMA MigrationKeeps ==
    ASSUME NEW d, DOMAIN d = Parts, NEW v \in Versions
    PROVE  DOMAIN Apply(v, d) = Parts /\ Apply(v, d).applied = d.applied
<1> DEFINE Keeps(e) == DOMAIN e = Parts /\ e.applied = d.applied
<1> USE DEF Parts
<1>1. Keeps(V1(d)) /\ Keeps(V2(d)) /\ Keeps(V3(d)) /\ Keeps(V4(d)) /\ Keeps(V5(d)) /\ Keeps(V6(d))
  BY DEF V1, V2, V3, V4, V5, V6
<1>2. Keeps(V7(d)) /\ Keeps(V8(d)) /\ Keeps(V9(d)) /\ Keeps(V10(d)) /\ Keeps(V11(d))
  BY DEF V7, V8, DropUsers, V9, V10, V11
<1>3. Keeps(V12(d)) /\ Keeps(V13(d)) /\ Keeps(V14(d)) /\ Keeps(V15(d)) /\ Keeps(V17(d)) /\ Keeps(V21(d))
  BY DEF V12, V13, V14, V15, V17, V21
<1>4. Keeps(V16(d))
  BY DEF V16, DropNodes
<1>5. Keeps(V18(d)) /\ Keeps(V19(d)) /\ Keeps(V20(d))
  BY DEF V18, V19, V20, WithColumn
<1> HIDE DEF Keeps
<1>6. Keeps(Apply(v, d))
  BY <1>1, <1>2, <1>3, <1>4, <1>5 DEF Apply, Versions
<1> QED BY <1>6 DEF Keeps

\* A set of numbers has a least one.
LEMMA LeastNumber ==
    ASSUME NEW S, S \subseteq Nat, S # {}
    PROVE  \E m \in S : \A n \in S : m <= n
<1>1. PICK m \in S : \A n \in S : ~(<<n, m>> \in OpToRel(<, Nat))
  BY NatLessThanWellFounded, WFMin
<1>2. \A n \in S : ~(n < m)
  BY <1>1 DEF OpToRel
<1> QED BY <1>2

\* The settings of the configuration, and the others.
LEMMA ConfigKeys == DOMAIN FromConfig = {"query_timeout_sec", "self_update_enabled"}
BY DEF FromConfig

OthersOf(settings) == [k \in DOMAIN settings \ DOMAIN FromConfig |-> settings[k]]

\* What a step may write into the database: a migration that no process has
\* recorded, accounts, settings of SeedSettings.
DatabaseStep ==
    \/ db' = db
    \/ \E v \in Versions : v \notin db.applied /\ db' = Record(v, Apply(v, db))
    \/ \E users : db' = [db EXCEPT !.users = users]
    \/ \E new : db' = [db EXCEPT !.settings = new] /\ OthersOf(new) = OthersOf(db.settings)

LEMMA DatabaseStepKeeps ==
    ASSUME DOMAIN db = Parts, DatabaseStep
    PROVE  /\ DOMAIN db' = Parts
           /\ OwnedByMigrations(db') # OwnedByMigrations(db) => db'.applied # db.applied
<1>1. ASSUME NEW v \in Versions, v \notin db.applied, db' = Record(v, Apply(v, db))
      PROVE  DOMAIN db' = Parts /\ db'.applied # db.applied
  <2>1. DOMAIN Apply(v, db) = Parts /\ Apply(v, db).applied = db.applied
    BY MigrationKeeps
  <2> QED BY <1>1, <2>1 DEF Record, Parts
<1>2. ASSUME NEW users, db' = [db EXCEPT !.users = users]
      PROVE  DOMAIN db' = Parts /\ OwnedByMigrations(db') = OwnedByMigrations(db)
  BY <1>2 DEF OwnedByMigrations, Parts
<1>3. ASSUME NEW new, db' = [db EXCEPT !.settings = new], OthersOf(new) = OthersOf(db.settings)
      PROVE  DOMAIN db' = Parts /\ OwnedByMigrations(db') = OwnedByMigrations(db)
  <2>1. /\ DOMAIN db' = Parts /\ db'.settings = new
        /\ db'.schema = db.schema /\ db'.nodes = db.nodes /\ db'.neighbors = db.neighbors
        /\ db'.rules = db.rules /\ db'.audit = db.audit /\ db'.quick = db.quick
    BY <1>3 DEF Parts
  <2> QED BY <1>3, <2>1 DEF OwnedByMigrations, OthersOf
<1> QED BY <1>1, <1>2, <1>3 DEF DatabaseStep

\* Processes have their fields, and one that runs has a release.
ProcInv ==
    /\ DOMAIN db = Parts
    /\ proc = [p \in Processes |-> proc[p]]
    /\ \A p \in Processes : /\ DOMAIN proc[p] = DOMAIN Off
                            /\ ~At(p, "off") => proc[p].release \in Releases

LEMMA InitProcInv == DeployInit => ProcInv
<1> SUFFICES ASSUME DeployInit PROVE ProcInv
  OBVIOUS
<1>1. DOMAIN NoDatabase = Parts
  BY DEF NoDatabase, Parts
<1>2. \A p \in Processes : proc[p] = Off /\ At(p, "off")
  BY DEF DeployInit, At, Off
<1> QED BY <1>1, <1>2, DatabasesAssumption DEF DeployInit, ProcInv

\* One process goes on, or is over.
LEMMA MoveProc ==
    ASSUME ProcInv, DOMAIN db' = Parts, NEW p \in Processes, NEW q, proc' = [proc EXCEPT ![p] = q],
           DOMAIN q = DOMAIN Off, q.pc # "off" => q.release \in Releases
    PROVE  ProcInv'
BY DEF ProcInv, At

LEMMA ExitProc ==
    ASSUME ProcInv, DOMAIN db' = Parts, NEW p \in Processes, Exit(p)
    PROVE  ProcInv'
<1>1. Off.pc = "off"
  BY DEF Off
<1> QED BY <1>1, MoveProc DEF Exit

LEMMA GoesProc ==
    ASSUME ProcInv, DOMAIN db' = Parts, NEW p \in Processes, ~At(p, "off"),
           NEW pc, pc # "off", ProcessAt(p, pc)
    PROVE  ProcInv'
<1> DEFINE q == [proc[p] EXCEPT !.pc = pc]
<1>1. DOMAIN q = DOMAIN Off /\ q.release \in Releases /\ q.pc = pc
  BY DEF ProcInv, Off
<1>2. proc' = [proc EXCEPT ![p] = q]
  BY DEF ProcessAt
<1> HIDE DEF q
<1> QED BY <1>1, <1>2, MoveProc

LEMMA MigrateStep ==
    ASSUME ProcInv, NEW p \in Processes, Migrate(p)
    PROVE  DatabaseStep /\ ProcInv'
<1> DEFINE v == NextVersion(p)
           q == [proc[p] EXCEPT !.applied = proc[p].applied \cup {v}]
<1>1. Pending(p) \subseteq Versions
  BY MigrationsAssumption DEF Migrate, ProcInv, At, Pending, Versions
<1>2. v \in Versions
  BY <1>1, LeastNumber DEF Migrate, NextVersion, Versions
<1>3. \/ v \notin db.applied /\ db' = Record(v, Apply(v, db)) /\ proc' = [proc EXCEPT ![p] = q]
      \/ Exit(p) /\ db' = db
  BY DEF Migrate
<1>4. DatabaseStep
  BY <1>2, <1>3 DEF DatabaseStep
<1>5. DOMAIN db' = Parts
  BY <1>4, DatabaseStepKeeps DEF ProcInv
<1>6. DOMAIN q = DOMAIN Off /\ q.release = proc[p].release /\ q.pc = proc[p].pc
  BY DEF ProcInv, Off
<1>7. q.pc # "off" => q.release \in Releases
  BY <1>6 DEF ProcInv, At
<1> HIDE DEF q, v
<1> QED BY <1>3, <1>4, <1>5, <1>6, <1>7, MoveProc, ExitProc

LEMMA StartSteps ==
    ASSUME ProcInv, NEW p \in Processes,
           \/ Start(p) \/ Configure(p) \/ ReadApplied(p) \/ Migrated(p)
           \/ UseGivenPassword(p) \/ EnsureRead(p) \/ EnsureWrite(p) \/ Fail(p)
    PROVE  DatabaseStep /\ ProcInv'
<1>1. CASE Start(p)
  <2>1. PICK r \in Releases, env \in {None, "given"} :
           proc' = [proc EXCEPT ![p] = [Off EXCEPT !.pc = "config", !.release = r, !.env = env]]
    BY <1>1 DEF Start
  <2> DEFINE q == [Off EXCEPT !.pc = "config", !.release = r, !.env = env]
  <2>2. DOMAIN q = DOMAIN Off /\ q.release \in Releases
    BY DEF Off
  <2>3. db' = db /\ DOMAIN db' = Parts
    BY <1>1 DEF Start, ProcInv
  <2> HIDE DEF q
  <2> QED BY <2>1, <2>2, <2>3, MoveProc DEF DatabaseStep, q
<1>2. CASE Configure(p) \/ ReadApplied(p)
  <2> DEFINE c == [proc[p] EXCEPT !.pc = "open", !.generated = ~config]
             m == [proc[p] EXCEPT !.pc = "migrate", !.applied = db.applied]
  <2>1. proc' = [proc EXCEPT ![p] = c] \/ proc' = [proc EXCEPT ![p] = m]
    BY <1>2 DEF Configure, ReadApplied
  <2>2. /\ DOMAIN c = DOMAIN Off /\ c.release = proc[p].release
        /\ DOMAIN m = DOMAIN Off /\ m.release = proc[p].release
    BY DEF ProcInv, Off
  <2>3. c.release \in Releases /\ m.release \in Releases
    BY <1>2, <2>2 DEF Configure, ReadApplied, ProcInv, At
  <2>4. db' = db /\ DOMAIN db' = Parts
    BY <1>2 DEF Configure, ReadApplied, ProcInv
  <2> HIDE DEF c, m
  <2> QED BY <2>1, <2>2, <2>3, <2>4, MoveProc DEF DatabaseStep
<1>3. CASE Migrated(p) \/ EnsureRead(p)
  <2>1. ~At(p, "off") /\ db' = db /\ DOMAIN db' = Parts
    BY <1>3 DEF Migrated, EnsureRead, ProcInv, At
  <2>2. Exit(p) \/ \E pc : pc # "off" /\ ProcessAt(p, pc)
    BY <1>3 DEF Migrated, EnsureRead, AfterPassword
  <2> QED BY <2>1, <2>2, ExitProc, GoesProc DEF DatabaseStep
<1>4. CASE EnsureWrite(p)
  <2>1. ~At(p, "off") /\ \E pc : pc # "off" /\ ProcessAt(p, pc)
    BY <1>4 DEF EnsureWrite, At, AfterPassword
  <2>2. DatabaseStep
    BY <1>4 DEF EnsureWrite, SetHash, DatabaseStep
  <2> QED BY <2>1, <2>2, DatabaseStepKeeps, GoesProc DEF ProcInv
<1>5. ASSUME NEW pc, pc # "off", ~At(p, "off"), DOMAIN db' = Parts,
             proc' = [proc EXCEPT ![p].pc = pc, ![p].env = None]
      PROVE  ProcInv'
  <2> DEFINE q == [proc[p] EXCEPT !.pc = pc, !.env = None]
  <2>1. DOMAIN q = DOMAIN Off /\ q.release = proc[p].release
    BY DEF ProcInv, Off
  <2>2. proc' = [proc EXCEPT ![p] = q]
    BY <1>5 DEF ProcInv, Off
  <2>3. q.release \in Releases
    BY <1>5, <2>1 DEF ProcInv
  <2> HIDE DEF q
  <2> QED BY <1>5, <2>1, <2>2, <2>3, MoveProc
<1>6. CASE UseGivenPassword(p)
  <2>1. DatabaseStep
    BY <1>6 DEF UseGivenPassword, SetHash, DatabaseStep
  <2>2. \/ Exit(p)
        \/ \E pc : pc # "off" /\ proc' = [proc EXCEPT ![p].pc = pc, ![p].env = None]
    BY <1>6 DEF UseGivenPassword, AfterPassword
  <2>3. ~At(p, "off") /\ DOMAIN db' = Parts
    BY <1>6, <2>1, DatabaseStepKeeps DEF UseGivenPassword, ProcInv, At
  <2> QED BY <1>5, <2>1, <2>2, <2>3, ExitProc
<1>7. CASE Fail(p)
  <2>1. db' = db /\ DOMAIN db' = Parts /\ ~At(p, "off")
    BY <1>7 DEF Fail, ProcInv, At
  <2>2. \/ Exit(p)
        \/ proc' = [proc EXCEPT ![p].pc = "settings", ![p].env = None]
        \/ ProcessAt(p, "bgp")
    BY <1>7 DEF Fail
  <2> QED BY <1>5, <2>1, <2>2, ExitProc, GoesProc DEF DatabaseStep
<1> QED BY <1>1, <1>2, <1>3, <1>4, <1>6, <1>7

LEMMA SettingsSteps ==
    ASSUME ProcInv, SeedSettings \/ SwitchSelfUpdate
    PROVE  DatabaseStep /\ DOMAIN db' = Parts
<1>1. CASE SeedSettings
  <2> DEFINE new == [k \in DOMAIN db.settings \cup DOMAIN FromConfig |->
                      IF k \in DOMAIN FromConfig /\ (k \in DOMAIN db.settings => db.settings[k] = "")
                      THEN FromConfig[k] ELSE db.settings[k]]
  <2>1. db' = [db EXCEPT !.settings = new]
    BY <1>1 DEF SeedSettings
  <2>2. OthersOf(new) = OthersOf(db.settings)
    BY DEF OthersOf
  <2> HIDE DEF new
  <2> QED BY <2>1, <2>2, DatabaseStepKeeps DEF DatabaseStep, ProcInv
<1>2. CASE SwitchSelfUpdate
  <2>1. PICK on \in {"true", "false"} :
          db' = [db EXCEPT !.settings =
                   [k \in DOMAIN db.settings \cup {"self_update_enabled"} |->
                      IF k = "self_update_enabled" THEN on ELSE db.settings[k]]]
    BY <1>2 DEF SwitchSelfUpdate
  <2> DEFINE new == [k \in DOMAIN db.settings \cup {"self_update_enabled"} |->
                      IF k = "self_update_enabled" THEN on ELSE db.settings[k]]
  <2>2. db' = [db EXCEPT !.settings = new]
    BY <2>1
  <2>3. OthersOf(new) = OthersOf(db.settings)
    BY ConfigKeys DEF OthersOf
  <2> HIDE DEF new
  <2> QED BY <2>2, <2>3, DatabaseStepKeeps DEF DatabaseStep, ProcInv
<1> QED BY <1>1, <1>2

LEMMA StepProcInv ==
    ASSUME ProcInv, [DeployNext]_deployVars
    PROVE  DatabaseStep /\ ProcInv'
<1> USE DEF disk, histories, bounds
<1>1. "server" \in Processes /\ "bootstrap" \in Processes
  BY DEF Processes
<1>2. ASSUME UNCHANGED <<db, proc>> PROVE DatabaseStep /\ ProcInv'
  BY <1>2 DEF DatabaseStep, ProcInv, At
<1>3. ASSUME NEW p \in Processes, Start(p) \/ Starting(p) \/ Fail(p) PROVE DatabaseStep /\ ProcInv'
  BY <1>3, MigrateStep, StartSteps DEF Starting
<1>4. CASE SeedSettings
  <2>1. ~At("server", "off") /\ ProcessAt("server", "bgp")
    BY <1>4 DEF SeedSettings, At
  <2> QED BY <1>1, <1>4, <2>1, SettingsSteps, GoesProc
<1>5. CASE StartServing \/ BootstrapDone \/ Crash
  <2>1. db' = db /\ DOMAIN db' = Parts
    BY <1>5 DEF StartServing, BootstrapDone, Crash, ProcInv
  <2>2. \/ ~At("server", "off") /\ ProcessAt("server", "serving")
        \/ Exit("bootstrap") \/ Exit("server")
    BY <1>5 DEF StartServing, BootstrapDone, Crash, At
  <2> QED BY <1>1, <2>1, <2>2, GoesProc, ExitProc DEF DatabaseStep
<1>6. CASE SwitchSelfUpdate
  <2>1. proc' = proc
    BY <1>6 DEF SwitchSelfUpdate
  <2> QED BY <1>6, <2>1, SettingsSteps DEF ProcInv, At
<1>7. CASE WriteAccount
  <2>1. proc' = proc /\ \E users : db' = [db EXCEPT !.users = users]
    BY <1>7 DEF WriteAccount
  <2>2. DatabaseStep
    BY <2>1 DEF DatabaseStep
  <2> QED BY <2>1, <2>2, DatabaseStepKeeps DEF ProcInv, At
<1>8. ASSUME NEW a \in Updates, Exec(a) PROVE DatabaseStep /\ ProcInv'
  <2>1. db' = db /\ DOMAIN db' = Parts
    BY <1>8 DEF Exec, ProcInv
  <2>2. ASSUME NEW r \in Releases, proc' = [proc EXCEPT !["server"] = [Off EXCEPT !.pc = "config", !.release = r]]
        PROVE  ProcInv'
    <3> DEFINE q == [Off EXCEPT !.pc = "config", !.release = r]
    <3>1. DOMAIN q = DOMAIN Off /\ q.release \in Releases
      BY DEF Off
    <3> HIDE DEF q
    <3> QED BY <1>1, <2>1, <2>2, <3>1, MoveProc DEF q
  <2> QED BY <1>1, <1>2, <1>8, <2>1, <2>2, ExitProc DEF Exec, DatabaseStep
<1>9. ASSUME NEW a \in Updates, RequestUpdate(a) \/ Updating(a) \/ AbortUpdate(a) \/ RefuseUpdate(a)
      PROVE  DatabaseStep /\ ProcInv'
  BY <1>2, <1>8, <1>9 DEF RequestUpdate, Updating, AbortUpdate, RefuseUpdate, BeginUpdate, OpenDownload,
       Copy, VerifyDownload, InstallDownload, StopBgp
<1>10. CASE \/ LoseConfig \/ ReadAccount \/ Publish \/ ExpireStatus \/ CheckStatus \/ UNCHANGED deployVars
  BY <1>2, <1>10 DEF LoseConfig, ReadAccount, Publish, ExpireStatus, CheckStatus, deployVars
<1> QED BY <1>3, <1>4, <1>5, <1>6, <1>7, <1>9, <1>10 DEF DeployNext

\* Whatever processes start at the same time and wherever they are cut off, what
\* migrations own changes only together with the list of those that ran: a
\* migration never takes effect twice, over what was chosen since.
THEOREM EachMigrationOnce == DeploySpec => MigrationsRunOnce
<1>1. ProcInv /\ [DeployNext]_deployVars => ProcInv'
  BY StepProcInv
<1>2. ProcInv /\ [DeployNext]_deployVars
      => [OwnedByMigrations(db') # OwnedByMigrations(db) => db'.applied # db.applied]_deployVars
  BY StepProcInv, DatabaseStepKeeps DEF ProcInv
<1> QED BY <1>1, <1>2, InitProcInv, PTL DEF DeploySpec, MigrationsRunOnce

\* What a migration brings whatever it finds; migration 1 brings the type of a
\* node and migration 3 its city as well, unless there is an older nodes table.
Brings(v) ==
    CASE v = 1  -> {"nodes", "users", "audit_log", "community_rules"}
      [] v = 2  -> {"settings"}
      [] v = 5  -> {"bgp_neighbors"}
      [] v = 6  -> {"bgp_neighbors.ipv6"}
      [] v = 7  -> {"nodes.is_default"}
      [] v = 14 -> {"bgp_neighbors.default_route_as"}
      [] v = 17 -> {"quick_queries"}
      [] v = 18 -> {"bgp_neighbors.peer_type"}
      [] v = 19 -> {"quick_queries.node_id"}
      [] v = 20 -> {"bgp_neighbors.passive_mode"}
      [] v = 21 -> {"share_snapshots"}
      [] OTHER  -> {}

\* The nodes table of the program before this one.
Older(s) == "nodes.node_type" \in s /\ "nodes.type" \notin s

\* The schema after a migration of a database with the schema s.
SchemaAfter(v, s) ==
    CASE v = 1  -> s \cup {"users", "users.role", "pops", "audit_log", "community_rules"}
                     \cup (IF "nodes" \in s THEN {} ELSE {"nodes", "nodes.type", "nodes.pop_id"})
      [] v = 3  -> s \cup {"nodes.city"}
      [] v = 8  -> s \ {"users.role"}
      [] v = 16 -> IF Older(s)
                     THEN (s \ {"nodes.node_type", "nodes.pop_id"}) \cup {"nodes.type", "nodes.city"}
                     ELSE s
      [] v \in {18, 20} -> IF "bgp_neighbors" \in s THEN s \cup Brings(v) ELSE s
      [] v = 19 -> IF "quick_queries" \in s THEN s \cup Brings(v) ELSE s
      [] OTHER  -> s \cup Brings(v)

\* What holds of the schema of a database with the first k migrations, whether
\* or not its nodes table is the older one.
Fits(k, s) ==
    /\ \A v \in 1..k : Brings(v) \subseteq s
    /\ (k >= 1 \/ "nodes" \in s) => ("nodes.type" \in s \/ "nodes.node_type" \in s)
    /\ k >= 3 => "nodes.city" \in s \/ Older(s)
    /\ k >= 16 => ~Older(s)
    /\ \A v \in DOMAIN AddedColumn : k < v => AddedColumn[v] \notin s

\* The migrations that add a column without looking for it.
LEMMA AddedColumns ==
    /\ DOMAIN AddedColumn = {3, 6, 7, 14}
    /\ AddedColumn[3] = "nodes.city" /\ AddedColumn[6] = "bgp_neighbors.ipv6"
    /\ AddedColumn[7] = "nodes.is_default" /\ AddedColumn[14] = "bgp_neighbors.default_route_as"
BY DEF AddedColumn

\* Of a database, a migration's change to the schema depends on the schema only.
LEMMA SchemaOf ==
    ASSUME NEW d, DOMAIN d = Parts, NEW v \in Versions
    PROVE  Apply(v, d).schema = SchemaAfter(v, d.schema)
<1> USE DEF Parts
<1> DEFINE S(w, e) == e.schema = SchemaAfter(w, d.schema)
<1>1. S(1, V1(d)) /\ S(2, V2(d)) /\ S(3, V3(d)) /\ S(4, V4(d)) /\ S(5, V5(d)) /\ S(6, V6(d)) /\ S(7, V7(d))
  BY DEF V1, V2, V3, V4, V5, V6, V7, SchemaAfter, Brings
<1>2. S(8, V8(d)) /\ S(9, V9(d)) /\ S(10, V10(d)) /\ S(11, V11(d)) /\ S(12, V12(d)) /\ S(13, V13(d))
  BY DEF V8, DropUsers, V9, V10, V11, V12, V13, SchemaAfter, Brings
<1>3. S(14, V14(d)) /\ S(15, V15(d)) /\ S(17, V17(d)) /\ S(21, V21(d))
  BY DEF V14, V15, V17, V21, SchemaAfter, Brings
<1>4. S(16, V16(d))
  BY DEF V16, DropNodes, HasLegacyNodes, Older, SchemaAfter
<1>5. S(18, V18(d)) /\ S(19, V19(d)) /\ S(20, V20(d))
  <2>1. ASSUME NEW column, NEW rows
        PROVE  WithColumn(d, column, rows).schema =
                 IF "bgp_neighbors" \in d.schema THEN d.schema \cup {column} ELSE d.schema
    BY DEF WithColumn
  <2>2. V19(d).schema = IF "quick_queries" \in d.schema THEN d.schema \cup {"quick_queries.node_id"} ELSE d.schema
    BY DEF V19
  <2>3. Brings(18) = {"bgp_neighbors.peer_type"} /\ Brings(20) = {"bgp_neighbors.passive_mode"}
        /\ Brings(19) = {"quick_queries.node_id"}
    BY DEF Brings
  <2>4. PICK rows : V18(d) = WithColumn(d, "bgp_neighbors.peer_type", rows)
    BY Zenon DEF V18
  <2>5. PICK others : V20(d) = WithColumn(d, "bgp_neighbors.passive_mode", others)
    BY Zenon DEF V20
  <2>6. /\ SchemaAfter(18, d.schema) = IF "bgp_neighbors" \in d.schema
                                         THEN d.schema \cup {"bgp_neighbors.peer_type"} ELSE d.schema
        /\ SchemaAfter(20, d.schema) = IF "bgp_neighbors" \in d.schema
                                         THEN d.schema \cup {"bgp_neighbors.passive_mode"} ELSE d.schema
        /\ SchemaAfter(19, d.schema) = IF "quick_queries" \in d.schema
                                         THEN d.schema \cup {"quick_queries.node_id"} ELSE d.schema
    BY <2>3 DEF SchemaAfter
  <2>7. V18(d).schema = SchemaAfter(18, d.schema)
    <3>1. WithColumn(d, "bgp_neighbors.peer_type", rows).schema =
            IF "bgp_neighbors" \in d.schema THEN d.schema \cup {"bgp_neighbors.peer_type"} ELSE d.schema
      BY <2>1
    <3>2. V18(d).schema = WithColumn(d, "bgp_neighbors.peer_type", rows).schema
      BY <2>4
    <3> QED BY <2>6, <3>1, <3>2
  <2>8. V20(d).schema = SchemaAfter(20, d.schema)
    <3>1. WithColumn(d, "bgp_neighbors.passive_mode", others).schema =
            IF "bgp_neighbors" \in d.schema THEN d.schema \cup {"bgp_neighbors.passive_mode"} ELSE d.schema
      BY <2>1
    <3>2. V20(d).schema = WithColumn(d, "bgp_neighbors.passive_mode", others).schema
      BY <2>5
    <3> QED BY <2>6, <3>1, <3>2
  <2> QED BY <2>2, <2>6, <2>7, <2>8
<1> HIDE DEF S
<1>6. S(v, Apply(v, d))
  BY <1>1, <1>2, <1>3, <1>4, <1>5 DEF Apply, Versions
<1> QED BY <1>6 DEF S

\* The migration after the first k finds what it needs and leaves what the next needs.
LEMMA FitsNext ==
    ASSUME NEW k \in 0..20, NEW s, Fits(k, s)
    PROVE  Fits(k + 1, SchemaAfter(k + 1, s))
<1> DEFINE t == SchemaAfter(k + 1, s)
<1>1. /\ \A v \in 1..k : Brings(v) \subseteq s
      /\ k >= 1 \/ "nodes" \in s => "nodes.type" \in s \/ "nodes.node_type" \in s
      /\ k >= 3 => "nodes.city" \in s \/ Older(s)
      /\ k >= 16 => ~Older(s)
      /\ \A v \in {3, 6, 7, 14} : k < v => AddedColumn[v] \notin s
  BY AddedColumns DEF Fits
<1>2. /\ s \ {"users.role", "nodes.node_type", "nodes.pop_id"} \subseteq t
      /\ "nodes.type" \in s => "nodes.type" \in t
      /\ k # 15 => ("nodes.node_type" \in s <=> "nodes.node_type" \in t)
      /\ k \notin {0, 15} => ("nodes.type" \in s <=> "nodes.type" \in t)
      /\ k = 15 => ~Older(t) /\ ("nodes.city" \in s \/ Older(s) => "nodes.city" \in t)
  BY DEF SchemaAfter, Brings, Older
<1>3. Brings(k + 1) \subseteq t
  <2>1. k \in {17, 19} => "bgp_neighbors" \in s
    BY <1>1 DEF Brings
  <2>2. k = 18 => "quick_queries" \in s
    BY <1>1 DEF Brings
  <2> QED BY <2>1, <2>2 DEF SchemaAfter, Brings
<1>4. \A v \in 1 .. k + 1 : Brings(v) \subseteq t
  <2>1. ASSUME NEW v \in 1..k PROVE Brings(v) \subseteq s \ {"users.role", "nodes.node_type", "nodes.pop_id"}
    BY <1>1, <2>1 DEF Brings
  <2> QED BY <1>2, <1>3, <2>1
<1>5. "nodes.type" \in t \/ "nodes.node_type" \in t
  <2>1. CASE k = 0
    BY <1>1, <2>1 DEF SchemaAfter
  <2>2. CASE k = 15
    BY <1>1, <2>2 DEF SchemaAfter, Older
  <2>3. CASE k \notin {0, 15}
    BY <1>1, <1>2, <2>3
  <2> QED BY <2>1, <2>2, <2>3
<1>6. k + 1 >= 3 => "nodes.city" \in t \/ Older(t)
  <2>1. CASE k = 2
    BY <2>1 DEF SchemaAfter
  <2>2. CASE k = 15
    BY <1>1, <1>2, <2>2
  <2>3. CASE k >= 3 /\ k # 15
    BY <1>1, <1>2, <2>3 DEF Older
  <2> QED BY <2>1, <2>2, <2>3
<1>7. k + 1 >= 16 => ~Older(t)
  BY <1>1, <1>2 DEF Older
<1>8. \A v \in {3, 6, 7, 14} : k + 1 < v => AddedColumn[v] \notin t
  BY <1>1, AddedColumns DEF SchemaAfter, Brings
<1> HIDE DEF t
<1> QED BY <1>4, <1>5, <1>6, <1>7, <1>8, AddedColumns DEF Fits, t

\* SQLite does not refuse the migration after the first k.
LEMMA FitsPossible ==
    ASSUME NEW k \in 0..20, NEW d, Fits(k, d.schema)
    PROVE  Possible(k + 1, d)
BY DEF Fits, Possible

\* The recursion that defines LeftBy has a solution: otherwise there is a least
\* length for which it has none.
LEMMA LeftByStep ==
    /\ LeftBy[0] = NoDatabase
    /\ \A k \in 1..21 : LeftBy[k] = Record(k, Apply(k, LeftBy[k - 1]))
<1> DEFINE Chain(f, n) == f = [k \in 0..n |-> IF k = 0 THEN NoDatabase ELSE Record(k, Apply(k, f[k - 1]))]
           Missing == {n \in Nat : \A f : ~Chain(f, n)}
<1>1. Missing = {}
  <2>1. SUFFICES ASSUME NEW n \in Missing, \A m \in Missing : n <= m PROVE FALSE
    BY LeastNumber
  <2>2. CASE n = 0
    <3>1. Chain([k \in 0..0 |-> NoDatabase], 0)
      OBVIOUS
    <3> QED BY <2>1, <2>2, <3>1
  <2>3. CASE n # 0
    <3> HIDE DEF Chain
    <3>1. n - 1 \in Nat /\ n - 1 \notin Missing
      BY <2>1, <2>3
    <3>2. PICK f : Chain(f, n - 1)
      BY <3>1
    <3> USE DEF Chain
    <3> DEFINE g == [k \in 0..n |-> IF k = n THEN Record(n, Apply(n, f[n - 1])) ELSE f[k]]
    <3>3. /\ f[0] = NoDatabase
          /\ \A k \in 1 .. n - 1 : f[k] = Record(k, Apply(k, f[k - 1]))
      BY <3>1, <3>2
    <3>4. \A k \in 0..n : g[k] = IF k = 0 THEN NoDatabase ELSE Record(k, Apply(k, g[k - 1]))
      BY <2>3, <3>1, <3>3
    <3>5. g = [k \in 0..n |-> g[k]]
      OBVIOUS
    <3> HIDE DEF g
    <3>6. Chain(g, n)
      BY <3>4, <3>5
    <3> QED BY <2>1, <3>6
  <2> QED BY <2>2, <2>3
<1> HIDE DEF Chain
<1>2. \E f : Chain(f, 21)
  <2>1. 21 \in Nat /\ 21 \notin Missing
    BY <1>1
  <2> QED BY <2>1
<1> USE DEF Chain
<1>3. Chain(LeftBy, 21)
  BY <1>2, Zenon DEF LeftBy
<1> QED BY <1>3

\* What no query of a release needs.
Unneeded == {"nodes.pop_id", "pops", "users.role"}

\* Nothing else is in a database that a release left.
Within(k, s) ==
    \A c \in s :
        \/ c \in Unneeded
        \/ \E v \in 1..k : c \in Brings(v)
        \/ c = "nodes.type" /\ k >= 1
        \/ c = "nodes.city" /\ k >= 3

\* A migration adds nothing but what it brings.
LEMMA WithinNext ==
    ASSUME NEW k \in 0..20, NEW s, Within(k, s)
    PROVE  Within(k + 1, SchemaAfter(k + 1, s))
<1>1. ~Older(s)
  <2>1. \A v : "nodes.node_type" \notin Brings(v)
    BY DEF Brings
  <2> QED BY <2>1 DEF Older, Within, Unneeded
<1>2. ASSUME NEW c \in SchemaAfter(k + 1, s)
      PROVE  \/ c \in s \/ c \in Unneeded \/ c \in Brings(k + 1)
             \/ k + 1 = 1 /\ c = "nodes.type"
             \/ k + 1 = 3 /\ c = "nodes.city"
  <2>1. CASE k = 0
    BY <1>2, <2>1 DEF SchemaAfter, Brings, Unneeded
  <2>2. CASE k # 0
    BY <1>1, <1>2, <2>2 DEF SchemaAfter
  <2> QED BY <2>1, <2>2
<1>3. ASSUME NEW c \in SchemaAfter(k + 1, s)
      PROVE  \/ c \in Unneeded
             \/ \E v \in 1 .. k + 1 : c \in Brings(v)
             \/ c = "nodes.type" /\ k + 1 >= 1
             \/ c = "nodes.city" /\ k + 1 >= 3
  <2>1. CASE c \in s
    <3>1. (\E v \in 1..k : c \in Brings(v)) => \E v \in 1 .. k + 1 : c \in Brings(v)
      OBVIOUS
    <3> QED BY <2>1, <3>1 DEF Within
  <2>2. k + 1 \in 1 .. k + 1
    OBVIOUS
  <2> QED BY <1>2, <1>3, <2>1, <2>2
<1> QED BY <1>3 DEF Within

\* What a release with the first k migrations left.
LEMMA LeftByFits ==
    \A k \in 0..21 : /\ DOMAIN LeftBy[k] = Parts /\ LeftBy[k].applied = 1..k
                    /\ Fits(k, LeftBy[k].schema) /\ Within(k, LeftBy[k].schema)
<1> DEFINE Left(k) == /\ DOMAIN LeftBy[k] = Parts /\ LeftBy[k].applied = 1..k
                      /\ Fits(k, LeftBy[k].schema) /\ Within(k, LeftBy[k].schema)
           Others == {k \in 0..21 : ~Left(k)}
<1>1. Left(0)
  <2>1. DOMAIN LeftBy[0] = Parts /\ LeftBy[0].applied = {} /\ LeftBy[0].schema = {}
    BY LeftByStep DEF NoDatabase, Parts
  <2>2. \A v \in DOMAIN AddedColumn : AddedColumn[v] \notin {}
    OBVIOUS
  <2> QED BY <2>1, <2>2 DEF Fits, Within, Older
<1>2. ASSUME NEW k \in 0..20, Left(k) PROVE Left(k + 1)
  <2> DEFINE d == LeftBy[k]
             e == Apply(k + 1, d)
  <2>1. LeftBy[k + 1] = Record(k + 1, e)
    <3>1. k + 1 \in 1..21 /\ (k + 1) - 1 = k
      OBVIOUS
    <3> QED BY <3>1, LeftByStep
  <2>2. DOMAIN e = Parts /\ e.applied = 1..k /\ e.schema = SchemaAfter(k + 1, d.schema)
    <3>1. k + 1 \in Versions
      BY DEF Versions
    <3>2. DOMAIN d = Parts /\ d.applied = 1..k
      BY <1>2
    <3> QED BY <3>1, <3>2, MigrationKeeps, SchemaOf
  <2>3. Fits(k + 1, e.schema) /\ Within(k + 1, e.schema)
    BY <1>2, <2>2, FitsNext, WithinNext
  <2> HIDE DEF e
  <2>4. /\ DOMAIN Record(k + 1, e) = Parts /\ Record(k + 1, e).applied = e.applied \cup {k + 1}
        /\ Record(k + 1, e).schema = e.schema
    BY <2>2 DEF Record, Parts
  <2>5. (1..k) \cup {k + 1} = 1 .. k + 1
    OBVIOUS
  <2> QED BY <2>1, <2>2, <2>3, <2>4, <2>5
<1> HIDE DEF Left
<1>3. Others = {}
  <2>1. SUFFICES ASSUME NEW k \in Others, \A l \in Others : k <= l PROVE FALSE
    BY LeastNumber
  <2>2. k # 0 /\ k \in 0..21 /\ ~Left(k)
    BY <1>1
  <2>3. k - 1 \in 0..20 /\ k - 1 \notin Others
    BY <2>1, <2>2
  <2>4. Left(k - 1)
    BY <2>3
  <2> QED BY <1>2, <2>2, <2>3, <2>4
<1> QED BY <1>3 DEF Left

\* The places of a process after its migrations.
Ready == {"password", "ensure", "settings", "bgp", "serving", "done"}

\* What a step that migrates nothing does to one process.
Advances(p) ==
    \/ proc'[p] = proc[p]
    \/ proc'[p].pc \notin Ready \cup {"migrate"}
    \/ proc'[p].pc = "migrate" /\ proc'[p].applied = db.applied
    \/ /\ proc'[p].pc \in Ready /\ proc'[p].release = proc[p].release
       /\ proc[p].pc \in Ready \/ (At(p, "migrate") /\ Pending(p) = {})

\* No migration takes effect.
SameSchema == db'.applied = db.applied /\ db'.schema = db.schema

\* A step of one process moves no other.
LEMMA OneMoves ==
    ASSUME ProcInv, NEW p \in Processes, NEW q, proc' = [proc EXCEPT ![p] = q]
    PROVE  proc'[p] = q /\ \A r \in Processes \ {p} : Advances(r)
<1>1. proc'[p] = q /\ \A r \in Processes \ {p} : proc'[r] = proc[r]
  BY DEF ProcInv
<1> QED BY <1>1 DEF Advances

\* A process that ends is neither migrating nor ready.
LEMMA ExitAdvances ==
    ASSUME ProcInv, NEW p \in Processes, Exit(p)
    PROVE  \A r \in Processes : Advances(r)
<1>1. proc'[p] = Off /\ \A r \in Processes \ {p} : Advances(r)
  BY OneMoves DEF Exit
<1>2. Off.pc = "off"
  BY DEF Off
<1>3. Advances(p)
  BY <1>1, <1>2 DEF Advances, Ready
<1> QED BY <1>1, <1>3

\* A process becomes ready only when none of its migrations is left.
LEMMA ReadyAdvances ==
    ASSUME ProcInv, NEW p \in Processes, NEW pc \in Ready, NEW q, proc' = [proc EXCEPT ![p] = q],
           q.pc = pc, q.release = proc[p].release,
           proc[p].pc \in Ready \/ (At(p, "migrate") /\ Pending(p) = {})
    PROVE  \A r \in Processes : Advances(r)
<1>1. proc'[p] = q /\ \A r \in Processes \ {p} : Advances(r)
  BY OneMoves
<1>2. Advances(p)
  BY <1>1 DEF Advances
<1> QED BY <1>1, <1>2

\* The same of the steps by which a process goes to its next place.
LEMMA GoesAdvances ==
    ASSUME ProcInv, NEW p \in Processes, NEW pc \in Ready,
           ProcessAt(p, pc) \/ proc' = [proc EXCEPT ![p].pc = pc, ![p].env = None],
           proc[p].pc \in Ready \/ (At(p, "migrate") /\ Pending(p) = {})
    PROVE  \A r \in Processes : Advances(r)
<1> DEFINE q == [proc[p] EXCEPT !.pc = pc]
           z == [proc[p] EXCEPT !.pc = pc, !.env = None]
<1>1. DOMAIN proc[p] = {"pc", "release", "generated", "applied", "env"}
  BY DEF ProcInv, Off
<1>2. /\ q.pc = pc /\ q.release = proc[p].release
      /\ z.pc = pc /\ z.release = proc[p].release
  BY <1>1
<1>3. proc' = [proc EXCEPT ![p] = q] \/ proc' = [proc EXCEPT ![p] = z]
  BY <1>1 DEF ProcessAt, ProcInv
<1> HIDE DEF q, z
<1> QED BY <1>2, <1>3, ReadyAdvances

\* Writing accounts leaves schema and list.
LEMMA UsersKeepSchema ==
    ASSUME ProcInv, NEW users, db' = [db EXCEPT !.users = users]
    PROVE  SameSchema
BY DEF SameSchema, ProcInv, Parts

\* The steps of a start, but for the migrations.
LEMMA StartAdvances ==
    ASSUME ProcInv, NEW p \in Processes,
           \/ Start(p) \/ Configure(p) \/ ReadApplied(p) \/ Migrated(p)
           \/ UseGivenPassword(p) \/ EnsureRead(p) \/ EnsureWrite(p) \/ Fail(p)
    PROVE  SameSchema /\ \A r \in Processes : Advances(r)
<1>0. DOMAIN proc[p] = {"pc", "release", "generated", "applied", "env"}
  BY DEF ProcInv, Off
<1>1. CASE Start(p) \/ Configure(p)
  <2>1. PICK q : proc' = [proc EXCEPT ![p] = q] /\ q.pc \in {"config", "open"}
    <3>1. CASE Start(p)
      <4>1. PICK r \in Releases, env \in {None, "given"} :
               proc' = [proc EXCEPT ![p] = [Off EXCEPT !.pc = "config", !.release = r, !.env = env]]
        BY <3>1 DEF Start
      <4>2. [Off EXCEPT !.pc = "config", !.release = r, !.env = env].pc = "config"
        BY DEF Off
      <4> QED BY <4>1, <4>2
    <3>2. CASE Configure(p)
      <4>1. proc' = [proc EXCEPT ![p] = [proc[p] EXCEPT !.pc = "open", !.generated = ~config]]
        BY <1>0, <3>2 DEF Configure, ProcInv
      <4>2. [proc[p] EXCEPT !.pc = "open", !.generated = ~config].pc = "open"
        BY <1>0
      <4> QED BY <4>1, <4>2
    <3> QED BY <1>1, <3>1, <3>2
  <2>2. proc'[p] = q /\ \A r \in Processes \ {p} : Advances(r)
    BY <2>1, OneMoves
  <2>3. Advances(p)
    BY <2>1, <2>2 DEF Advances, Ready
  <2> QED BY <1>1, <2>2, <2>3 DEF Start, Configure, SameSchema
<1>2. CASE ReadApplied(p)
  <2> DEFINE q == [proc[p] EXCEPT !.pc = "migrate", !.applied = db.applied]
  <2>1. proc' = [proc EXCEPT ![p] = q] /\ q.pc = "migrate" /\ q.applied = db.applied
    BY <1>0, <1>2 DEF ReadApplied, ProcInv
  <2> HIDE DEF q
  <2>2. proc'[p] = q /\ \A r \in Processes \ {p} : Advances(r)
    BY <2>1, OneMoves
  <2>3. Advances(p)
    BY <2>1, <2>2 DEF Advances
  <2> QED BY <1>2, <2>2, <2>3 DEF ReadApplied, SameSchema
<1>3. CASE Migrated(p)
  <2>1. ProcessAt(p, "password") /\ At(p, "migrate") /\ Pending(p) = {} /\ "password" \in Ready
    BY <1>3 DEF Migrated, Ready
  <2> QED BY <1>3, <2>1, GoesAdvances DEF Migrated, SameSchema
<1>4. AfterPassword(p) \in Ready /\ "ensure" \in Ready
  BY DEF AfterPassword, Ready
<1>5. CASE EnsureRead(p)
  <2>1. proc[p].pc \in Ready
    BY <1>5 DEF EnsureRead, At, Ready
  <2>2. Exit(p) \/ \E pc \in Ready : ProcessAt(p, pc)
    BY <1>4, <1>5 DEF EnsureRead
  <2> QED BY <1>5, <2>1, <2>2, GoesAdvances, ExitAdvances DEF EnsureRead, SameSchema
<1>6. CASE EnsureWrite(p)
  <2>1. proc[p].pc \in Ready /\ ProcessAt(p, AfterPassword(p))
    BY <1>6 DEF EnsureWrite, At, Ready
  <2>2. SameSchema
    BY <1>6, UsersKeepSchema DEF EnsureWrite, SetHash
  <2> QED BY <1>4, <2>1, <2>2, GoesAdvances
<1>7. CASE UseGivenPassword(p)
  <2>1. proc[p].pc \in Ready
    BY <1>7 DEF UseGivenPassword, At, Ready
  <2>2. Exit(p) \/ proc' = [proc EXCEPT ![p].pc = AfterPassword(p), ![p].env = None]
    BY <1>7 DEF UseGivenPassword
  <2>3. SameSchema
    BY <1>7, UsersKeepSchema DEF UseGivenPassword, SetHash
  <2> QED BY <1>4, <2>1, <2>2, <2>3, GoesAdvances, ExitAdvances
<1>8. CASE Fail(p)
  <2>1. \/ Exit(p)
        \/ At(p, "password") /\ proc' = [proc EXCEPT ![p].pc = "settings", ![p].env = None]
        \/ At(p, "settings") /\ ProcessAt(p, "bgp")
    BY <1>8 DEF Fail
  <2>2. "settings" \in Ready /\ "bgp" \in Ready /\ "password" \in Ready
    BY DEF Ready
  <2> QED BY <1>8, <2>1, <2>2, GoesAdvances, ExitAdvances DEF Fail, At, SameSchema
<1> QED BY <1>1, <1>2, <1>3, <1>5, <1>6, <1>7, <1>8

\* Only migrations change schema and list, one step at a time.
LEMMA StepAdvances ==
    ASSUME ProcInv, [DeployNext]_deployVars
    PROVE  \/ \E p \in Processes : Migrate(p)
           \/ SameSchema /\ \A r \in Processes : Advances(r)
<1> USE DEF disk, histories, bounds
<1>1. /\ "server" \in Processes /\ "bootstrap" \in Processes
      /\ {"bgp", "serving", "settings"} \subseteq Ready
  BY DEF Processes, Ready
<1>2. ASSUME UNCHANGED <<db, proc>> PROVE SameSchema /\ \A r \in Processes : Advances(r)
  BY <1>2 DEF SameSchema, Advances
<1>3. ASSUME NEW p \in Processes, Start(p) \/ Starting(p) \/ Fail(p)
      PROVE  Migrate(p) \/ (SameSchema /\ \A r \in Processes : Advances(r))
  BY <1>3, StartAdvances DEF Starting
<1>4. ASSUME NEW new, db' = [db EXCEPT !.settings = new] PROVE SameSchema
  BY <1>4 DEF SameSchema, ProcInv, Parts
<1>5. CASE SeedSettings
  <2>1. SameSchema
    BY <1>4, <1>5 DEF SeedSettings
  <2>2. At("server", "settings") /\ ProcessAt("server", "bgp")
    BY <1>5 DEF SeedSettings
  <2> QED BY <1>1, <2>1, <2>2, GoesAdvances DEF At
<1>6. CASE StartServing
  <2>1. SameSchema /\ At("server", "bgp") /\ ProcessAt("server", "serving")
    BY <1>6 DEF StartServing, SameSchema
  <2> QED BY <1>1, <2>1, GoesAdvances DEF At
<1>7. CASE BootstrapDone \/ Crash
  <2>1. SameSchema /\ (Exit("bootstrap") \/ Exit("server"))
    BY <1>7 DEF BootstrapDone, Crash, SameSchema
  <2> QED BY <1>1, <2>1, ExitAdvances
<1>8. CASE SwitchSelfUpdate
  <2>1. SameSchema /\ UNCHANGED proc
    BY <1>4, <1>8 DEF SwitchSelfUpdate
  <2> QED BY <2>1 DEF Advances
<1>9. CASE WriteAccount
  <2>1. UNCHANGED proc /\ \E users : db' = [db EXCEPT !.users = users]
    BY <1>9 DEF WriteAccount
  <2> QED BY <2>1, UsersKeepSchema DEF Advances
<1>10. ASSUME NEW a \in Updates, Exec(a) PROVE SameSchema /\ \A r \in Processes : Advances(r)
  <2>1. SameSchema
    BY <1>10 DEF Exec, SameSchema
  <2>2. \/ \E r \in Releases : proc' = [proc EXCEPT !["server"] = [Off EXCEPT !.pc = "config", !.release = r]]
        \/ UNCHANGED <<db, proc>>
        \/ Exit("server")
    BY <1>10 DEF Exec
  <2>3. ASSUME NEW r \in Releases, proc' = [proc EXCEPT !["server"] = [Off EXCEPT !.pc = "config", !.release = r]]
        PROVE  \A p \in Processes : Advances(p)
    <3> DEFINE q == [Off EXCEPT !.pc = "config", !.release = r]
    <3>1. q.pc = "config"
      BY DEF Off
    <3> HIDE DEF q
    <3>2. proc'["server"] = q /\ \A p \in Processes \ {"server"} : Advances(p)
      BY <1>1, <2>3, OneMoves DEF q
    <3>3. Advances("server")
      BY <3>1, <3>2 DEF Advances, Ready
    <3> QED BY <3>2, <3>3
  <2> QED BY <1>1, <1>2, <2>1, <2>2, <2>3, ExitAdvances
<1>11. ASSUME NEW a \in Updates, RequestUpdate(a) \/ Updating(a) \/ AbortUpdate(a) \/ RefuseUpdate(a)
       PROVE  SameSchema /\ \A r \in Processes : Advances(r)
  BY <1>2, <1>10, <1>11 DEF RequestUpdate, Updating, AbortUpdate, RefuseUpdate, BeginUpdate, OpenDownload,
       Copy, VerifyDownload, InstallDownload, StopBgp
<1>12. CASE \/ LoseConfig \/ ReadAccount \/ Publish \/ ExpireStatus \/ CheckStatus \/ UNCHANGED deployVars
  BY <1>2, <1>12 DEF LoseConfig, ReadAccount, Publish, ExpireStatus, CheckStatus, deployVars
<1> QED BY <1>3, <1>5, <1>6, <1>7, <1>8, <1>9, <1>11, <1>12 DEF DeployNext

\* The database has the first of the migrations, and what they bring; a process
\* has seen no other as applied, and is ready when none of its own is left.
SchemaInv ==
    /\ ProcInv
    /\ \E k \in 0..21 : db.applied = 1..k /\ Fits(k, db.schema)
    /\ Older(db.schema) => \A r \in Releases : MigrationsOf[r] >= 16
    /\ \A p \in Processes :
          /\ At(p, "migrate") => proc[p].applied \subseteq db.applied
          /\ proc[p].pc \in Ready => 1..MigrationsOf[proc[p].release] \subseteq db.applied

\* A database that a release left fits, and so does one with the older nodes table.
LEMMA InitSchemaInv == DeployInit => SchemaInv
<1> SUFFICES ASSUME DeployInit PROVE SchemaInv
  OBVIOUS
<1>1. PICK k \in 0..21 : /\ db.applied = 1..k
                         /\ \/ db.schema = LeftBy[k].schema
                            \/ /\ k \in 1..15 /\ db.schema = LegacySchema(k)
                               /\ \A r \in Releases : MigrationsOf[r] >= 16
  BY DatabasesAssumption DEF DeployInit
<1> DEFINE s == LeftBy[k].schema
<1>2. Fits(k, s) /\ Within(k, s)
  BY LeftByFits
<1>3. "nodes.node_type" \notin s
  <2>1. \A v : "nodes.node_type" \notin Brings(v)
    BY DEF Brings
  <2> QED BY <1>2, <2>1 DEF Within, Unneeded
<1> HIDE DEF s
<1>4. db.schema = s => Fits(k, db.schema)
  BY <1>2
<1>5. ASSUME k \in 1..15, db.schema = LegacySchema(k) PROVE Fits(k, db.schema)
  <2>1. db.schema = (s \ {"nodes.type", "nodes.city"}) \cup {"nodes.node_type"}
    BY <1>5 DEF LegacySchema, s
  <2>2. Older(db.schema)
    BY <2>1 DEF Older
  <2>3. \A v : Brings(v) \subseteq s => Brings(v) \subseteq db.schema
    BY <2>1 DEF Brings
  <2>4. \A v \in DOMAIN AddedColumn : k < v => AddedColumn[v] \notin db.schema
    BY <1>2, <2>1, AddedColumns DEF Fits
  <2>5. Fits(k, db.schema)
    BY <1>2, <1>5, <2>2, <2>3, <2>4 DEF Fits, Older
  <2> QED BY <2>5
<1>6. Fits(k, db.schema)
  BY <1>1, <1>2, <1>4, <1>5 DEF s
<1>7. \A p \in Processes : proc[p].pc = "off"
  BY DEF DeployInit, Off
<1>8. Older(db.schema) => \A r \in Releases : MigrationsOf[r] >= 16
  BY <1>1, <1>3 DEF Older, s
<1> QED BY <1>1, <1>6, <1>7, <1>8, InitProcInv DEF SchemaInv, At, Ready

\* No migration brings the older nodes table.
LEMMA OlderBefore ==
    ASSUME NEW v, NEW s, Older(SchemaAfter(v, s))
    PROVE  Older(s)
BY DEF Older, SchemaAfter, Brings

\* A migration is the one after those that are applied, whoever runs it.
LEMMA MigrateSchema ==
    ASSUME SchemaInv, NEW p \in Processes, Migrate(p), ProcInv'
    PROVE  SchemaInv'
<1> DEFINE v == NextVersion(p)
           K == MigrationsOf[proc[p].release]
           q == [proc[p] EXCEPT !.applied = proc[p].applied \cup {v}]
<1>1. PICK k \in 0..21 : db.applied = 1..k /\ Fits(k, db.schema)
  BY DEF SchemaInv
<1>2. ProcInv /\ At(p, "migrate") /\ Pending(p) # {} /\ proc[p].applied \subseteq db.applied /\ K \in 0..21
  BY MigrationsAssumption DEF SchemaInv, Migrate, ProcInv, At
<1>3. v \in Pending(p) /\ \A w \in Pending(p) : v <= w
  <2>1. Pending(p) \subseteq Nat
    BY <1>2 DEF Pending
  <2> QED BY <1>2, <2>1, LeastNumber DEF NextVersion
<1>4. CASE Exit(p) /\ UNCHANGED db
  <2>1. \A r \in Processes : proc'[r] = proc[r] \/ proc'[r].pc = "off"
    BY <1>2, <1>4 DEF ProcInv, Exit, Off
  <2>2. "off" \notin Ready
    BY DEF Ready
  <2> QED BY <1>4, <2>1, <2>2 DEF SchemaInv, At
<1>5. CASE v \notin db.applied /\ db' = Record(v, Apply(v, db)) /\ proc' = [proc EXCEPT ![p] = q]
  <2>1. v = k + 1 /\ k \in 0..20
    <3>1. v \in 1..K /\ v \notin 1..k /\ v >= k + 1
      BY <1>1, <1>2, <1>3, <1>5 DEF Pending
    <3>2. ~(k + 1 < v)
      <4>1. SUFFICES ASSUME k + 1 < v PROVE FALSE
        OBVIOUS
      <4>2. k + 1 \in 1..K /\ k + 1 \notin Pending(p)
        BY <1>2, <1>3, <3>1, <4>1
      <4>3. k + 1 \in 1..k
        BY <1>1, <1>2, <4>2 DEF Pending
      <4> QED BY <4>3
    <3> QED BY <1>2, <3>1, <3>2
  <2>2. v \in Versions /\ DOMAIN db = Parts
    BY <1>2, <2>1 DEF Versions, ProcInv
  <2>3. /\ DOMAIN Apply(v, db) = Parts /\ Apply(v, db).applied = db.applied
        /\ Apply(v, db).schema = SchemaAfter(v, db.schema)
    BY <2>2, MigrationKeeps, SchemaOf
  <2>4. db'.applied = db.applied \cup {v} /\ db'.schema = SchemaAfter(v, db.schema)
    BY <1>5, <2>3 DEF Record, Parts
  <2>5. db'.applied = 1 .. k + 1 /\ k + 1 \in 0..21
    <3>1. db'.applied = (1..k) \cup {k + 1}
      BY <1>1, <2>1, <2>4
    <3>2. (1..k) \cup {k + 1} = 1 .. k + 1 /\ k + 1 \in 0..21
      BY <2>1
    <3> QED BY <3>1, <3>2
  <2>6. Fits(k + 1, db'.schema)
    BY <1>1, <2>1, <2>4, FitsNext
  <2>7. Older(db'.schema) => \A r \in Releases : MigrationsOf[r] >= 16
    BY <2>4, OlderBefore DEF SchemaInv
  <2>8. q.pc = "migrate" /\ q.applied = proc[p].applied \cup {v}
    BY <1>2 DEF ProcInv, Off, At
  <2>9. proc'[p] = q /\ \A r \in Processes \ {p} : proc'[r] = proc[r]
    BY <1>2, <1>5 DEF ProcInv
  <2> HIDE DEF q, v, K
  <2>10. ASSUME NEW r \in Processes
         PROVE  /\ proc'[r].pc = "migrate" => proc'[r].applied \subseteq db'.applied
                /\ proc'[r].pc \in Ready => 1..MigrationsOf[proc'[r].release] \subseteq db'.applied
    <3>1. CASE r = p
      BY <1>2, <2>4, <2>8, <2>9, <3>1 DEF Ready
    <3>2. CASE r # p
      BY <2>4, <2>9, <3>2 DEF SchemaInv, At
    <3> QED BY <3>1, <3>2
  <2> QED BY <2>5, <2>6, <2>7, <2>10 DEF SchemaInv, At
<1> QED BY <1>4, <1>5 DEF Migrate

\* A step migrates, or keeps schema and list and advances processes.
LEMMA StepSchemaInv == SchemaInv /\ [DeployNext]_deployVars => SchemaInv'
<1> SUFFICES ASSUME SchemaInv, [DeployNext]_deployVars PROVE SchemaInv'
  OBVIOUS
<1>1. ProcInv /\ ProcInv'
  BY StepProcInv DEF SchemaInv
<1>2. ASSUME NEW p \in Processes, Migrate(p) PROVE SchemaInv'
  BY <1>1, <1>2, MigrateSchema
<1>3. ASSUME SameSchema, \A r \in Processes : Advances(r) PROVE SchemaInv'
  <2>1. PICK k \in 0..21 : db.applied = 1..k /\ Fits(k, db.schema)
    BY DEF SchemaInv
  <2>2. /\ \E l \in 0..21 : db'.applied = 1..l /\ Fits(l, db'.schema)
        /\ Older(db'.schema) => \A r \in Releases : MigrationsOf[r] >= 16
    BY <1>3, <2>1 DEF SchemaInv, SameSchema
  <2>3. ASSUME NEW p \in Processes
        PROVE  /\ proc'[p].pc = "migrate" => proc'[p].applied \subseteq db'.applied
               /\ proc'[p].pc \in Ready => 1..MigrationsOf[proc'[p].release] \subseteq db'.applied
    <3>1. db'.applied = db.applied /\ Advances(p) /\ "migrate" \notin Ready
      BY <1>3 DEF SameSchema, Ready
    <3>2. /\ proc[p].pc = "migrate" => proc[p].applied \subseteq db.applied
          /\ proc[p].pc \in Ready => 1..MigrationsOf[proc[p].release] \subseteq db.applied
      BY DEF SchemaInv, At
    <3>3. At(p, "migrate") /\ Pending(p) = {} => 1..MigrationsOf[proc[p].release] \subseteq db.applied
      BY <3>2 DEF Pending, At
    <3> QED BY <3>1, <3>2, <3>3 DEF Advances
  <2> QED BY <1>1, <2>2, <2>3 DEF SchemaInv, At
<1> QED BY <1>2, <1>3, StepAdvances DEF SchemaInv

\* Wherever starts are cut off and however processes overlap, a database has the
\* first k migrations with what they bring, and a process that goes on past its
\* migrations left none of its release out (Migrate, store.Open).
THEOREM SchemaInvariance == DeploySpec => []SchemaInv
BY InitSchemaInv, StepSchemaInv, PTL DEF DeploySpec

\* A release that serves finds every table and column its queries need.
THEOREM SchemaIsServed == DeploySpec => []ServesItsSchema
<1>1. ASSUME SchemaInv PROVE ServesItsSchema
  <2> DEFINE K == MigrationsOf[proc["server"].release]
  <2> SUFFICES ASSUME Serving PROVE Needed(K) \subseteq db.schema
    BY DEF ServesItsSchema
  <2>1. PICK k \in 0..21 : db.applied = 1..k /\ Fits(k, db.schema)
    BY <1>1 DEF SchemaInv
  <2>2. proc["server"].pc = "serving" /\ "server" \in Processes /\ "serving" \in Ready
    BY DEF Serving, At, Processes, Ready
  <2>3. K \in 0..21 /\ 1..K \subseteq 1..k /\ (Older(db.schema) => K >= 16)
    BY <1>1, <2>1, <2>2, MigrationsAssumption DEF SchemaInv, ProcInv, At
  <2> HIDE DEF K
  <2>4. K <= k
    <3>1. K \in 1..K \/ K = 0
      BY <2>3
    <3> QED BY <2>1, <2>3, <3>1
  <2>5. ~Older(db.schema)
    BY <2>1, <2>3, <2>4 DEF Fits
  <2>6. ASSUME NEW c \in Needed(K) PROVE c \in db.schema
    <3>1. c \in LeftBy[K].schema /\ c \notin Unneeded
      BY <2>6 DEF Needed, Unneeded
    <3>2. Within(K, LeftBy[K].schema)
      BY <2>3, LeftByFits
    <3>3. \/ \E v \in 1..K : c \in Brings(v)
          \/ c = "nodes.type" /\ K >= 1
          \/ c = "nodes.city" /\ K >= 3
      BY <3>1, <3>2 DEF Within
    <3>4. CASE \E v \in 1..K : c \in Brings(v)
      BY <2>1, <2>3, <3>4 DEF Fits
    <3>5. CASE (c = "nodes.type" /\ K >= 1) \/ (c = "nodes.city" /\ K >= 3)
      BY <2>1, <2>3, <2>4, <2>5, <3>5 DEF Fits, Older
    <3> QED BY <3>3, <3>4, <3>5
  <2> QED BY <2>6
<1> QED BY <1>1, SchemaInvariance, PTL

\* The migrations of a start, run one after another on the database d.
RunOf(f, d, left, n) ==
    f = [v \in 0..n |-> IF v = 0 THEN d ELSE IF v \in left THEN Apply(v, f[v - 1]) ELSE f[v - 1]]

\* The recursion that RestartCompletes defines has a solution.
LEMMA RunExists ==
    ASSUME NEW d, NEW left, NEW n \in Nat
    PROVE  \E f : RunOf(f, d, left, n)
<1> DEFINE Missing == {m \in Nat : \A f : ~RunOf(f, d, left, m)}
<1>1. SUFFICES ASSUME NEW m \in Missing, \A l \in Missing : m <= l PROVE FALSE
  <2>1. Missing = {} => \E f : RunOf(f, d, left, n)
    OBVIOUS
  <2> QED BY <2>1, LeastNumber
<1>2. CASE m = 0
  <2>1. RunOf([v \in 0..0 |-> d], d, left, 0)
    BY DEF RunOf
  <2> QED BY <1>1, <1>2, <2>1
<1>3. CASE m # 0
  <2>1. m - 1 \in Nat /\ m - 1 \notin Missing
    BY <1>1, <1>3
  <2>2. PICK f : RunOf(f, d, left, m - 1)
    BY <2>1
  <2> DEFINE last == IF m \in left THEN Apply(m, f[m - 1]) ELSE f[m - 1]
             g == [v \in 0..m |-> IF v = m THEN last ELSE f[v]]
  <2>3. /\ f[0] = d
        /\ \A v \in 1 .. m - 1 : f[v] = IF v \in left THEN Apply(v, f[v - 1]) ELSE f[v - 1]
    BY <2>1, <2>2 DEF RunOf
  <2>4. \A v \in 0..m : g[v] = IF v = 0 THEN d ELSE IF v \in left THEN Apply(v, g[v - 1]) ELSE g[v - 1]
    BY <1>3, <2>1, <2>3
  <2>5. g = [v \in 0..m |-> g[v]]
    OBVIOUS
  <2> HIDE DEF g
  <2>6. RunOf(g, d, left, m)
    BY <2>4, <2>5 DEF RunOf
  <2> QED BY <1>1, <2>6
<1> QED BY <1>2, <1>3

\* A run of the migrations that a release with K of them has left, on a database
\* with the first k.
RunFrom(d, k, f, K) ==
    /\ k \in 0..21 /\ K \in 0..21 /\ DOMAIN d = Parts /\ Fits(k, d.schema)
    /\ RunOf(f, d, k + 1 .. K, K)

\* Each of the migrations that are left finds a schema that the others left.
LEMMA RunFits ==
    ASSUME NEW d, NEW k, NEW f, NEW K, RunFrom(d, k, f, K)
    PROVE  \A v \in 0..K : DOMAIN f[v] = Parts /\ (k <= v => Fits(v, f[v].schema)) /\ (v <= k => f[v] = d)
<1> DEFINE Runs(v) == DOMAIN f[v] = Parts /\ (k <= v => Fits(v, f[v].schema)) /\ (v <= k => f[v] = d)
           Others == {v \in 0..K : ~Runs(v)}
<1>0. k \in 0..21 /\ K \in 0..21 /\ DOMAIN d = Parts /\ Fits(k, d.schema)
  BY DEF RunFrom
<1>1. /\ f[0] = d
      /\ \A v \in 1..K : f[v] = IF v \in k + 1 .. K THEN Apply(v, f[v - 1]) ELSE f[v - 1]
  BY <1>0 DEF RunFrom, RunOf
<1>2. Runs(0)
  BY <1>0, <1>1
<1>3. ASSUME NEW v \in 1..K, Runs(v - 1) PROVE Runs(v)
  <2>1. CASE v <= k
    <3>1. f[v] = f[v - 1] /\ f[v - 1] = d
      BY <1>0, <1>1, <1>3, <2>1
    <3>2. k <= v => v = k
      BY <1>0, <2>1
    <3> QED BY <1>0, <3>1, <3>2
  <2>2. CASE k < v
    <3>1. v \in Versions /\ v \in k + 1 .. K /\ v - 1 \in 0..20 /\ k <= v - 1 /\ (v - 1) + 1 = v
      BY <1>0, <2>2 DEF Versions
    <3>2. DOMAIN f[v - 1] = Parts /\ Fits(v - 1, f[v - 1].schema)
      BY <1>3, <3>1
    <3>3. f[v] = Apply(v, f[v - 1])
      BY <1>1, <3>1
    <3>4. DOMAIN f[v] = Parts /\ f[v].schema = SchemaAfter(v, f[v - 1].schema)
      BY <3>1, <3>2, <3>3, MigrationKeeps, SchemaOf
    <3>5. Fits((v - 1) + 1, SchemaAfter((v - 1) + 1, f[v - 1].schema))
      BY <3>1, <3>2, FitsNext
    <3>6. Fits(v, f[v].schema)
      BY <3>1, <3>4, <3>5
    <3> QED BY <1>0, <2>2, <3>4, <3>6
  <2> QED BY <1>0, <2>1, <2>2
<1> HIDE DEF Runs
<1>4. Others = {}
  <2> SUFFICES ASSUME Others # {} PROVE FALSE
    OBVIOUS
  <2> DEFINE O == Others
  <2>0. O \subseteq Nat /\ O # {}
    BY <1>0
  <2> HIDE DEF O
  <2>1. PICK v \in O : \A w \in O : v <= w
    BY <2>0, LeastNumber
  <2>2. v \in 1..K /\ ~Runs(v)
    BY <1>0, <1>2 DEF O
  <2>3. v - 1 \in 0..K /\ v - 1 \notin O /\ Runs(v - 1)
    BY <1>0, <2>1, <2>2 DEF O
  <2> QED BY <1>3, <2>2, <2>3
<1> QED BY <1>4 DEF Runs

\* However a start was cut off, the executable's next start alone runs every
\* migration that is left, and SQLite refuses none (Migrate, store.Open).
THEOREM RestartIsComplete == DeploySpec => []RestartCompletes
<1>1. ASSUME SchemaInv PROVE RestartCompletes
  <2> SUFFICES ASSUME NEW r \in Releases
      PROVE  LET left == {v \in 1..MigrationsOf[r] : v \notin db.applied}
                 After[v \in 0..MigrationsOf[r]] ==
                    IF v = 0 THEN db ELSE IF v \in left THEN Apply(v, After[v - 1]) ELSE After[v - 1]
             IN \A v \in left : Possible(v, After[v - 1])
    BY DEF RestartCompletes
  <2> DEFINE K == MigrationsOf[r]
             left == {v \in 1..K : v \notin db.applied}
             After[v \in 0..K] == IF v = 0 THEN db ELSE IF v \in left THEN Apply(v, After[v - 1]) ELSE After[v - 1]
  <2>1. PICK k \in 0..21 : db.applied = 1..k /\ Fits(k, db.schema)
    BY <1>1 DEF SchemaInv
  <2>2. K \in 0..21 /\ K \in Nat /\ DOMAIN db = Parts
    BY <1>1, MigrationsAssumption DEF SchemaInv, ProcInv
  <2>3. RunOf(After, db, left, K)
    BY <2>2, RunExists DEF RunOf
  <2>4. left = k + 1 .. K
    BY <2>1, <2>2
  <2> HIDE DEF left, After, K
  <2>5. RunFrom(db, k, After, K)
    BY <2>1, <2>2, <2>3, <2>4 DEF RunFrom
  <2>6. \A v \in 0..K : DOMAIN After[v] = Parts /\ (k <= v => Fits(v, After[v].schema))
    BY <2>5, RunFits
  <2>7. ASSUME NEW v \in left PROVE Possible(v, After[v - 1])
    <3>1. v - 1 \in 0..20 /\ v - 1 \in 0..K /\ k <= v - 1 /\ (v - 1) + 1 = v
      BY <2>2, <2>4
    <3>2. Fits(v - 1, After[v - 1].schema)
      BY <2>6, <3>1
    <3> QED BY <3>1, <3>2, FitsPossible
  <2> QED BY <2>7 DEF left, After, K
<1> QED BY <1>1, SchemaInvariance, PTL
=============================================================================
