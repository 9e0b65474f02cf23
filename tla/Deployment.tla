----------------------------- MODULE Deployment -----------------------------
(***************************************************************************)
(* One installation: the binary on disk, the configuration, the database,  *)
(* the server that systemd starts from them, `hopstat -bootstrap` beside   *)
(* it, and the self-update that replaces the binary under a running        *)
(* server. A release is a number; MigrationsOf says how many migrations    *)
(* its binary brings.                                                      *)
(***************************************************************************)
EXTENDS Migrations, Sequences

CONSTANTS
    Releases,        \* published over time, in ascending order
    MigrationsOf,    \* [Releases -> 0..21]
    Updates,         \* accepted self-update requests
    Chunks,          \* a download is written in as many parts
    InitialDatabases,
    ForceEnv,        \* LG_FORCE_ADMIN_PASSWORD
    MaxStarts, MaxDeployFaults, MaxChanges   \* bounds on starts, failures, account changes

ASSUME MigrationsAssumption == MigrationsOf \in [Releases -> 0..21]

\* A database is what a release left, with any rows. It has the older nodes table
\* only where every release that is run brings the migration that replaces it.
ASSUME DatabasesAssumption ==
    \A d \in InitialDatabases :
        /\ DOMAIN d = DOMAIN NoDatabase
        /\ \E k \in 0..21 :
              /\ d.applied = 1..k
              /\ \/ d.schema = LeftBy[k].schema
                 \/ /\ k \in 1..15 /\ d.schema = LegacySchema(k)
                    /\ \A r \in Releases : MigrationsOf[r] >= 16

ASSUME UpdatesAssumption == IsFiniteSet(Updates) /\ None \notin Nat

Processes == {"server", "bootstrap"}
Files     == 0..Cardinality(Updates)     \* inodes: the executable and the downloads

VARIABLES
    db,          \* see Migrations
    config,      \* whether config.yaml exists
    proc,        \* [Processes -> where a process is in main or runBootstrap]
    exe, tmp,    \* the inode at the executable's path, and at the same with ".new"
    file,        \* [Files -> what each of its chunks holds]
    update,      \* [Updates -> where Apply is]
    latest,      \* GitHub's latest release
    status,      \* the updater's cached Status
    bgp,         \* whether the server's BGP manager runs
    account,     \* UpdateAccount between its read and its write
    starts, deployFaults, changes,
    setPasswords, printed, forced, updatesOverlapped     \* histories, see the properties

disk == <<exe, tmp, file>>
histories == <<setPasswords, printed, forced, updatesOverlapped>>
bounds == <<starts, deployFaults, changes>>
deployVars == <<db, config, proc, disk, update, latest, status, bgp, account, bounds, histories>>

Off    == [pc |-> "off", release |-> 0, generated |-> FALSE, applied |-> {}, env |-> None]
NoUpdate == [pc |-> "idle", release |-> 0, pos |-> 0, file |-> 0]

\* A release's binary, and the file of an interrupted or torn download.
WholeOf(content, r) == content = [c \in Chunks |-> r]
Whole(content) == \E r \in Releases : WholeOf(content, r)
Blank == [c \in Chunks |-> 0]
Damaged == -1

DeployInit ==
    /\ db \in InitialDatabases
    /\ config \in BOOLEAN
    /\ proc = [p \in Processes |-> Off]
    /\ exe = 0 /\ tmp = None
    /\ latest \in Releases /\ status = None
    /\ file = [f \in Files |-> IF f = 0 THEN [c \in Chunks |-> latest] ELSE Blank]
    /\ update = [a \in Updates |-> NoUpdate]
    /\ bgp = FALSE /\ account = None
    /\ starts = 0 /\ deployFaults = 0 /\ changes = 0
    /\ setPasswords = {} /\ printed = {} /\ forced = None /\ updatesOverlapped = FALSE

At(p, pc) == proc[p].pc = pc
ProcessAt(p, pc) == proc' = [proc EXCEPT ![p].pc = pc]
Exit(p) == proc' = [proc EXCEPT ![p] = Off]
Serving == At("server", "serving")

\* A process that ends takes its goroutines, their open files and its caches.
ServerGone ==
    /\ update' = [a \in Updates |-> NoUpdate]
    /\ status' = None /\ bgp' = FALSE /\ account' = None

-----------------------------------------------------------------------------
(* main and runBootstrap, up to the point where the server listens. *)

\* systemd starts the server and starts it again when it exits with an error;
\* an operator runs -bootstrap. LG_ADMIN_PASSWORD may be in the environment.
Start(p) ==
    /\ At(p, "off") /\ starts < MaxStarts
    /\ \E r \in Releases, env \in {None, "given"} :
         /\ WholeOf(file[exe], r)
         /\ proc' = [proc EXCEPT ![p] = [Off EXCEPT !.pc = "config", !.release = r, !.env = env]]
    /\ starts' = starts + 1
    /\ UNCHANGED <<db, config, disk, update, latest, status, bgp, account, deployFaults, changes, histories>>

\* A missing configuration is generated with new secrets.
Configure(p) ==
    /\ At(p, "config")
    /\ config' = TRUE
    /\ proc' = [proc EXCEPT ![p].pc = "open", ![p].generated = ~config]
    /\ UNCHANGED <<db, disk, update, latest, status, bgp, account, bounds, histories>>

\* store.Open, and Migrate reads which versions are recorded.
ReadApplied(p) ==
    /\ At(p, "open")
    /\ proc' = [proc EXCEPT ![p].pc = "migrate", ![p].applied = db.applied]
    /\ UNCHANGED <<db, config, disk, update, latest, status, bgp, account, bounds, histories>>

Pending(p) == {v \in 1..MigrationsOf[proc[p].release] : v \notin proc[p].applied}
NextVersion(p) == CHOOSE v \in Pending(p) : \A w \in Pending(p) : v <= w

\* Mutant: the version is recorded whoever has recorded it before.
Migrate_Upserts(p) ==
    /\ At(p, "migrate") /\ Pending(p) # {}
    /\ LET v == NextVersion(p)
       IN IF Possible(v, db)
          THEN /\ db' = Record(v, Apply(v, db))
               /\ proc' = [proc EXCEPT ![p].applied = @ \cup {v}]
          ELSE Exit(p) /\ UNCHANGED db
    /\ UNCHANGED <<config, disk, update, latest, status, bgp, account, bounds, histories>>

\* One transaction: the statements, and the version's row with its primary key.
\* What another process has recorded since makes it fail and roll back.
Migrate(p) ==
    /\ At(p, "migrate") /\ Pending(p) # {}
    /\ LET v == NextVersion(p)
       IN IF v \notin db.applied /\ Possible(v, db)
          THEN /\ db' = Record(v, Apply(v, db))
               /\ proc' = [proc EXCEPT ![p].applied = @ \cup {v}]
          ELSE Exit(p) /\ UNCHANGED db
    /\ UNCHANGED <<config, disk, update, latest, status, bgp, account, bounds, histories>>

Migrated(p) ==
    /\ At(p, "migrate") /\ Pending(p) = {}
    /\ ProcessAt(p, "password")
    /\ UNCHANGED <<db, config, disk, update, latest, status, bgp, account, bounds, histories>>

AfterPassword(p) == IF p = "server" THEN "settings" ELSE "done"

\* A statement or a file fails. main goes on without a given password and
\* without the settings of the configuration; everything else ends the process,
\* and an open transaction is rolled back.
Fail(p) ==
    /\ deployFaults < MaxDeployFaults /\ deployFaults' = deployFaults + 1
    /\ \/ /\ proc[p].pc \in {"config", "open", "migrate", "ensure", "password"}
          /\ At(p, "password") => proc[p].env = None \/ p = "bootstrap"
          /\ Exit(p)
       \/ /\ p = "server" /\ At(p, "password") /\ proc[p].env # None
          /\ proc' = [proc EXCEPT ![p].pc = "settings", ![p].env = None]
       \/ /\ p = "server" /\ At(p, "settings")
          /\ ProcessAt(p, "bgp")
    /\ UNCHANGED <<db, config, disk, update, latest, status, bgp, account, starts, changes, histories>>

SetHash(users, pw) ==
    db' = [db EXCEPT !.users = [u \in DOMAIN @ |-> IF u \in users THEN [@[u] EXCEPT !.hash = pw] ELSE @[u]]]

Unset == {u \in DOMAIN db.users : db.users[u].hash = Disabled}
DefaultAdmins == {u \in DOMAIN db.users : db.users[u].email = "default"}

\* ApplyAdminPassword: forced, it sets the account of the default address
\* whatever its password is; else only one that was never set. main reads the
\* variable once and removes it from its environment.
UseGivenPassword(p) ==
    /\ At(p, "password") /\ proc[p].env # None
    /\ LET pw     == proc[p].env
           force  == proc[p].generated \/ ForceEnv
           users  == IF force THEN DefaultAdmins ELSE Unset
           failed == force /\ users = {}
       IN /\ SetHash(users, pw)
          /\ setPasswords' = IF users # {} THEN setPasswords \cup {pw} ELSE setPasswords
          /\ printed' = IF users # {} THEN printed \cup {pw} ELSE printed
          /\ forced'  = IF p = "server" /\ force THEN pw ELSE forced
          /\ IF failed /\ p = "bootstrap" THEN Exit(p)
             ELSE proc' = [proc EXCEPT ![p].pc = AfterPassword(p), ![p].env = None]
    /\ UNCHANGED <<config, disk, update, latest, status, bgp, account, bounds, updatesOverlapped>>

\* EnsureFirstAdmin reads the first account; only a hash never set goes on.
EnsureRead(p) ==
    /\ At(p, "password") /\ proc[p].env = None
    /\ LET users == db.users
       IN IF users = NoRows /\ p = "bootstrap" THEN Exit(p)
          ELSE ProcessAt(p, IF users # NoRows /\ users[FirstOf(users)].hash = Disabled
                       THEN "ensure" ELSE AfterPassword(p))
    /\ UNCHANGED <<db, config, disk, update, latest, status, bgp, account, bounds, histories>>

\* Mutant: the generated password is printed without looking at the row count.
EnsureWrite_Unchecked(p) ==
    /\ At(p, "ensure")
    /\ SetHash(Unset, p)
    /\ setPasswords' = IF Unset # {} THEN setPasswords \cup {p} ELSE setPasswords
    /\ printed' = printed \cup {p}
    /\ ProcessAt(p, AfterPassword(p))
    /\ UNCHANGED <<config, disk, update, latest, status, bgp, account, bounds, forced, updatesOverlapped>>

\* The conditional UPDATE with a password of its own, printed when it was used.
EnsureWrite(p) ==
    /\ At(p, "ensure")
    /\ SetHash(Unset, p)
    /\ setPasswords' = IF Unset # {} THEN setPasswords \cup {p} ELSE setPasswords
    /\ printed' = IF Unset # {} THEN printed \cup {p} ELSE printed
    /\ ProcessAt(p, AfterPassword(p))
    /\ UNCHANGED <<config, disk, update, latest, status, bgp, account, bounds, forced, updatesOverlapped>>

FromConfig == [query_timeout_sec |-> "30", self_update_enabled |-> "true"]

\* SeedSettingsFromConfig: a stored value that is not empty always wins.
SeedSettings ==
    /\ At("server", "settings")
    /\ LET stored == db.settings
       IN db' = [db EXCEPT !.settings =
                   [k \in DOMAIN stored \cup DOMAIN FromConfig |->
                      IF k \in DOMAIN FromConfig /\ (k \in DOMAIN stored => stored[k] = "")
                      THEN FromConfig[k] ELSE stored[k]]]
    /\ ProcessAt("server", "bgp")
    /\ UNCHANGED <<config, disk, update, latest, status, bgp, account, bounds, histories>>

\* The BGP manager may be unable to start; the server runs without it.
StartServing ==
    /\ At("server", "bgp")
    /\ bgp' \in BOOLEAN
    /\ ProcessAt("server", "serving")
    /\ UNCHANGED <<db, config, disk, update, latest, status, account, bounds, histories>>

BootstrapDone ==
    /\ At("bootstrap", "done")
    /\ Exit("bootstrap")
    /\ UNCHANGED <<db, config, disk, update, latest, status, bgp, account, bounds, histories>>

\* A crash of the host, a signal, an operator's restart.
Crash ==
    /\ ~At("server", "off") /\ deployFaults < MaxDeployFaults
    /\ Exit("server") /\ ServerGone
    /\ deployFaults' = deployFaults + 1
    /\ UNCHANGED <<db, config, disk, latest, starts, changes, histories>>

\* An operator removes the configuration and keeps the database.
LoseConfig ==
    /\ config /\ deployFaults < MaxDeployFaults
    /\ config' = FALSE /\ deployFaults' = deployFaults + 1
    /\ UNCHANGED <<db, proc, disk, update, latest, status, bgp, account, starts, changes, histories>>

-----------------------------------------------------------------------------
(* What the administrator changes while the server runs. *)

\* UpdateAccount reads the row and checks the current password.
ReadAccount ==
    /\ Serving /\ account = None /\ changes < MaxChanges
    /\ \E u \in DOMAIN db.users :
         /\ db.users[u].hash # Disabled
         /\ account' = [user |-> u, row |-> db.users[u]]
    /\ changes' = changes + 1
    /\ UNCHANGED <<db, config, proc, disk, update, latest, status, bgp, starts, deployFaults, histories>>

\* It writes address and hash, the one not asked for as it was read.
WriteAccount ==
    /\ Serving /\ account # None
    /\ \E row \in [email : {account.row.email, "own"}, hash : {account.row.hash, "chosen"}] \ {account.row} :
         /\ db' = [db EXCEPT !.users[account.user] = row]
         /\ setPasswords' = setPasswords \cup {row.hash}
    /\ account' = None
    /\ UNCHANGED <<config, proc, disk, update, latest, status, bgp, bounds, printed, forced, updatesOverlapped>>

\* The switch in the admin panel.
SwitchSelfUpdate ==
    /\ Serving /\ changes < MaxChanges /\ changes' = changes + 1
    /\ \E on \in {"true", "false"} :
          db' = [db EXCEPT !.settings =
                   [k \in DOMAIN db.settings \cup {"self_update_enabled"} |->
                      IF k = "self_update_enabled" THEN on ELSE db.settings[k]]]
    /\ UNCHANGED <<config, proc, disk, update, latest, status, bgp, account, starts, deployFaults, histories>>

-----------------------------------------------------------------------------
(* Self-update. *)

Publish ==
    /\ latest + 1 \in Releases
    /\ latest' = latest + 1
    /\ UNCHANGED <<db, config, proc, disk, update, status, bgp, account, bounds, histories>>

SelfUpdateAllowed ==
    "self_update_enabled" \in DOMAIN db.settings => db.settings["self_update_enabled"] # "false"

\* buildStatus: what GitHub says, or else the newest release note that is built in.
StatusNow(online) ==
    [latest |-> IF online THEN latest ELSE proc["server"].release,
     enabled |-> SelfUpdateAllowed]

\* Versions are compared by their numbers.
IsNewer(tag, current) == tag > current

\* Status: the answer of the last minute, or a new one that is then kept.
Seen(online) == IF status # None THEN status ELSE StatusNow(online)

ExpireStatus ==
    /\ status # None
    /\ status' = None
    /\ UNCHANGED <<db, config, proc, disk, update, latest, bgp, account, bounds, histories>>

CheckStatus ==
    /\ Serving
    /\ \E online \in BOOLEAN : status' = Seen(online)
    /\ UNCHANGED <<db, config, proc, disk, update, latest, bgp, account, bounds, histories>>

\* UpdateApply answers at once and applies in the background.
RequestUpdate(a) ==
    /\ Serving /\ update[a].pc = "idle"
    /\ \E online \in BOOLEAN :
         /\ status' = Seen(online)
         /\ IsNewer(Seen(online).latest, proc["server"].release) /\ Seen(online).enabled
    /\ update' = [update EXCEPT ![a].pc = "begin"]
    /\ updatesOverlapped' = (updatesOverlapped \/ \E b \in Updates : update[b].pc # "idle")
    /\ UNCHANGED <<db, config, proc, disk, latest, bgp, account, bounds, setPasswords, printed, forced>>

Step(a, pc, next) == update[a].pc = pc /\ update' = [update EXCEPT ![a].pc = next]

\* Apply asks again whether it may and what is the latest.
BeginUpdate(a) ==
    /\ update[a].pc = "begin" /\ SelfUpdateAllowed
    /\ update' = [update EXCEPT ![a].pc = "open", ![a].release = latest]
    /\ UNCHANGED <<db, config, proc, disk, latest, status, bgp, account, bounds, histories>>

InUse == {exe} \cup ({tmp} \ {None}) \cup {update[a].file : a \in {b \in Updates : update[b].pc = "copy"}}

\* O_CREATE|O_TRUNC: the file that is there loses its content, or a new one begins.
OpenDownload(a) ==
    /\ update[a].pc = "open"
    /\ \E f \in Files :
         /\ IF tmp = None THEN f \notin InUse /\ \A g \in Files : g < f => g \in InUse ELSE f = tmp
         /\ tmp' = f
         /\ file' = [file EXCEPT ![f] = Blank]
         /\ update' = [update EXCEPT ![a].pc = "copy", ![a].file = f, ![a].pos = 1]
    /\ UNCHANGED <<db, config, proc, exe, latest, status, bgp, account, bounds, histories>>

\* io.Copy writes at the download's own offset; what arrives may be damaged.
Copy(a) ==
    /\ update[a].pc = "copy"
    /\ \E content \in {update[a].release, Damaged} :
         /\ content = Damaged => deployFaults < MaxDeployFaults
         /\ deployFaults' = IF content = Damaged THEN deployFaults + 1 ELSE deployFaults
         /\ file' = [file EXCEPT ![update[a].file][update[a].pos] = content]
    /\ update' = IF update[a].pos + 1 \in Chunks THEN [update EXCEPT ![a].pos = @ + 1]
                 ELSE [update EXCEPT ![a].pc = "verify", ![a].pos = 0, ![a].file = 0]
    /\ UNCHANGED <<db, config, proc, exe, tmp, latest, status, bgp, account, starts, changes, histories>>

\* Every failure up to the rename removes what is at the temporary path.
GiveUp(a) == update' = [update EXCEPT ![a] = NoUpdate] /\ tmp' = None

AbortUpdate(a) ==
    /\ update[a].pc \in {"copy", "verify", "install"} /\ deployFaults < MaxDeployFaults
    /\ GiveUp(a) /\ deployFaults' = deployFaults + 1
    /\ UNCHANGED <<db, config, proc, exe, file, latest, status, bgp, account, starts, changes, histories>>

\* Apply gives up before it has opened anything.
RefuseUpdate(a) ==
    /\ \/ update[a].pc = "begin" /\ ~SelfUpdateAllowed /\ UNCHANGED deployFaults
       \/ update[a].pc \in {"begin", "open"} /\ deployFaults < MaxDeployFaults /\ deployFaults' = deployFaults + 1
    /\ update' = [update EXCEPT ![a] = NoUpdate]
    /\ tmp' = IF update[a].pc = "open" THEN None ELSE tmp
    /\ UNCHANGED <<db, config, proc, exe, file, latest, status, bgp, account, starts, changes, histories>>

\* Mutant: a file that is there is taken for the one that was asked for.
VerifyDownload_Present(a) ==
    /\ update[a].pc = "verify"
    /\ IF tmp # None
       THEN update' = [update EXCEPT ![a].pc = "install"] /\ UNCHANGED tmp
       ELSE GiveUp(a)
    /\ UNCHANGED <<db, config, proc, exe, file, latest, status, bgp, account, bounds, histories>>

\* verifyChecksum opens the path again, so it reads whatever file is there now.
VerifyDownload(a) ==
    /\ update[a].pc = "verify"
    /\ IF tmp # None /\ WholeOf(file[tmp], update[a].release)
       THEN update' = [update EXCEPT ![a].pc = "install"] /\ UNCHANGED tmp
       ELSE GiveUp(a)
    /\ UNCHANGED <<db, config, proc, exe, file, latest, status, bgp, account, bounds, histories>>

\* chmod and rename, both by path.
InstallDownload(a) ==
    /\ update[a].pc = "install"
    /\ IF tmp # None
       THEN exe' = tmp /\ tmp' = None /\ update' = [update EXCEPT ![a].pc = "restart"]
       ELSE GiveUp(a) /\ UNCHANGED exe
    /\ UNCHANGED <<db, config, proc, file, latest, status, bgp, account, bounds, histories>>

StopBgp(a) ==
    /\ Step(a, "restart", "exec")
    /\ bgp' = FALSE
    /\ UNCHANGED <<db, config, proc, disk, latest, status, account, bounds, histories>>

BeingWritten == \E a \in Updates : update[a].pc = "copy" /\ update[a].file = exe

\* The process becomes the new binary, at the top of main. The kernel refuses a
\* file that is open for writing or no program, and Apply logs the error while
\* the old process goes on, its BGP manager stopped; or half a program crashes.
Exec(a) ==
    /\ update[a].pc = "exec"
    /\ \/ \E r \in Releases :
            /\ WholeOf(file[exe], r) /\ ~BeingWritten
            /\ proc' = [proc EXCEPT !["server"] = [Off EXCEPT !.pc = "config", !.release = r]]
            /\ ServerGone
       \/ /\ BeingWritten \/ ~Whole(file[exe])
          /\ update' = [update EXCEPT ![a] = NoUpdate]
          /\ UNCHANGED <<proc, status, bgp, account>>
       \/ /\ ~Whole(file[exe]) /\ ~BeingWritten
          /\ Exit("server") /\ ServerGone
    /\ UNCHANGED <<db, config, disk, latest, bounds, histories>>

-----------------------------------------------------------------------------
Starting(p) ==
    \/ Configure(p) \/ ReadApplied(p) \/ Migrate(p) \/ Migrated(p)
    \/ UseGivenPassword(p) \/ EnsureRead(p) \/ EnsureWrite(p)

Updating(a) ==
    \/ BeginUpdate(a) \/ OpenDownload(a) \/ Copy(a) \/ VerifyDownload(a)
    \/ InstallDownload(a) \/ StopBgp(a) \/ Exec(a)

DeployNext ==
    \/ \E p \in Processes : Start(p) \/ Starting(p) \/ Fail(p)
    \/ SeedSettings \/ StartServing \/ BootstrapDone
    \/ Crash \/ LoseConfig \/ ReadAccount \/ WriteAccount \/ SwitchSelfUpdate
    \/ Publish \/ ExpireStatus \/ CheckStatus
    \/ \E a \in Updates : RequestUpdate(a) \/ Updating(a) \/ AbortUpdate(a) \/ RefuseUpdate(a)

DeploySpec == DeployInit /\ [][DeployNext]_deployVars

-----------------------------------------------------------------------------
\* A serving release finds the columns and tables its queries need, from
\* whatever database it was started on. (Migrate, migrateLegacyNodesSchema.)
ServesItsSchema ==
    Serving => Needed(MigrationsOf[proc["server"].release]) \subseteq db.schema

\* However a start was interrupted, a new start alone runs every migration that
\* is left and none of them is refused. (Migrate's transactions, store.Open.)
RestartCompletes ==
    \A r \in Releases : WholeOf(file[exe], r) =>
        LET left == {v \in 1..MigrationsOf[r] : v \notin db.applied}
            After[v \in 0..MigrationsOf[r]] ==
                IF v = 0 THEN db ELSE IF v \in left THEN Apply(v, After[v - 1]) ELSE After[v - 1]
        IN \A v \in left : Possible(v, After[v - 1])

\* What migrations own: everything but accounts and the settings of SeedSettings.
OwnedByMigrations(d) ==
    <<d.schema, d.nodes, d.neighbors, d.rules, d.audit, d.quick,
      [k \in DOMAIN d.settings \ DOMAIN FromConfig |-> d.settings[k]]>>

\* A migration's statements take effect once, with its version, whatever
\* processes start at the same time: later choices are never overwritten.
MigrationsRunOnce == [][OwnedByMigrations(db') # OwnedByMigrations(db) => db'.applied # db.applied]_deployVars

\* A password that was shown as the account's had been stored as such.
\* (EnsureFirstAdmin's conditional update, ApplyAdminPassword.)
PrintedWasStored == printed \subseteq setPasswords

\* The executable is a whole release at every moment, hence after a crash at
\* any, so long as two updates never ran at the same time. (Updater.Apply)
AloneUpdateIsWhole == ~updatesOverlapped => Whole(file[exe])

\* What migrate.go:475 is for: replacing the nodes table keeps the rows that
\* refer to it.
UpgradeKeepsNeighbors ==
    [][/\ DOMAIN db.neighbors \subseteq DOMAIN db'.neighbors
       /\ DOMAIN db.rules \subseteq DOMAIN db'.rules]_deployVars

\* "When force is true (e.g. config was regenerated while the database was
\* kept), the password is always replaced." (ApplyAdminPassword)
ForcedIsStored == Serving /\ forced # None => forced \in setPasswords
=============================================================================
