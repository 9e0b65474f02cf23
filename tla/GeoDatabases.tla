---------------------------- MODULE GeoDatabases ----------------------------
(***************************************************************************)
(* MaxMind's databases: the files on disk, the updater that refreshes them  *)
(* while the server runs, the readers GeoIPDB keeps open, the answers it    *)
(* caches, and the administrator's settings the updater reads every cycle.  *)
(* A file is known by the publication it comes from, 0 when it is missing.  *)
(* A unit of time is longer than the downloads of one cycle, which the HTTP *)
(* client's timeout and the least interval of an hour justify.              *)
(***************************************************************************)
EXTENDS Integers, FiniteSets, TLC, Nothing

CONSTANTS
    Addresses, InBlocks, InMmdb,   \* looked up; known to the CSV blocks; known to the mmdb
    Lookups, Administrators,       \* requests that may run at once
    Intervals,                     \* durations an administrator may choose
    MaxEntries,                    \* maxResolveCacheEntries
    MaxTime, MaxPublications, MaxGeoFaults, MaxGeoRestarts, MaxRequests   \* bounds

\* An interval is at least MinUpdateInterval, and a Duration has a largest value.
ASSUME GeoAssumption ==
    /\ Intervals \subseteq Nat \ {0} /\ \E i \in Intervals : \A j \in Intervals : j <= i
    /\ None \notin Nat

Editions   == {"asn", "city"}
SidecarsOf == [asn |-> {"blocks4", "blocks6"}, city |-> {"locations"}]
Sidecars   == UNION {SidecarsOf[e] : e \in Editions}
Longest    == CHOOSE i \in Intervals : \A j \in Intervals : j <= i

VARIABLES
    now, published,      \* the clock, MaxMind's publication
    mmdb, mtime, csv,    \* the files, and when an mmdb was downloaded
    stored,              \* settings of the panel
    marks,               \* geoip_*_last_download
    geoDB,               \* open readers, with how often they were opened; index and blocks
    answers,             \* resolveCache
    updater, lookup, panel,
    configured,          \* history: since when both credentials are stored
    crossed,             \* history: two panel requests ran at once
    cut,                 \* history: a cycle was cut off, by a restart or for want of credentials
    geoFaults, geoRestarts, requests

files     == <<mmdb, mtime, csv>>
settings  == <<stored, marks, configured>>
geoBounds == <<geoFaults, geoRestarts, requests>>
geoVars   == <<now, published, files, settings, geoDB, answers, updater, lookup, panel, crossed, cut, geoBounds>>

UpdaterOff    == [pc |-> "off", edition |-> "asn", reload |-> FALSE, began |-> 0, period |-> 0,
           ticker |-> None, ticks |-> 0]
NoLookup == [pc |-> "idle", address |-> None, geoDB |-> None]

\* New: what cannot be opened stays closed, the other is used.
Opened(generation) == [asn |-> mmdb["asn"], city |-> mmdb["city"], csv |-> csv, generation |-> generation]

GeoInit ==
    /\ now = 0 /\ published = 1
    /\ mmdb = [e \in Editions |-> 0] /\ mtime = [e \in Editions |-> 0] /\ csv = [s \in Sidecars |-> 0]
    /\ \E i \in Intervals : stored = [account |-> "", key |-> "", interval |-> i]
    /\ marks = [e \in Editions |-> None]
    /\ geoDB = Opened(0)
    /\ answers = <<>>
    /\ updater = UpdaterOff
    /\ lookup = [p \in Lookups |-> NoLookup]
    /\ panel = [a \in Administrators |-> <<>>]
    /\ configured = None /\ crossed = FALSE /\ cut = FALSE
    /\ geoFaults = 0 /\ geoRestarts = 0 /\ requests = 0

Fault == geoFaults < MaxGeoFaults /\ geoFaults' = geoFaults + 1

-----------------------------------------------------------------------------
(* Updater.Run. *)

\* The ticker's period is the interval that is stored when the server starts.
StartUpdater ==
    /\ updater.pc = "off"
    /\ \/ updater' = [UpdaterOff EXCEPT !.pc = "begin", !.period = stored.interval] /\ UNCHANGED geoFaults
       \/ updater' = [UpdaterOff EXCEPT !.pc = "stopped"] /\ Fault     \* its directory cannot be made
    /\ UNCHANGED <<now, published, files, settings, geoDB, answers, lookup, panel, crossed, cut,
                   geoRestarts, requests>>

\* Ticks since the ticker started; its channel keeps one that nobody waits for.
Ticks  == (now - updater.ticker) \div updater.period
Ticked == updater.pc = "idle" /\ Ticks > updater.ticks

Rested(u) == [u EXCEPT !.pc = "idle", !.edition = "asn", !.reload = FALSE, !.began = 0,
                       !.ticker = IF @ = None THEN now ELSE @]

HasCredentials == stored.key # "" /\ stored.account # ""

\* Credentials are read every cycle, not only at the start.
BeginCycle ==
    /\ updater.pc = "begin" \/ Ticked
    /\ LET u == IF Ticked THEN [updater EXCEPT !.ticks = Ticks] ELSE updater
       IN updater' = IF HasCredentials THEN [u EXCEPT !.pc = "try", !.began = now] ELSE Rested(u)
    /\ UNCHANGED <<now, published, files, settings, geoDB, answers, lookup, panel, crossed, cut, geoBounds>>

Missing(e)         == mmdb[e] = 0
SidecarsMissing(e) == \E s \in SidecarsOf[e] : csv[s] = 0

\* Mutant: one key for both editions.
LastDownload_OneKey(e) == IF marks["asn"] # None THEN marks["asn"] ELSE mtime[e]

LastDownload(e) == IF marks[e] # None THEN marks[e] ELSE mtime[e]

NeedsDownload(e) ==
    Missing(e) \/ SidecarsMissing(e) \/ now >= LastDownload(e) + stored.interval

\* Mutant: what the second edition returns replaces what the first returned.
NextEdition_Assigned(u) ==
    IF u.edition = "asn" THEN [u EXCEPT !.pc = "try", !.edition = "city", !.reload = FALSE]
    ELSE IF u.reload THEN [u EXCEPT !.pc = "reload"] ELSE Rested(u)

\* Both editions are attempted; a reload follows when any of them changed.
NextEdition(u) ==
    IF u.edition = "asn" THEN [u EXCEPT !.pc = "try", !.edition = "city"]
    ELSE IF u.reload THEN [u EXCEPT !.pc = "reload"] ELSE Rested(u)

TryEdition ==
    /\ updater.pc = "try"
    /\ LET e == updater.edition
       IN updater' = IF ~NeedsDownload(e) THEN NextEdition(updater)
                     ELSE [updater EXCEPT !.pc = IF ~Missing(e) /\ SidecarsMissing(e) THEN "csv" ELSE "mmdb"]
    /\ UNCHANGED <<now, published, files, settings, geoDB, answers, lookup, panel, crossed, cut, geoBounds>>

\* A cycle's downloads take up to a unit of time.
Elapse == now' \in {now} \cup {t \in {now + 1} : updater.began = now /\ t <= MaxTime}

\* The download's time is stored; when it cannot be, that is logged.
Mark(e) ==
    \/ marks' = [marks EXCEPT ![e] = now'] /\ UNCHANGED geoFaults
    \/ UNCHANGED marks /\ Fault

\* The archive's entry as a whole: one that is cut short or too large is refused.
Extracted(e) == [mmdb EXCEPT ![e] = published]

\* Fetched with the credentials of the moment, extracted beside and renamed.
DownloadMMDB ==
    /\ updater.pc = "mmdb"
    /\ LET e == updater.edition
       IN \/ /\ HasCredentials /\ Elapse
             /\ mmdb' = Extracted(e) /\ mtime' = [mtime EXCEPT ![e] = now']
             /\ Mark(e)
             /\ updater' = [updater EXCEPT !.pc = "csv", !.reload = TRUE]
          \/ /\ IF HasCredentials THEN Fault ELSE UNCHANGED geoFaults
             /\ updater' = [updater EXCEPT !.pc = "csv"]
             /\ UNCHANGED <<now, mmdb, mtime, marks>>
    /\ cut' = (cut \/ ~HasCredentials)
    /\ UNCHANGED <<published, csv, stored, configured, geoDB, answers, lookup, panel, crossed,
                   geoRestarts, requests>>

\* Each CSV file is replaced on its own.
Replaced(names) == [s \in Sidecars |-> IF s \in names THEN published ELSE csv[s]]

\* A failure leaves some of the files new, and no mark.
DownloadCSV ==
    /\ updater.pc = "csv"
    /\ LET e == updater.edition
       IN \/ /\ HasCredentials /\ Elapse
             /\ csv' = Replaced(SidecarsOf[e])
             /\ Mark(e)
             /\ updater' = NextEdition([updater EXCEPT !.reload = TRUE])
          \/ /\ HasCredentials /\ Fault
             /\ \E done \in SUBSET SidecarsOf[e] : done # SidecarsOf[e] /\ csv' = Replaced(done)
             /\ updater' = NextEdition(updater)
             /\ UNCHANGED <<now, marks>>
          \/ /\ ~HasCredentials
             /\ updater' = NextEdition(updater)
             /\ UNCHANGED <<now, csv, marks, geoFaults>>
    /\ cut' = (cut \/ ~HasCredentials)
    /\ UNCHANGED <<published, mmdb, mtime, stored, configured, geoDB, answers, lookup, panel, crossed,
                   geoRestarts, requests>>

\* Both readers are closed and both files opened again, under the write lock;
\* a file that cannot be opened leaves its reader closed. answers is not touched.
Reload ==
    /\ updater.pc = "reload"
    /\ LET again == Opened(geoDB.generation + 1)
       IN \/ geoDB' = again /\ UNCHANGED geoFaults
          \/ \E e \in Editions : geoDB' = [again EXCEPT ![e] = 0] /\ Fault
    /\ updater' = Rested(updater)
    /\ UNCHANGED <<now, published, files, settings, answers, lookup, panel, crossed, cut, geoRestarts, requests>>

-----------------------------------------------------------------------------
(* ResolveASN. *)

\* The CSV blocks stay readable to whoever holds them; a closed reader answers nothing.
BlockAnswer(a, db) ==
    IF a \in InBlocks /\ db.csv["blocks4"] > 0 THEN <<"blocks", db.csv["blocks4"]>> ELSE None

MMDBAnswer(a, db, closed) ==
    IF a \in InMmdb /\ db.asn > 0 /\ ~closed THEN <<"mmdb", db.asn>> ELSE None

\* pickASNInfo: the block first.
PickASNInfo(block, mm) == IF block # None THEN block ELSE mm

\* Empty for IPv6, and when there is no record or no answer.
DNSAnswers == {<<"dns", 0>>, None}

\* A cached answer, the empty one too, ends it; else it takes the readers with it.
BeginLookup(p) ==
    /\ lookup[p].pc = "idle"
    /\ \E a \in Addresses \ DOMAIN answers :
         lookup' = [lookup EXCEPT ![p] = [pc |-> "local", address |-> a, geoDB |-> geoDB]]
    /\ UNCHANGED <<now, published, files, settings, geoDB, answers, updater, panel, crossed, cut, geoBounds>>

\* storeResolve: None stands for the empty entry; a full cache starts anew.
StoreResolve(a, answer) ==
    answers' = a :> answer @@ (IF Cardinality(DOMAIN answers) >= MaxEntries THEN <<>> ELSE answers)

LookUpLocally(p) ==
    /\ lookup[p].pc = "local"
    /\ LET l      == lookup[p]
           closed == l.geoDB.generation # geoDB.generation
           answer == PickASNInfo(BlockAnswer(l.address, l.geoDB), MMDBAnswer(l.address, l.geoDB, closed))
       IN IF answer # None
          THEN StoreResolve(l.address, answer) /\ lookup' = [lookup EXCEPT ![p] = NoLookup]
          ELSE lookup' = [lookup EXCEPT ![p].pc = "dns"] /\ UNCHANGED answers
    /\ UNCHANGED <<now, published, files, settings, geoDB, updater, panel, crossed, cut, geoBounds>>

\* An error and an answer without a number are both stored as the empty one.
LookUpDNS(p) ==
    /\ lookup[p].pc = "dns"
    /\ \E answer \in DNSAnswers : StoreResolve(lookup[p].address, answer)
    /\ lookup' = [lookup EXCEPT ![p] = NoLookup]
    /\ UNCHANGED <<now, published, files, settings, geoDB, updater, panel, crossed, cut, geoBounds>>

\* LookupIP, for the administrator: what the databases that are open now answer.
Reported(a) == PickASNInfo(BlockAnswer(a, geoDB), MMDBAnswer(a, geoDB, FALSE))

-----------------------------------------------------------------------------
(* UpdateGeoIPConfig. *)

\* What a request carries; None is a field that was left empty.
ConfigRequests ==
    [clear : {FALSE}, account : {None, "a"}, key : {None, "k"}, interval : Intervals \cup {None}]
      \cup {[clear |-> TRUE]}

\* Mutant: only what is stored is looked at.
ValueAfter_Stored(pending, current, k) == current[k]

ValueAfter(pending, current, k) ==
    IF k \in DOMAIN pending THEN pending[k] ELSE current[k]

\* The settings to write; none when there is nothing to change or the request
\* would leave one credential without the other.
SettingsFromUpdate(req, current) ==
    IF req.clear THEN [key |-> "", account |-> ""]
    ELSE LET out == [k \in {j \in {"account", "key", "interval"} : req[j] # None} |-> req[k]]
         IN IF (ValueAfter(out, current, "account") = "") # (ValueAfter(out, current, "key") = "")
            THEN <<>> ELSE out

\* GetSettings and the checks.
RequestConfig(a) ==
    /\ panel[a] = <<>> /\ requests < MaxRequests
    /\ \E req \in ConfigRequests :
         /\ SettingsFromUpdate(req, stored) # <<>>
         /\ panel' = [panel EXCEPT ![a] = SettingsFromUpdate(req, stored)]
    /\ requests' = requests + 1
    /\ crossed' = (crossed \/ \E b \in Administrators : panel[b] # <<>>)
    /\ UNCHANGED <<now, published, files, settings, geoDB, answers, updater, lookup, cut, geoFaults, geoRestarts>>

\* SetSettings: a statement for each key in no order, without a transaction.
WriteSetting(a) ==
    /\ panel[a] # <<>>
    /\ \/ \E k \in DOMAIN panel[a] :
            /\ stored' = [stored EXCEPT ![k] = panel[a][k]]
            /\ panel' = [panel EXCEPT ![a] = [j \in DOMAIN panel[a] \ {k} |-> panel[a][j]]]
            /\ UNCHANGED geoFaults
       \/ panel' = [panel EXCEPT ![a] = <<>>] /\ UNCHANGED stored /\ Fault
    /\ configured' = IF stored'.account = "" \/ stored'.key = "" THEN None
                     ELSE IF configured = None THEN now ELSE configured
    /\ UNCHANGED <<now, published, files, marks, geoDB, answers, updater, lookup, crossed, cut,
                   geoRestarts, requests>>

-----------------------------------------------------------------------------
(* The world. *)

PublishDatabase ==
    /\ published < MaxPublications
    /\ published' = published + 1
    /\ UNCHANGED <<now, files, settings, geoDB, answers, updater, lookup, panel, crossed, cut, geoBounds>>

\* Nothing keeps the updater from a tick or from a step of its cycle.
Wait ==
    /\ now < MaxTime /\ now' = now + 1
    /\ updater.pc \in {"stopped", "idle"} /\ ~Ticked
    /\ UNCHANGED <<published, files, settings, geoDB, answers, updater, lookup, panel, crossed, cut, geoBounds>>

\* A restart, or the crash of a lookup whose reader is closed under its hands.
RestartServer ==
    /\ geoRestarts < MaxGeoRestarts /\ geoRestarts' = geoRestarts + 1
    /\ geoDB' = Opened(0) /\ answers' = <<>> /\ updater' = UpdaterOff
    /\ lookup' = [p \in Lookups |-> NoLookup]
    /\ panel' = [a \in Administrators |-> <<>>]
    /\ crossed' = (crossed \/ \E a \in Administrators : panel[a] # <<>>)
    /\ cut' = (cut \/ updater.pc \in {"try", "mmdb", "csv", "reload"})
    /\ UNCHANGED <<now, published, files, settings, geoFaults, requests>>

UpdaterStep == StartUpdater \/ BeginCycle \/ TryEdition \/ DownloadMMDB \/ DownloadCSV \/ Reload

GeoNext ==
    \/ UpdaterStep
    \/ \E p \in Lookups : BeginLookup(p) \/ LookUpLocally(p) \/ LookUpDNS(p)
    \/ \E a \in Administrators : RequestConfig(a) \/ WriteSetting(a)
    \/ PublishDatabase \/ Wait \/ RestartServer

GeoSpec == GeoInit /\ [][GeoNext]_geoVars

-----------------------------------------------------------------------------
\* Between two cycles the server answers from the files it has, unless a reload
\* or a part of a download failed. (Updater.updateAll, GeoIPDB.Reload)
IdleUsesNewest ==
    geoFaults = 0 /\ updater.pc = "idle" => geoDB = Opened(geoDB.generation)

\* A lone administrator leaves both credentials or none, whatever the order of
\* the statements and of the requests. (SettingsFromUpdate)
CredentialsTogether ==
    geoFaults = 0 /\ ~crossed /\ (\A a \in Administrators : panel[a] = <<>>)
        => (stored.account = "" <=> stored.key = "")

\* With credentials and with MaxMind answering, no file is older between two
\* cycles than the ticker's period, the stored interval and the time of a cycle
\* together: a download is never skipped twice. A cycle that is cut off after one
\* file of an edition is left out: the download of the other one marks both, and
\* puts the refresh of the first off by an interval. (needsDownload, Run)
FilesStayFresh ==
    geoFaults = 0 /\ ~cut /\ configured # None /\ updater.pc = "idle" =>
        \A e \in Editions :
            \/ now - mtime[e] <= updater.period + Longest + 1
            \/ now - configured <= updater.period + Longest + 1

\* "LookupIP resolves an IP using the same pipeline as traceroute enrichment",
\* with "no per-IP cache": what its databases know is what ResolveASN answers.
SamePipeline ==
    updater.pc = "idle" => \A a \in DOMAIN answers : Reported(a) # None => answers[a] = Reported(a)
=============================================================================
