----------------------------- MODULE SiteContent -----------------------------
(* What administrators edit and visitors are shown: settings with the logo   *)
(* and the human check, quick queries and community rules (public.go,        *)
(* quick_queries.go and turnstile_admin.go in internal/server/handler,       *)
(* sitecache, quickqueries, turnstile). A request writes its table, key by   *)
(* key for settings, reads the table again and puts what it read in the      *)
(* cache visitors are served from. Requests interleave between statements;   *)
(* any of them may fail, and the server may stop. Requests that a check      *)
(* refuses change nothing and are left out; so is the order of items.        *)
EXTENDS Naturals, TLC, Nothing

CONSTANTS
    Editors,                  \* requests that may be in flight at once
    Texts,                    \* what a site's name or an item may be changed to
    Items,                    \* ids: a table gives each out once, ascending; a bound on its rows
    MaxEdits, MaxSiteFaults   \* bounds on requests and on failures and restarts

ASSUME SiteAssumption == Items \subseteq Nat /\ MaxEdits \in Nat /\ MaxSiteFaults \in Nat

Lists == {"quick", "rules"}
SiteTables == {"settings"} \cup Lists
Extensions == {"png", "svg"}

VARIABLES
    site,     \* the settings table
    logos,    \* logo files on disk, by extension
    items,    \* quick_queries and community_rules
    public,   \* the caches: [SiteTables -> what was read]
    edit,     \* where each request is
    settled,  \* history: the request that last ran from begin to end alone and unharmed
    mishap,   \* history: tables where requests have overlapped, failed or been cut off
    edits, siteFaults

siteVars == <<site, logos, items, public, edit, settled, mishap, edits, siteFaults>>
siteHistory == <<settled, mishap>>

Unsaved == [state |-> "none", text |-> "", active |-> FALSE]
NoEdit == [pc |-> "idle", op |-> "none", table |-> "settings", id |-> 0,
           todo |-> <<>>, seen |-> <<>>, alone |-> FALSE]

\* GetSettings; with whether the logo's path names a file, and so carries its version.
SettingsView == [values |-> site, versioned |-> site.logo_path \in logos]

\* Every quick query, the active community rules.
ListView(t) == {i \in Items : /\ items[t][i].state = "kept"
                              /\ t = "rules" => items[t][i].active}
View(t) == IF t = "settings" THEN SettingsView ELSE [i \in ListView(t) |-> items[t][i]]

SiteInit ==
    /\ site = [site_name |-> "", logo_path |-> "", site_key |-> "", secret |-> "", hostnames |-> "", cleared |-> ""]
    /\ logos = {}
    /\ items = [t \in Lists |-> [i \in Items |-> Unsaved]]
    /\ public = [t \in SiteTables |-> View(t)]
    /\ edit = [e \in Editors |-> NoEdit]
    /\ settled = [t \in SiteTables |-> "load"] /\ mishap = {}
    /\ edits = 0 /\ siteFaults = 0

Busy(t) == {e \in Editors : edit[e].pc # "idle" /\ edit[e].table = t}

Begin(e, request) ==
    LET t == request.table
    IN /\ edit[e].pc = "idle" /\ edits < MaxEdits
       /\ edits' = edits + 1
       /\ edit' = [x \in Editors |->
                     IF x = e THEN [request EXCEPT !.alone = Busy(t) = {}]
                     ELSE [edit[x] EXCEPT !.alone = @ /\ x \notin Busy(t)]]
       /\ settled' = [settled EXCEPT ![t] = "none"]
       /\ mishap' = mishap \cup {x \in {t} : Busy(t) # {}}
       /\ UNCHANGED siteFaults

Goes(e, pc) == edit' = [edit EXCEPT ![e].pc = pc] /\ UNCHANGED <<siteHistory, edits, siteFaults>>

\* The request is answered: nothing failed on its way.
Answer(e) ==
    /\ edit' = [edit EXCEPT ![e] = NoEdit]
    /\ settled' = IF edit[e].alone THEN [settled EXCEPT ![edit[e].table] = edit[e].op] ELSE settled
    /\ UNCHANGED <<mishap, edits, siteFaults>>

\* A statement fails: 500, or a warning when it is the refresh; what was written stays.
Fails(e) ==
    /\ siteFaults < MaxSiteFaults /\ siteFaults' = siteFaults + 1
    /\ edit' = [edit EXCEPT ![e] = NoEdit]
    /\ mishap' = mishap \cup {edit[e].table}
    /\ UNCHANGED <<settled, edits>>

\* The settings page: what it loads it sends back, the logo's path too.
LoadPanel(e) ==
    /\ Begin(e, [NoEdit EXCEPT !.pc = "loaded", !.op = "save", !.todo = [logo_path |-> site.logo_path]])
    /\ UNCHANGED <<site, logos, items, public>>

\* Mutant: the files go whenever a path is sent, blank or not.
UpdateSettings_AnyPath(e) ==
    /\ edit[e].pc = "loaded"
    /\ \E name \in Texts, path \in {edit[e].todo.logo_path, ""} :
          /\ logos' = {}
          /\ edit' = [edit EXCEPT ![e].pc = "write", ![e].todo = [site_name |-> name, logo_path |-> path]]
    /\ UNCHANGED <<site, items, public, siteHistory, edits, siteFaults>>

\* A blank path removes the files, before anything is written.
UpdateSettings(e) ==
    /\ edit[e].pc = "loaded"
    /\ \E name \in Texts, path \in {edit[e].todo.logo_path, ""} :
          /\ logos' = {x \in logos : path # ""}
          /\ edit' = [edit EXCEPT ![e].pc = "write", ![e].todo = [site_name |-> name, logo_path |-> path]]
    /\ UNCHANGED <<site, items, public, siteHistory, edits, siteFaults>>

\* UploadLogo removes the files of other extensions,
BeginUpload(e) ==
    \E x \in Extensions :
       /\ Begin(e, [NoEdit EXCEPT !.pc = "create", !.op = "upload", !.todo = [logo_path |-> x]])
       /\ logos' = logos \cap {x}
       /\ UNCHANGED <<site, items, public>>

\* creates its own and fills it, and then stores the path.
CreateLogo(e) ==
    /\ edit[e].pc = "create"
    /\ LET x == edit[e].todo.logo_path
       IN \/ logos' = logos \cup {x} /\ Goes(e, "write")
          \/ logos' \in {logos, logos \cup {x}} /\ Fails(e)
    /\ UNCHANGED <<site, items, public>>

CheckRequests == [clear : BOOLEAN, site_key : {"", "k"}, secret : {"", "s"}, hostnames : {"", "h"}]

\* What a check that is not cleared writes: a blank secret is left as it is.
CheckRows(req) ==
    [k \in {"site_key", "hostnames", "cleared"} \cup (IF req.secret = "" THEN {} ELSE {"secret"}) |->
       IF k = "cleared" THEN "" ELSE req[k]]

\* Mutant: a check that lacks a part is stored.
CheckFromUpdate_Partial(req, current) ==
    LET secret == IF req.secret = "" THEN current.secret ELSE req.secret
    IN IF req.clear \/ {req.site_key, secret, req.hostnames} = {""}
       THEN {[site_key |-> "", secret |-> "", hostnames |-> "", cleared |-> "1"]}
       ELSE {CheckRows(req)}

\* The rows a check's update writes, none when it is refused: the three are set
\* together.
CheckFromUpdate(req, current) ==
    LET secret == IF req.secret = "" THEN current.secret ELSE req.secret
    IN IF req.clear \/ {req.site_key, secret, req.hostnames} = {""}
       THEN {[site_key |-> "", secret |-> "", hostnames |-> "", cleared |-> "1"]}
       ELSE {rows \in {CheckRows(req)} : "" \notin {req.site_key, secret, req.hostnames}}

UpdateTurnstile(e) ==
    /\ \E req \in CheckRequests : \E rows \in CheckFromUpdate(req, site) :
          Begin(e, [NoEdit EXCEPT !.pc = "write", !.op = "check", !.todo = rows])
    /\ UNCHANGED <<site, logos, items, public>>

\* SetSettings: one statement for each key, in any order.
WriteKey(e) ==
    /\ edit[e].pc = "write" /\ edit[e].table = "settings"
    /\ \/ \E k \in DOMAIN edit[e].todo :
             LET rest == [key \in DOMAIN edit[e].todo \ {k} |-> edit[e].todo[key]]
             IN /\ site' = [site EXCEPT ![k] = edit[e].todo[k]]
                /\ edit' = [edit EXCEPT ![e].pc = IF rest = <<>> THEN "refresh" ELSE "write", ![e].todo = rest]
                /\ UNCHANGED <<siteHistory, edits, siteFaults>>
       \/ Fails(e) /\ UNCHANGED site
    /\ UNCHANGED <<logos, items, public>>

ItemRow(text, active) == [state |-> "kept", text |-> text, active |-> active]
ItemRows == {ItemRow(text, active) : text \in Texts, active \in BOOLEAN}

\* id 0 stands for the one an insertion gives out.
SubmitItem(e, t, op, i, row) ==
    /\ Begin(e, [NoEdit EXCEPT !.pc = "write", !.op = op, !.table = t, !.id = i, !.todo = row])
    /\ UNCHANGED <<site, logos, items, public>>

CreateQuickQuery(e) == \E row \in ItemRows : SubmitItem(e, "quick", "create", 0, row)

\* The query is looked for first; the write does not look again.
UpdateQuickQuery(e) ==
    \E i \in Items, row \in ItemRows :
       items["quick"][i].state = "kept" /\ SubmitItem(e, "quick", "update", i, row)

DeleteQuickQuery(e) == \E i \in Items : SubmitItem(e, "quick", "delete", i, <<>>)
ToggleQuickQuery(e) == \E i \in Items : SubmitItem(e, "quick", "toggle", i, <<>>)

CreateCommunityRule(e) == \E row \in ItemRows : SubmitItem(e, "rules", "create", 0, row)
UpdateCommunityRule(e) == \E i \in Items, row \in ItemRows : SubmitItem(e, "rules", "update", i, row)
DeleteCommunityRule(e) == \E i \in Items : SubmitItem(e, "rules", "delete", i, <<>>)
ToggleCommunityRule(e) == \E i \in Items : SubmitItem(e, "rules", "toggle", i, <<>>)

\* What a statement leaves of a table: one for a row that is not there changes nothing.
Written(rows, op, i, row) ==
    CASE op = "create" -> [rows EXCEPT ![i] = row]
      [] rows[i].state # "kept" -> rows
      [] op = "update" -> [rows EXCEPT ![i] = row]
      [] op = "delete" -> [rows EXCEPT ![i] = [Unsaved EXCEPT !.state = "deleted"]]
      [] op = "toggle" -> [rows EXCEPT ![i].active = ~@]

\* The id of an insertion is the next one.
IdOf(e) ==
    IF edit[e].op # "create" THEN {edit[e].id}
    ELSE {i \in Items : \A x \in Items : items[edit[e].table][x].state = "none" <=> x >= i}

\* Mutant: the table is read for the cache before the statement changes it.
WriteItem_ReadFirst(e) ==
    /\ edit[e].pc = "write" /\ edit[e].table \in Lists
    /\ LET t == edit[e].table
       IN \/ \E i \in IdOf(e) :
                /\ items' = [items EXCEPT ![t] = Written(@, edit[e].op, i, edit[e].todo)]
                /\ edit' = [edit EXCEPT ![e].pc = "store", ![e].seen = View(t)]
                /\ UNCHANGED <<siteHistory, edits, siteFaults>>
          \/ Fails(e) /\ UNCHANGED items
    /\ UNCHANGED <<site, logos, public>>

WriteItem(e) ==
    /\ edit[e].pc = "write" /\ edit[e].table \in Lists
    /\ LET t == edit[e].table
       IN \/ \E i \in IdOf(e) :
                /\ items' = [items EXCEPT ![t] = Written(@, edit[e].op, i, edit[e].todo)]
                /\ edit' = [edit EXCEPT ![e].id = i,
                              ![e].pc = IF edit[e].op \in {"create", "update"} THEN "reread" ELSE "refresh"]
                /\ UNCHANGED <<siteHistory, edits, siteFaults>>
          \/ Fails(e) /\ UNCHANGED items
    /\ UNCHANGED <<site, logos, public>>

\* The row is read back; for a community rule that is not there the handler
\* panics and the request ends without a refresh.
RereadItem(e) ==
    /\ edit[e].pc = "reread"
    /\ LET gone == items[edit[e].table][edit[e].id].state # "kept"
       IN IF edit[e].table = "rules" /\ gone
          THEN /\ edit' = [edit EXCEPT ![e] = NoEdit] /\ mishap' = mishap \cup {"rules"}
               /\ UNCHANGED <<settled, edits, siteFaults>>
          ELSE Goes(e, "refresh") \/ Fails(e)
    /\ UNCHANGED <<site, logos, items, public>>

\* A refresh reads the table, and then takes the lock to store what it read.
ReadRows(e) ==
    /\ edit[e].pc = "refresh"
    /\ \/ /\ edit' = [edit EXCEPT ![e].pc = "store", ![e].seen = View(edit[e].table)]
          /\ UNCHANGED <<siteHistory, edits, siteFaults>>
       \/ Fails(e)
    /\ UNCHANGED <<site, logos, items, public>>

StoreRows(e) ==
    /\ edit[e].pc = "store"
    /\ public' = [public EXCEPT ![edit[e].table] = edit[e].seen]
    /\ Answer(e)
    /\ UNCHANGED <<site, logos, items>>

\* A new server loads every cache before it serves.
Load ==
    /\ siteFaults < MaxSiteFaults /\ siteFaults' = siteFaults + 1
    /\ public' = [t \in SiteTables |-> View(t)]
    /\ edit' = [e \in Editors |-> NoEdit]
    /\ settled' = [t \in SiteTables |-> "load"]
    /\ mishap' = mishap \cup {t \in SiteTables : Busy(t) # {}}
    /\ UNCHANGED <<site, logos, items, edits>>

SiteNext ==
    \/ \E e \in Editors :
          \/ LoadPanel(e) \/ UpdateSettings(e) \/ BeginUpload(e) \/ CreateLogo(e)
          \/ UpdateTurnstile(e) \/ WriteKey(e)
          \/ CreateQuickQuery(e) \/ UpdateQuickQuery(e) \/ DeleteQuickQuery(e) \/ ToggleQuickQuery(e)
          \/ CreateCommunityRule(e) \/ UpdateCommunityRule(e) \/ DeleteCommunityRule(e) \/ ToggleCommunityRule(e)
          \/ WriteItem(e) \/ RereadItem(e)
          \/ ReadRows(e) \/ StoreRows(e)
    \/ Load

SiteSpec == SiteInit /\ [][SiteNext]_siteVars
-----------------------------------------------------------------------------
(* A visitor: asked for a token when a site key is shown, and let through by *)
(* what is stored with it.                                                   *)
EffectiveCheck(values) ==
    IF values.cleared = "1" THEN [site_key |-> "", secret |-> "", hostnames |-> ""]
    ELSE [site_key |-> values.site_key, secret |-> values.secret, hostnames |-> values.hostnames]

Asked(values) == EffectiveCheck(values).site_key # ""

\* token: whether the visitor has one that the service accepts.
Verify(check, token) == token /\ check.hostnames # ""
LetThrough(values, token) ==
    LET check == EffectiveCheck(values) IN check.secret = "" \/ Verify(check, token)
-----------------------------------------------------------------------------
\* After a request of kind op that ran alone and met no failure, whatever had
\* gone wrong before it; or while nothing has gone wrong at all.
InOrder(op) == settled["settings"] = op \/ ("settings" \notin mishap /\ Busy("settings") = {})

\* Whatever overlapped, failed or was cut off before, a request that runs alone
\* and meets no failure leaves visitors with what its table holds, and so does
\* a restart (the refresh that ends UpdateSettings, UploadLogo, UpdateTurnstile
\* and the handlers of quick queries and community rules; sitecache.Load).
ShownIsStored ==
    \A t \in SiteTables : settled[t] # "none" =>
        CASE t = "settings" -> public[t] = [values |-> site, versioned |-> site.logo_path \in logos]
          [] t = "quick" -> \A i \in Items : IF items[t][i].state = "kept" THEN i \in DOMAIN public[t] /\ public[t][i] = items[t][i]
                                             ELSE i \notin DOMAIN public[t]
          [] t = "rules" -> /\ DOMAIN public[t] = {i \in Items : items[t][i].state = "kept" /\ items[t][i].active}
                            /\ \A i \in DOMAIN public[t] : public[t][i] = items[t][i]

\* The logo visitors are pointed at is on disk: always as long as requests on
\* the settings neither overlapped nor failed, a page's save counted from the
\* page's load, and again after an upload that ran alone (UpdateSettings and
\* UploadLogo, which change files and settings separately).
LogoIsThere ==
    InOrder("upload") => \A path \in {site.logo_path, public["settings"].values.logo_path} : path \in logos \cup {""}

\* Under the same conditions the human check is off or whole: a visitor who is
\* asked for a token passes with one and not without, and one who is not asked
\* passes (UpdateTurnstile, GetPublicSettings, SubmitQuery).
CheckIsWhole ==
    InOrder("check") => \A values \in {site, public["settings"].values} :
        /\ LetThrough(values, Asked(values))
        /\ Asked(values) => ~LetThrough(values, FALSE)
=============================================================================
