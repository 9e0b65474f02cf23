----------------------------- MODULE MCServices -----------------------------
(* One run for parts of the server that share no state: the initial state    *)
(* picks the subject, its module takes the steps and the others stay as they *)
(* begin. A subject narrows a module to the case it is about.                *)
EXTENDS NodeTable, MCDeployment, GeoDatabases, MCRouteChoice, SiteContent

Deploying == {"upgrade", "update"}
Geo == {"files", "panel", "answers"}

ServicesInit ==
    /\ subject \in {"nodes", "routes"} \cup Deploying \cup Geo \cup SiteTables
    /\ Init /\ GeoInit /\ SiteInit
    /\ subject \notin Geo => stored.interval = Longest
    /\ IF subject \in Deploying THEN MCInit
       ELSE DeployInit /\ db = LeftBy[21] /\ config /\ latest = 1
    /\ MCRouteInit
    /\ subject # "routes" => rib = <<>> /\ asked = [node |-> "router", target |-> "network"] /\ established = {}

\* One request is enough for the files: it is the first administrator's.
FirstAdministrator == CHOOSE a \in Administrators : TRUE

\* Files: a download that fails is the other subjects' case, nothing is claimed
\* of the files after it; databases are published and credentials entered
\* early, and the time a cycle takes passes with its second edition.
GeoStep ==
    /\ GeoNext
    /\ subject = "files"   => /\ lookup' = lookup /\ requests' <= 1 /\ geoFaults' = 0
                              /\ now > 0 => published' = published
                              /\ now > 1 => requests' = requests
                              /\ now' > now => updater.edition = "city" \/ updater.pc \notin {"mmdb", "csv"}
                              /\ \A a \in Administrators : panel[a] = panel'[a] \/ a = FirstAdministrator
    /\ subject = "panel"   => updater'.pc = "off" /\ lookup' = lookup /\ published' = 1
    /\ subject = "answers" => now' = 0 /\ published' = 1 /\ requests' <= 1 /\ stored'.interval = Longest

\* The third request starts when no other runs; extensions are alike: the first is png.
SiteStep ==
    /\ SiteNext
    /\ \A e \in Editors : edit'[e] # NoEdit => edit'[e].table = subject
    /\ edits' > edits /\ edits' > 2 => Busy(subject) = {}
    /\ logos = {} => "svg" \notin logos'

ServicesNext ==
    /\ UNCHANGED subject
    /\ \/ subject = "nodes" /\ Next /\ UNCHANGED <<deployVars, geoVars, routeVars, siteVars>>
       \/ subject \in Deploying /\ MCNext /\ UNCHANGED <<vars, geoVars, routeVars, siteVars>>
       \/ subject \in Geo /\ GeoStep /\ UNCHANGED <<vars, deployVars, routeVars, siteVars>>
       \/ subject = "routes" /\ MCRouteNext /\ UNCHANGED <<vars, deployVars, geoVars, siteVars>>
       \/ subject \in SiteTables /\ SiteStep /\ UNCHANGED <<vars, deployVars, geoVars, routeVars>>

ServicesSpec == ServicesInit /\ [][ServicesNext]_<<subject, vars, deployVars, geoVars, routeVars, siteVars>>

\* How many hold each value: requests differ by what they hold only.
Alike(f) == [x \in {f[a] : a \in DOMAIN f} |-> Cardinality({a \in DOMAIN f : f[a] = x})]

\* What belongs to other subjects does not change.
ServicesView ==
    <<subject,
      IF subject = "nodes" THEN vars
      ELSE IF subject \in Deploying THEN MCView
      ELSE IF subject = "routes" THEN routeVars
      ELSE IF subject \in SiteTables THEN <<site, logos, items, public, Alike(edit), siteHistory, edits, siteFaults>>
      ELSE geoVars>>
=============================================================================
