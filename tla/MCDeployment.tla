---------------------------- MODULE MCDeployment ----------------------------
(* Two subjects: databases of several releases under an upgrade, and an     *)
(* update downloaded by a server whose database is current.                  *)
EXTENDS Deployment

VARIABLE subject

Node(default, cmds, session) == [default |-> default, cmds |-> cmds, bgp |-> session]
Neighbor(node, sameAS) ==
    [node |-> node, sameAS |-> sameAS, route |-> "", type |-> "external", passive |-> FALSE]

\* Rows an administrator may have added to a database of release d.
WithRows(d, session) ==
    [d EXCEPT
       !.nodes = 1 :> Node(7 \in d.applied, {"ping", "mtr"}, session) @@ 2 :> Node(FALSE, {"mtr"}, "none"),
       !.neighbors = IF 5 \in d.applied THEN 1 :> Neighbor(1, TRUE) @@ 2 :> Neighbor(2, FALSE) ELSE NoRows,
       !.rules = 1 :> None @@ 2 :> 1,
       !.audit = 1 :> [user |-> 1, node |-> 1]]

Legacy == [WithRows(LeftBy[15], "columns") EXCEPT !.schema = LegacySchema(15)]

\* The administrator has changed address and password.
Renamed(d) == [d EXCEPT !.users = 1 :> [email |-> "own", hash |-> "chosen"]]

Databases == {NoDatabase, WithRows(LeftBy[4], "none"), Renamed(WithRows(LeftBy[16], "config")),
              Legacy, WithRows(LeftBy[19], "none"), LeftBy[21]}
ThreeReleases == <<19, 20, 21>>

\* The configuration is missing with the database, or an operator removes it.
MCInit ==
    /\ DeployInit
    /\ subject \in {"upgrade", "update"}
    /\ latest = (IF subject = "upgrade" THEN 3 ELSE 1)
    /\ subject = "upgrade" => db # LeftBy[21] /\ (config \/ db = NoDatabase)
    /\ subject = "update" => db = WithRows(LeftBy[19], "none") /\ config

\* The switch of the panel matters to updates.
MCNext ==
    /\ DeployNext /\ UNCHANGED subject
    /\ subject = "upgrade" =>
         /\ update' = update /\ status' = status
         /\ changes' # changes => account' # account
    /\ subject = "update" =>
         /\ ~updatesOverlapped     \* nothing is claimed from there on
         /\ proc'["bootstrap"] = Off /\ proc'["server"].env = None /\ config'
         /\ account' = None /\ starts' <= 2
         /\ update' # update \/ status' \in {None, status} \/ latest = 1
\* Content of files that are neither named nor open is lost.
MCView ==
    <<db, config, proc, exe, tmp, [f \in InUse |-> file[f]], update, latest, status, bgp, account,
      bounds, histories, subject>>
MCSpec == MCInit /\ [][MCNext]_<<deployVars, subject>>
=============================================================================
