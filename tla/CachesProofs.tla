---------------------------- MODULE CachesProofs ----------------------------
(***************************************************************************)
(* Theorems about what the server keeps beside its tables: SiteContent's     *)
(* caches, logo and human check, for any editors, texts, items and bounds,   *)
(* and GeoDatabases' files, readers and credentials, for any intervals,      *)
(* lookups, administrators and bounds.                                       *)
(*                                                                         *)
(* Turns says who is at work on a table: one request, unless the table had a *)
(* mishap, and one that is alone has it to itself. Shown and Ordered say what *)
(* such a request has left to do. Newest says which readers a cycle of       *)
(* downloads has still to open; Credentials what a request has still to      *)
(* write; Fresh where on the ticker's grid a cycle began, and which files    *)
(* are recent since.                                                         *)
(***************************************************************************)
EXTENDS SiteContent, GeoDatabases, TLAPS

SiteKeys == {"site_name", "logo_path", "site_key", "secret", "hostnames", "cleared"}

AtWork(e) == edit[e].pc # "idle"

\* The shape of the state.
SiteShape ==
    /\ DOMAIN site = SiteKeys
    /\ DOMAIN items = Lists
    /\ DOMAIN public = SiteTables
    /\ DOMAIN settled = SiteTables
    /\ edit = [e \in Editors |-> edit[e]]
    /\ \A e \in Editors :
          /\ DOMAIN edit[e] = DOMAIN NoEdit
          /\ edit[e].table \in SiteTables
          /\ edit[e].alone \in BOOLEAN
          /\ edit[e].pc \in {"loaded", "create"} => edit[e].table = "settings"

Turns ==
    /\ \A e, f \in Editors :
          /\ AtWork(e) /\ AtWork(f) /\ edit[e].table = edit[f].table
          /\ edit[e].alone \/ edit[e].table \notin mishap
          => e = f
    /\ \A e \in Editors : AtWork(e) =>
          /\ settled[edit[e].table] = "none" /\ edit[e].op # "none"
          /\ edit[e].table \notin mishap => edit[e].alone
    /\ \A t \in SiteTables :
          t \notin mishap /\ settled[t] = "none" => \E e \in Editors : AtWork(e) /\ edit[e].table = t

\* What visitors are shown, or are about to be.
Shown ==
    /\ \A t \in SiteTables : settled[t] # "none" => public[t] = View(t)
    /\ \A e \in Editors, t \in SiteTables :
          edit[e].pc = "store" /\ edit[e].alone /\ edit[e].table = t => edit[e].seen = View(t)

\* The settings when request e has written what it still has to write.
AfterAll(e) ==
    [k \in SiteKeys |-> IF edit[e].pc = "write" /\ k \in DOMAIN edit[e].todo THEN edit[e].todo[k] ELSE site[k]]

\* The human check is off, or has all its parts.
CheckWhole(values) ==
    \/ values.cleared = "1"
    \/ values.site_key = "" /\ values.secret = ""
    \/ values.site_key # "" /\ values.secret # "" /\ values.hostnames # ""

LogoThere(values) == values.logo_path \in logos \cup {""}

\* What holds of a request on the settings: nothing went wrong and what it
\* leaves is whole, or at least the part it is there to change.
Orderly(e) ==
    /\ (edit[e].alone /\ edit[e].op = "check") \/ "settings" \notin mishap => CheckWhole(AfterAll(e))
    /\ (edit[e].alone /\ edit[e].op = "upload") \/ "settings" \notin mishap =>
          edit[e].pc = "create" \/ LogoThere(AfterAll(e))
    /\ edit[e].pc = "loaded" /\ "settings" \notin mishap => edit[e].todo.logo_path = site.logo_path
    /\ edit[e].pc = "loaded" => edit[e].op = "save"
    /\ edit[e].pc = "create" => edit[e].op = "upload" /\ DOMAIN edit[e].todo = {"logo_path"}

Ordered ==
    /\ \A e \in Editors : AtWork(e) /\ edit[e].table = "settings" => Orderly(e)
    /\ settled["settings"] = "check" \/ ("settings" \notin mishap /\ settled["settings"] # "none") => CheckWhole(site)
    /\ settled["settings"] = "upload" \/ ("settings" \notin mishap /\ settled["settings"] # "none") => LogoThere(site)

SiteInv == SiteShape /\ Turns /\ Shown /\ Ordered

\* The tables and caches keep their keys.
KeysKept == DOMAIN site' = SiteKeys /\ DOMAIN items' = Lists /\ DOMAIN public' = SiteTables

LEMMA IdleEdit == NoEdit.pc = "idle" /\ NoEdit.table \in SiteTables /\ NoEdit.alone \in BOOLEAN
BY DEF NoEdit, SiteTables

LEMMA InitSiteInv == SiteInit => SiteInv
<1> SUFFICES ASSUME SiteInit PROVE SiteInv
  OBVIOUS
<1>1. \A e \in Editors : edit[e] = NoEdit /\ ~AtWork(e)
  BY IdleEdit DEF SiteInit, AtWork
<1>2. SiteShape
  BY <1>1, IdleEdit DEF SiteInit, SiteShape, SiteKeys, AtWork
<1>3. \A t \in SiteTables : settled[t] = "load" /\ public[t] = View(t)
  BY DEF SiteInit
<1>4. Turns
  BY <1>1, <1>3 DEF Turns
<1>5. Shown
  BY <1>1, <1>3 DEF Shown, AtWork
<1>6. CheckWhole(site) /\ LogoThere(site)
  BY DEF SiteInit, CheckWhole, LogoThere
<1> QED BY <1>1, <1>2, <1>4, <1>5, <1>6 DEF SiteInv, Ordered

-----------------------------------------------------------------------------
(* A request begins, goes on, fails and is answered.                         *)

LEMMA BeginTurns ==
    ASSUME SiteShape, Turns, NEW e \in Editors, NEW request, DOMAIN request = DOMAIN NoEdit,
           request.pc # "idle", request.op # "none", request.table \in SiteTables,
           request.pc \in {"loaded", "create"} => request.table = "settings",
           Begin(e, request), KeysKept
    PROVE  /\ SiteShape' /\ Turns'
           /\ edit'[e] = [request EXCEPT !.alone = Busy(request.table) = {}]
           /\ \A f \in Editors \ {e} :
                edit'[f] = [edit[f] EXCEPT !.alone = edit[f].alone /\ f \notin Busy(request.table)]
<1> DEFINE t == request.table
<1>1. /\ edit[e].pc = "idle"
      /\ edit' = [x \in Editors |->
                     IF x = e THEN [request EXCEPT !.alone = Busy(t) = {}]
                     ELSE [edit[x] EXCEPT !.alone = @ /\ x \notin Busy(t)]]
      /\ settled' = [settled EXCEPT ![t] = "none"]
      /\ mishap' = mishap \cup {x \in {t} : Busy(t) # {}}
  BY DEF Begin
<1>2. /\ edit'[e] = [request EXCEPT !.alone = Busy(t) = {}]
      /\ \A f \in Editors \ {e} : edit'[f] = [edit[f] EXCEPT !.alone = edit[f].alone /\ f \notin Busy(t)]
  BY <1>1
<1>3. /\ edit'[e].pc = request.pc /\ edit'[e].op = request.op /\ edit'[e].table = t
      /\ edit'[e].alone = (Busy(t) = {})
      /\ DOMAIN edit'[e] = DOMAIN NoEdit
  BY <1>2 DEF NoEdit
<1>4. ASSUME NEW f \in Editors \ {e}
      PROVE  /\ edit'[f].pc = edit[f].pc /\ edit'[f].op = edit[f].op
             /\ edit'[f].table = edit[f].table
             /\ edit'[f].alone = (edit[f].alone /\ f \notin Busy(t))
             /\ DOMAIN edit'[f] = DOMAIN NoEdit
  <2> DEFINE b == edit[f].alone /\ f \notin Busy(t)
  <2>1. DOMAIN edit[f] = DOMAIN NoEdit
    BY DEF SiteShape
  <2>2. edit'[f] = [edit[f] EXCEPT !.alone = b]
    BY <1>2
  <2> HIDE DEF b
  <2>3. /\ edit'[f].pc = edit[f].pc /\ edit'[f].op = edit[f].op
        /\ edit'[f].table = edit[f].table /\ edit'[f].alone = b
        /\ DOMAIN edit'[f] = DOMAIN NoEdit
    BY <2>1, <2>2 DEF NoEdit
  <2> QED BY <2>3 DEF b
<1> HIDE DEF t
<1>5. SiteShape'
  <2>1. DOMAIN settled' = SiteTables
    BY <1>1 DEF SiteShape
  <2>2. edit' = [x \in Editors |-> edit'[x]]
    BY <1>1
  <2>3. ASSUME NEW f \in Editors
        PROVE  /\ DOMAIN edit'[f] = DOMAIN NoEdit
               /\ edit'[f].table \in SiteTables
               /\ edit'[f].alone \in BOOLEAN
               /\ edit'[f].pc \in {"loaded", "create"} => edit'[f].table = "settings"
    <3>1. CASE f = e
      BY <1>3, <3>1 DEF t
    <3>2. CASE f # e
      BY <1>4, <3>2 DEF SiteShape
    <3> QED BY <3>1, <3>2
  <2> QED BY <2>1, <2>2, <2>3 DEF SiteShape, KeysKept
<1>6. t \notin mishap' => Busy(t) = {} /\ t \notin mishap
  BY <1>1
<1>7. settled'[t] = "none" /\ \A x \in SiteTables \ {t} : settled'[x] = settled[x] /\ (x \in mishap' <=> x \in mishap)
  <2>1. settled' = [settled EXCEPT ![t] = "none"] /\ t \in SiteTables /\ DOMAIN settled = SiteTables
    BY <1>1 DEF SiteShape, t
  <2>2. \A x \in SiteTables \ {t} : x \in mishap' <=> x \in mishap
    BY <1>1
  <2> QED BY <2>1, <2>2
<1>8. \A f \in Editors : f \in Busy(t) <=> AtWork(f) /\ edit[f].table = t
  BY DEF Busy, AtWork
<1>9. AtWork(e)' /\ ~AtWork(e) /\ \A f \in Editors \ {e} : AtWork(f)' <=> AtWork(f)
  BY <1>1, <1>3, <1>4 DEF AtWork
<1>10. Turns'
  <2>1. ASSUME NEW f \in Editors, NEW g \in Editors, AtWork(f)', AtWork(g)',
               edit'[f].table = edit'[g].table, edit'[f].alone \/ edit'[f].table \notin mishap'
        PROVE  f = g
    <3>1. CASE edit'[f].table = t
      <4>1. \A x \in Editors \ {e} : AtWork(x)' /\ edit'[x].table = t => x \in Busy(t) /\ ~edit'[x].alone
        BY <1>4, <1>8, <1>9
      <4>2. CASE f = e /\ g = e
        BY <4>2
      <4>3. CASE f # e
        BY <1>6, <2>1, <3>1, <4>1, <4>3
      <4>4. CASE f = e /\ g # e
        <5>1. Busy(t) # {}
          BY <2>1, <3>1, <4>1, <4>4
        <5> QED BY <1>3, <1>6, <2>1, <3>1, <4>4, <5>1
      <4> QED BY <4>2, <4>3, <4>4
    <3>2. CASE edit'[f].table # t
      <4>1. f # e /\ g # e
        BY <1>3, <2>1, <3>2
      <4>2. edit[f].table \notin mishap' => edit[f].table \notin mishap
        BY <1>1
      <4>3. /\ AtWork(f) /\ AtWork(g) /\ edit[f].table = edit[g].table
            /\ edit[f].alone \/ edit[f].table \notin mishap
        <5>1. AtWork(f) /\ AtWork(g)
          BY <1>9, <2>1, <4>1
        <5>2. edit[f].table = edit[g].table /\ edit'[f].table = edit[f].table
          BY <1>4, <2>1, <4>1
        <5>3. edit'[f].alone => edit[f].alone
          BY <1>4, <4>1
        <5> QED BY <2>1, <4>2, <5>1, <5>2, <5>3
      <4> QED BY <4>3 DEF Turns
    <3> QED BY <3>1, <3>2
  <2>2. ASSUME NEW f \in Editors, AtWork(f)'
        PROVE  /\ settled'[edit'[f].table] = "none" /\ edit'[f].op # "none"
               /\ edit'[f].table \notin mishap' => edit'[f].alone
    <3>1. CASE f = e
      BY <1>3, <1>6, <1>7, <3>1 DEF t
    <3>2. CASE f # e
      <4>1. AtWork(f) /\ edit'[f].table = edit[f].table /\ edit[f].table \in SiteTables
        BY <1>4, <1>9, <2>2, <3>2 DEF SiteShape
      <4>2. settled'[edit[f].table] = "none"
        BY <1>7, <4>1 DEF Turns
      <4>3. ASSUME edit[f].table \notin mishap' PROVE edit'[f].alone
        <5>1. edit[f].table \notin mishap
          BY <1>1, <4>3
        <5>2. edit[f].alone
          BY <4>1, <5>1 DEF Turns
        <5>3. f \notin Busy(t)
          <6>1. CASE edit[f].table = t
            BY <1>6, <4>1, <4>3, <6>1
          <6>2. CASE edit[f].table # t
            BY <1>8, <6>2
          <6> QED BY <6>1, <6>2
        <5>4. edit'[f].alone = (edit[f].alone /\ f \notin Busy(t))
          BY <1>4, <3>2
        <5> QED BY <5>2, <5>3, <5>4
      <4>4. edit'[f].op # "none"
        BY <1>4, <3>2, <4>1 DEF Turns
      <4> QED BY <4>1, <4>2, <4>3, <4>4
    <3> QED BY <3>1, <3>2
  <2>3. ASSUME NEW x \in SiteTables, x \notin mishap', settled'[x] = "none"
        PROVE  \E f \in Editors : AtWork(f)' /\ edit'[f].table = x
    <3>1. CASE x = t
      BY <1>3, <1>9, <3>1
    <3>2. CASE x # t
      <4>1. PICK f \in Editors : AtWork(f) /\ edit[f].table = x
        BY <1>7, <2>3, <3>2 DEF Turns
      <4>2. f # e
        BY <1>9, <4>1
      <4> QED BY <1>4, <1>9, <4>1, <4>2
    <3> QED BY <3>1, <3>2
  <2> QED BY <2>1, <2>2, <2>3 DEF Turns
<1> QED BY <1>2, <1>5, <1>10 DEF t

LEMMA MoveTurns ==
    ASSUME SiteShape, Turns, NEW e \in Editors, AtWork(e), NEW q, DOMAIN q = DOMAIN NoEdit,
           q.table = edit[e].table, q.alone = edit[e].alone, q.op = edit[e].op,
           q.pc \notin {"idle", "loaded", "create"}, edit' = [edit EXCEPT ![e] = q],
           UNCHANGED siteHistory, KeysKept
    PROVE  /\ SiteShape' /\ Turns'
           /\ edit'[e] = q /\ \A f \in Editors \ {e} : edit'[f] = edit[f]
<1>1. edit'[e] = q /\ \A f \in Editors \ {e} : edit'[f] = edit[f]
  BY DEF SiteShape
<1>2. SiteShape'
  BY <1>1 DEF SiteShape, KeysKept, siteHistory
<1>3. \A f \in Editors : /\ AtWork(f)' <=> AtWork(f)
                         /\ edit'[f].table = edit[f].table /\ edit'[f].alone = edit[f].alone
                         /\ edit'[f].op = edit[f].op
  BY <1>1 DEF AtWork
<1>4. Turns'
  BY <1>3 DEF Turns, siteHistory
<1> QED BY <1>1, <1>2, <1>4

LEMMA FailTurns ==
    ASSUME SiteShape, Turns, NEW e \in Editors, AtWork(e), edit' = [edit EXCEPT ![e] = NoEdit],
           mishap' = mishap \cup {edit[e].table}, UNCHANGED settled, KeysKept
    PROVE  /\ SiteShape' /\ Turns'
           /\ edit'[e] = NoEdit /\ \A f \in Editors \ {e} : edit'[f] = edit[f]
<1>1. edit'[e] = NoEdit /\ \A f \in Editors \ {e} : edit'[f] = edit[f]
  BY DEF SiteShape
<1>2. SiteShape'
  BY <1>1, IdleEdit DEF SiteShape, KeysKept
<1>3. ~AtWork(e)' /\ \A f \in Editors \ {e} : AtWork(f)' <=> AtWork(f)
  BY <1>1, IdleEdit DEF AtWork
<1>4. \A x : x \notin mishap' => x \notin mishap /\ x # edit[e].table
  OBVIOUS
<1>5. Turns'
  BY <1>1, <1>3, <1>4 DEF Turns
<1> QED BY <1>1, <1>2, <1>5

LEMMA AnswerTurns ==
    ASSUME SiteShape, Turns, NEW e \in Editors, AtWork(e), Answer(e), KeysKept
    PROVE  /\ SiteShape' /\ Turns'
           /\ edit'[e] = NoEdit /\ \A f \in Editors \ {e} : edit'[f] = edit[f]
           /\ edit[e].alone => settled'[edit[e].table] = edit[e].op
           /\ ~edit[e].alone => settled' = settled
           /\ \A t \in SiteTables \ {edit[e].table} : settled'[t] = settled[t]
<1> DEFINE t == edit[e].table
<1>1. edit'[e] = NoEdit /\ (\A f \in Editors \ {e} : edit'[f] = edit[f]) /\ mishap' = mishap
  BY DEF SiteShape, Answer
<1>2. /\ DOMAIN settled' = SiteTables
      /\ edit[e].alone => settled'[t] = edit[e].op
      /\ ~edit[e].alone => settled' = settled
      /\ \A x \in SiteTables \ {t} : settled'[x] = settled[x]
  BY DEF SiteShape, Answer
<1>3. SiteShape'
  BY <1>1, <1>2, IdleEdit DEF SiteShape, KeysKept, Answer
<1>4. ~AtWork(e)' /\ \A f \in Editors \ {e} : AtWork(f)' <=> AtWork(f)
  BY <1>1, IdleEdit DEF AtWork
<1>5. \A f \in Editors \ {e} : AtWork(f) /\ edit[e].alone => edit[f].table # t
  BY DEF Turns
<1>6. t \in SiteTables /\ (t \notin mishap => edit[e].alone) /\ edit[e].op # "none"
  BY DEF SiteShape, Turns
<1>7. Turns'
  <2>1. ASSUME NEW f \in Editors \ {e}, AtWork(f)
        PROVE  settled'[edit[f].table] = "none"
    BY <1>2, <1>5, <2>1 DEF SiteShape, Turns
  <2>2. ASSUME NEW x \in SiteTables, x \notin mishap, settled'[x] = "none"
        PROVE  \E f \in Editors \ {e} : AtWork(f) /\ edit[f].table = x
    <3>1. x # t
      BY <1>2, <1>6, <2>2
    <3> QED BY <1>2, <2>2, <3>1 DEF Turns
  <2> QED BY <1>1, <1>4, <2>1, <2>2 DEF Turns
<1> QED BY <1>1, <1>2, <1>3, <1>7
-----------------------------------------------------------------------------
(* What visitors are shown.                                                  *)

LEMMA ViewsApart ==
    /\ site' = site /\ logos' = logos => View("settings")' = View("settings")
    /\ items' = items => \A t \in Lists : View(t)' = View(t)
BY DEF View, SettingsView, ListView, Lists

\* A step of a request on table t, which is not settled after it.
LEMMA ShownKept ==
    ASSUME SiteShape, Shown, NEW t \in SiteTables, public' = public, settled'[t] = "none",
           \A x \in SiteTables \ {t} : settled'[x] = settled[x] /\ View(x)' = View(x),
           \A f \in Editors, u \in SiteTables :
              edit'[f].pc = "store" /\ edit'[f].alone /\ edit'[f].table = u =>
              \/ edit'[f].seen = View(u)'
              \/ /\ edit[f].pc = "store" /\ edit[f].alone /\ edit[f].table = u /\ u # t
                 /\ edit'[f].seen = edit[f].seen,
           SiteShape'
    PROVE  Shown'
<1>1. ASSUME NEW x \in SiteTables, settled'[x] # "none" PROVE public'[x] = View(x)'
  <2>1. x # t
    BY <1>1
  <2>2. settled[x] # "none" /\ View(x)' = View(x)
    BY <1>1, <2>1
  <2> QED BY <2>2 DEF Shown
<1>2. ASSUME NEW f \in Editors, NEW u \in SiteTables,
             edit'[f].pc = "store", edit'[f].alone, edit'[f].table = u
      PROVE  edit'[f].seen = View(u)'
  <2>1. CASE edit'[f].seen = View(u)'
    BY <2>1
  <2>2. CASE /\ edit[f].pc = "store" /\ edit[f].alone /\ edit[f].table = u /\ u # t
             /\ edit'[f].seen = edit[f].seen
    <3>1. View(u)' = View(u)
      BY <2>2
    <3>2. edit[f].seen = View(u)
      BY <2>2 DEF Shown
    <3> QED BY <2>2, <3>1, <3>2
  <2> QED BY <1>2, <2>1, <2>2
<1>3. \A f \in Editors : edit'[f].table \in SiteTables
  BY DEF SiteShape
<1> QED BY <1>1, <1>2, <1>3 DEF Shown
-----------------------------------------------------------------------------
(* Requests on the settings, and what they leave.                            *)

\* A request that another's step does not touch, unless it is known to be harmed.
LEMMA OrderlyKept ==
    ASSUME NEW f \in Editors, Orderly(f),
           edit'[f].pc = edit[f].pc, edit'[f].op = edit[f].op, edit'[f].todo = edit[f].todo,
           edit'[f].alone \/ "settings" \notin mishap' =>
              /\ site' = site /\ logos' = logos
              /\ "settings" \notin mishap' => "settings" \notin mishap
              /\ edit'[f].alone => edit[f].alone
    PROVE  Orderly(f)'
<1>1. CASE edit'[f].alone \/ "settings" \notin mishap'
  <2>1. AfterAll(f)' = AfterAll(f) /\ (CheckWhole(AfterAll(f))' <=> CheckWhole(AfterAll(f)))
        /\ (LogoThere(AfterAll(f))' <=> LogoThere(AfterAll(f)))
    BY <1>1 DEF AfterAll, CheckWhole, LogoThere
  <2> QED BY <1>1, <2>1 DEF Orderly
<1>2. CASE ~(edit'[f].alone \/ "settings" \notin mishap')
  BY <1>2 DEF Orderly
<1> QED BY <1>1, <1>2

\* Settings nobody works on and nothing happened to are in order.
LEMMA Undisturbed ==
    ASSUME SiteInv, "settings" \notin mishap, Busy("settings") = {}
    PROVE  CheckWhole(site) /\ LogoThere(site)
<1>1. settled["settings"] # "none"
  BY DEF SiteInv, Turns, Busy, AtWork, SiteTables
<1> QED BY <1>1 DEF SiteInv, Ordered

LEMMA BeginKeeps ==
    ASSUME SiteInv, NEW e \in Editors, NEW request, DOMAIN request = DOMAIN NoEdit,
           request.pc \notin {"idle", "store"}, request.op # "none", request.table \in SiteTables,
           request.pc \in {"loaded", "create"} => request.table = "settings",
           Begin(e, request), KeysKept, public' = public,
           \A x \in SiteTables \ {request.table} : View(x)' = View(x),
           request.table # "settings" => site' = site /\ logos' = logos,
           request.table = "settings" => Orderly(e)'
    PROVE  SiteInv'
<1> DEFINE t == request.table
<1>1. SiteShape /\ Turns /\ Shown /\ Ordered
  BY DEF SiteInv
<1>2. /\ SiteShape' /\ Turns'
      /\ edit'[e] = [request EXCEPT !.alone = Busy(t) = {}]
      /\ \A f \in Editors \ {e} :
            edit'[f] = [edit[f] EXCEPT !.alone = edit[f].alone /\ f \notin Busy(t)]
  BY <1>1, BeginTurns
<1>3. edit'[e].pc = request.pc /\ edit'[e].table = t
  BY <1>2 DEF NoEdit
<1>4. ASSUME NEW f \in Editors \ {e}
      PROVE  /\ edit'[f].pc = edit[f].pc /\ edit'[f].op = edit[f].op
             /\ edit'[f].table = edit[f].table /\ edit'[f].todo = edit[f].todo
             /\ edit'[f].seen = edit[f].seen
             /\ edit'[f].alone => edit[f].alone /\ f \notin Busy(t)
  <2> DEFINE b == edit[f].alone /\ f \notin Busy(t)
  <2>1. DOMAIN edit[f] = DOMAIN NoEdit /\ edit'[f] = [edit[f] EXCEPT !.alone = b]
    BY <1>1, <1>2 DEF SiteShape
  <2> HIDE DEF b
  <2>2. /\ edit'[f].pc = edit[f].pc /\ edit'[f].op = edit[f].op
        /\ edit'[f].table = edit[f].table /\ edit'[f].todo = edit[f].todo
        /\ edit'[f].seen = edit[f].seen /\ edit'[f].alone = b
    BY <2>1 DEF NoEdit
  <2> QED BY <2>2 DEF b
<1>5. t \in SiteTables /\ settled' = [settled EXCEPT ![t] = "none"]
      /\ mishap' = mishap \cup {x \in {t} : Busy(t) # {}}
  BY DEF Begin
<1>6. settled'[t] = "none" /\ \A x \in SiteTables \ {t} : settled'[x] = settled[x]
  BY <1>1, <1>5 DEF SiteShape
<1>7. Shown'
  <2>1. ASSUME NEW f \in Editors, NEW u \in SiteTables,
               edit'[f].pc = "store", edit'[f].alone, edit'[f].table = u
        PROVE  /\ edit[f].pc = "store" /\ edit[f].alone /\ edit[f].table = u /\ u # t
               /\ edit'[f].seen = edit[f].seen
    <3>1. f # e
      BY <1>3, <2>1
    <3> QED BY <1>4, <2>1, <3>1 DEF Busy
  <2> HIDE DEF t
  <2> QED BY <1>1, <1>2, <1>5, <1>6, <2>1, ShownKept DEF t
<1>8. Ordered'
  <2>1. ASSUME NEW f \in Editors \ {e}, AtWork(f)', edit'[f].table = "settings"
        PROVE  Orderly(f)'
    <3>1. Orderly(f)
      BY <1>1, <1>4, <2>1 DEF AtWork, Ordered
    <3>2. CASE t = "settings"
      <4>1. ~(edit'[f].alone \/ "settings" \notin mishap')
        <5>1. AtWork(e)' /\ edit'[e].table = edit'[f].table
          BY <1>3, <2>1, <3>2 DEF AtWork
        <5>2. edit'[f].alone \/ edit'[f].table \notin mishap' => f = e
          BY <1>2, <2>1, <5>1 DEF Turns
        <5> QED BY <2>1, <5>2
      <4> QED BY <1>4, <3>1, <4>1, OrderlyKept
    <3>3. CASE t # "settings"
      <4>1. "settings" \notin mishap' => "settings" \notin mishap
        BY <1>5
      <4> QED BY <1>4, <3>1, <3>3, <4>1, OrderlyKept
    <3> QED BY <3>2, <3>3
  <2>2. ASSUME AtWork(e)', edit'[e].table = "settings" PROVE Orderly(e)'
    BY <1>3, <2>2
  <2>3. CASE t = "settings"
    BY <1>6, <2>1, <2>2, <2>3 DEF Ordered
  <2>4. CASE t # "settings"
    <3>1. settled'["settings"] = settled["settings"]
          /\ ("settings" \notin mishap' => "settings" \notin mishap)
      BY <1>5, <1>6, <2>4 DEF SiteTables
    <3>2. (CheckWhole(site)' <=> CheckWhole(site)) /\ (LogoThere(site)' <=> LogoThere(site))
      BY <2>4 DEF CheckWhole, LogoThere
    <3> QED BY <1>1, <2>1, <2>2, <3>1, <3>2 DEF Ordered
  <2> QED BY <2>3, <2>4
<1> QED BY <1>2, <1>7, <1>8 DEF SiteInv

LEMMA MoveKeeps ==
    ASSUME SiteInv, NEW e \in Editors, AtWork(e), NEW q, DOMAIN q = DOMAIN NoEdit,
           q.table = edit[e].table, q.alone = edit[e].alone, q.op = edit[e].op,
           q.pc \notin {"idle", "loaded", "create"}, edit' = [edit EXCEPT ![e] = q],
           UNCHANGED siteHistory, KeysKept, public' = public,
           \A x \in SiteTables \ {edit[e].table} : View(x)' = View(x),
           \A x \in SiteTables : q.pc = "store" /\ edit[e].table = x => q.seen = View(x)',
           edit[e].table # "settings" => site' = site /\ logos' = logos,
           edit[e].table = "settings" => Orderly(e)'
    PROVE  SiteInv'
<1> DEFINE t == edit[e].table
<1>1. SiteShape /\ Turns /\ Shown /\ Ordered
  BY DEF SiteInv
<1>2. /\ SiteShape' /\ Turns'
      /\ edit'[e] = q /\ \A f \in Editors \ {e} : edit'[f] = edit[f]
  BY <1>1, MoveTurns
<1>3. t \in SiteTables /\ settled' = settled /\ mishap' = mishap /\ settled[t] = "none"
  BY <1>1 DEF siteHistory, Turns, SiteShape
<1>4. \A f \in Editors \ {e} : AtWork(f) /\ edit[f].table = t => ~edit[f].alone /\ t \in mishap
  BY <1>1 DEF Turns
<1>5. Shown'
  <2>1. ASSUME NEW f \in Editors, NEW u \in SiteTables,
               edit'[f].pc = "store", edit'[f].alone, edit'[f].table = u
        PROVE  \/ edit'[f].seen = View(u)'
               \/ /\ edit[f].pc = "store" /\ edit[f].alone /\ edit[f].table = u /\ u # t
                  /\ edit'[f].seen = edit[f].seen
    <3>1. CASE f = e
      BY <1>2, <2>1, <3>1
    <3>2. CASE f # e
      BY <1>2, <1>4, <2>1, <3>2 DEF AtWork
    <3> QED BY <3>1, <3>2
  <2> QED BY <1>1, <1>2, <1>3, <2>1, ShownKept
<1>6. Ordered'
  <2>1. ASSUME NEW f \in Editors \ {e}, AtWork(f)', edit'[f].table = "settings"
        PROVE  Orderly(f)'
    <3>1. Orderly(f) /\ AtWork(f) /\ edit[f].table = "settings"
      BY <1>1, <1>2, <2>1 DEF AtWork, Ordered
    <3>2. edit'[f].alone \/ "settings" \notin mishap' => t # "settings"
      BY <1>2, <1>3, <1>4, <3>1
    <3> QED BY <1>2, <1>3, <3>1, <3>2, OrderlyKept
  <2>2. ASSUME edit'[e].table = "settings" PROVE Orderly(e)'
    BY <1>2, <2>2
  <2>3. CASE t = "settings"
    BY <1>3, <2>1, <2>2, <2>3 DEF Ordered
  <2>4. CASE t # "settings"
    <3>1. (CheckWhole(site)' <=> CheckWhole(site)) /\ (LogoThere(site)' <=> LogoThere(site))
      BY <2>4 DEF CheckWhole, LogoThere
    <3> QED BY <1>1, <1>3, <2>1, <2>2, <3>1 DEF Ordered
  <2> QED BY <2>3, <2>4
<1> QED BY <1>2, <1>5, <1>6 DEF SiteInv

LEMMA FailKeeps ==
    ASSUME SiteInv, NEW e \in Editors, AtWork(e), edit' = [edit EXCEPT ![e] = NoEdit],
           mishap' = mishap \cup {edit[e].table}, UNCHANGED settled, KeysKept, public' = public,
           \A x \in SiteTables \ {edit[e].table} : View(x)' = View(x),
           edit[e].table # "settings" => site' = site /\ logos' = logos
    PROVE  SiteInv'
<1> DEFINE t == edit[e].table
<1>1. SiteShape /\ Turns /\ Shown /\ Ordered
  BY DEF SiteInv
<1>2. /\ SiteShape' /\ Turns'
      /\ edit'[e] = NoEdit /\ \A f \in Editors \ {e} : edit'[f] = edit[f]
  BY <1>1, FailTurns
<1>3. t \in SiteTables /\ settled[t] = "none"
  BY <1>1 DEF Turns, SiteShape
<1>4. \A f \in Editors \ {e} : AtWork(f) /\ edit[f].table = t => ~edit[f].alone
  BY <1>1 DEF Turns
<1>5. Shown'
  <2>1. ASSUME NEW f \in Editors, NEW u \in SiteTables,
               edit'[f].pc = "store", edit'[f].alone, edit'[f].table = u
        PROVE  /\ edit[f].pc = "store" /\ edit[f].alone /\ edit[f].table = u /\ u # t
               /\ edit'[f].seen = edit[f].seen
    <3>1. f # e
      BY <1>2, <2>1, IdleEdit
    <3> QED BY <1>2, <1>4, <2>1, <3>1 DEF AtWork
  <2> QED BY <1>1, <1>2, <1>3, <2>1, ShownKept
<1>6. Ordered'
  <2>1. ASSUME NEW f \in Editors, AtWork(f)', edit'[f].table = "settings"
        PROVE  Orderly(f)'
    <3>1. f # e
      BY <1>2, <2>1, IdleEdit DEF AtWork
    <3>2. Orderly(f) /\ AtWork(f) /\ edit[f].table = "settings" /\ edit'[f] = edit[f]
      BY <1>1, <1>2, <2>1, <3>1 DEF AtWork, Ordered
    <3>3. edit'[f].alone \/ "settings" \notin mishap' => t # "settings"
      BY <1>4, <3>1, <3>2
    <3> QED BY <3>2, <3>3, OrderlyKept
  <2>2. CASE t = "settings"
    BY <1>3, <2>1, <2>2 DEF Ordered
  <2>3. CASE t # "settings"
    <3>1. (CheckWhole(site)' <=> CheckWhole(site)) /\ (LogoThere(site)' <=> LogoThere(site))
      BY <2>3 DEF CheckWhole, LogoThere
    <3> QED BY <1>1, <1>3, <2>1, <3>1 DEF Ordered
  <2> QED BY <2>2, <2>3
<1> QED BY <1>2, <1>5, <1>6 DEF SiteInv

LEMMA AnswerKeeps ==
    ASSUME SiteInv, NEW e \in Editors, StoreRows(e)
    PROVE  SiteInv'
<1> DEFINE t == edit[e].table
<1>1. SiteShape /\ Turns /\ Shown /\ Ordered
  BY DEF SiteInv
<1>2. /\ edit[e].pc = "store" /\ AtWork(e) /\ Answer(e)
      /\ public' = [public EXCEPT ![t] = edit[e].seen]
      /\ site' = site /\ logos' = logos /\ items' = items /\ mishap' = mishap
  BY DEF StoreRows, Answer, AtWork
<1>3. KeysKept
  BY <1>1, <1>2 DEF KeysKept, SiteShape
<1>4. /\ SiteShape' /\ Turns'
      /\ edit'[e] = NoEdit /\ \A f \in Editors \ {e} : edit'[f] = edit[f]
      /\ edit[e].alone => settled'[t] = edit[e].op
      /\ ~edit[e].alone => settled' = settled
      /\ \A x \in SiteTables \ {t} : settled'[x] = settled[x]
  BY <1>1, <1>2, <1>3, AnswerTurns
<1>5. t \in SiteTables /\ settled[t] = "none" /\ (t \notin mishap => edit[e].alone)
  BY <1>1, <1>2 DEF Turns, SiteShape
<1>6. \A x \in SiteTables : View(x)' = View(x)
  BY <1>2, ViewsApart DEF SiteTables
<1>7. public'[t] = edit[e].seen /\ \A x \in SiteTables \ {t} : public'[x] = public[x]
  BY <1>1, <1>2, <1>5 DEF SiteShape
<1>8. edit[e].alone => edit[e].seen = View(t)
  BY <1>1, <1>2, <1>5 DEF Shown
<1> HIDE DEF t
<1>9. Shown'
  <2>1. ASSUME NEW x \in SiteTables, settled'[x] # "none" PROVE public'[x] = View(x)'
    <3>1. View(x)' = View(x)
      BY <1>6
    <3>2. CASE x = t
      BY <1>4, <1>5, <1>7, <1>8, <2>1, <3>1, <3>2
    <3>3. CASE x # t
      BY <1>1, <1>4, <1>7, <2>1, <3>1, <3>3 DEF Shown
    <3> QED BY <3>2, <3>3
  <2>2. ASSUME NEW f \in Editors, NEW x \in SiteTables,
               edit'[f].pc = "store", edit'[f].alone, edit'[f].table = x
        PROVE  edit'[f].seen = View(x)'
    <3>1. f # e
      BY <1>4, <2>2, IdleEdit
    <3>2. edit'[f] = edit[f] /\ View(x)' = View(x)
      BY <1>4, <1>6, <3>1
    <3> QED BY <1>1, <2>2, <3>2 DEF Shown
  <2> QED BY <2>1, <2>2 DEF Shown
<1>10. Ordered'
  <2>1. ASSUME NEW f \in Editors, AtWork(f)', edit'[f].table = "settings"
        PROVE  Orderly(f)'
    <3>1. f # e
      BY <1>4, <2>1, IdleEdit DEF AtWork
    <3>2. edit'[f] = edit[f]
      BY <1>4, <3>1
    <3>3. Orderly(f)
      BY <1>1, <2>1, <3>2 DEF Ordered, AtWork
    <3> QED BY <1>2, <3>2, <3>3, OrderlyKept
  <2>2. (CheckWhole(site)' <=> CheckWhole(site)) /\ (LogoThere(site)' <=> LogoThere(site))
    BY <1>2 DEF CheckWhole, LogoThere
  <2>3. CASE t # "settings"
    <3>1. settled'["settings"] = settled["settings"]
      BY <1>4, <2>3 DEF SiteTables
    <3> QED BY <1>1, <1>2, <2>1, <2>2, <3>1 DEF Ordered
  <2>4. CASE t = "settings" /\ ~edit[e].alone
    BY <1>2, <1>4, <1>5, <2>1, <2>4 DEF Ordered
  <2>5. CASE t = "settings" /\ edit[e].alone
    <3>1. Orderly(e)
      BY <1>1, <1>2, <2>5 DEF Ordered, t
    <3>2. /\ CheckWhole(AfterAll(e)) <=> CheckWhole(site)
          /\ LogoThere(AfterAll(e)) <=> LogoThere(site)
      BY <1>2 DEF AfterAll, CheckWhole, LogoThere, SiteKeys
    <3>3. settled'["settings"] = edit[e].op
      BY <1>4, <2>5
    <3> QED BY <1>2, <2>1, <2>2, <2>5, <3>1, <3>2, <3>3 DEF Ordered, Orderly
  <2> QED BY <2>3, <2>4, <2>5
<1> QED BY <1>4, <1>9, <1>10 DEF SiteInv

LEMMA LoadKeeps ==
    ASSUME SiteInv, Load
    PROVE  SiteInv'
<1>1. SiteShape /\ Turns /\ Shown /\ Ordered
  BY DEF SiteInv
<1>2. /\ public' = [t \in SiteTables |-> View(t)]
      /\ edit' = [e \in Editors |-> NoEdit]
      /\ settled' = [t \in SiteTables |-> "load"]
      /\ mishap' = mishap \cup {t \in SiteTables : Busy(t) # {}}
      /\ site' = site /\ logos' = logos /\ items' = items
  BY DEF Load
<1>3. \A e \in Editors : edit'[e] = NoEdit /\ ~AtWork(e)'
  BY <1>2, IdleEdit DEF AtWork
<1>4. SiteShape'
  BY <1>1, <1>2, <1>3, IdleEdit DEF SiteShape
<1>5. \A t \in SiteTables : settled'[t] = "load" /\ public'[t] = View(t) /\ View(t)' = View(t)
  BY <1>2, ViewsApart DEF SiteTables
<1>6. Turns'
  BY <1>3, <1>5 DEF Turns
<1>7. Shown'
  BY <1>3, <1>5, IdleEdit DEF Shown
<1>8. (CheckWhole(site)' <=> CheckWhole(site)) /\ (LogoThere(site)' <=> LogoThere(site))
  BY <1>2 DEF CheckWhole, LogoThere
<1>9. "settings" \notin mishap' => CheckWhole(site) /\ LogoThere(site)
  <2>1. "settings" \notin mishap' => "settings" \notin mishap /\ Busy("settings") = {}
    BY <1>2 DEF SiteTables
  <2> QED BY <2>1, Undisturbed
<1>10. Ordered'
  BY <1>3, <1>5, <1>8, <1>9 DEF Ordered, SiteTables
<1> QED BY <1>4, <1>6, <1>7, <1>10 DEF SiteInv

-----------------------------------------------------------------------------
(* Every step keeps the invariant: first the settings.                       *)

LEMMA Shape ==
    ASSUME SiteInv
    PROVE  /\ SiteShape /\ Turns
           /\ site' = site /\ items' = items /\ public' = public => KeysKept
BY DEF SiteInv, SiteShape, KeysKept

\* What a request on the settings begins with.
LEMMA BeginOnSettings ==
    ASSUME SiteInv, NEW e \in Editors, NEW request, DOMAIN request = DOMAIN NoEdit,
           request.pc \in {"loaded", "create", "write"}, request.op # "none", request.table = "settings",
           Begin(e, request), site' = site, items' = items, public' = public
    PROVE  /\ KeysKept
           /\ edit'[e].pc = request.pc /\ edit'[e].op = request.op /\ edit'[e].todo = request.todo
           /\ "settings" \notin mishap' => CheckWhole(site) /\ LogoThere(site)
           /\ Orderly(e)' => SiteInv'
<1>1. KeysKept /\ SiteShape /\ Turns
  BY Shape
<1>2. edit'[e] = [request EXCEPT !.alone = Busy("settings") = {}]
  BY <1>1, BeginTurns DEF SiteTables
<1>3. edit'[e].pc = request.pc /\ edit'[e].op = request.op /\ edit'[e].todo = request.todo
  BY <1>2 DEF NoEdit
<1>4. "settings" \notin mishap' => CheckWhole(site) /\ LogoThere(site)
  BY Undisturbed DEF Begin
<1>5. \A x \in SiteTables \ {request.table} : View(x)' = View(x)
  BY ViewsApart DEF SiteTables
<1>6. Orderly(e)' => SiteInv'
  BY <1>1, <1>5, BeginKeeps DEF SiteTables
<1> QED BY <1>1, <1>3, <1>4, <1>6

LEMMA LoadPanelKeeps == ASSUME SiteInv, NEW e \in Editors, LoadPanel(e) PROVE SiteInv'
<1> DEFINE r == [NoEdit EXCEPT !.pc = "loaded", !.op = "save", !.todo = [logo_path |-> site.logo_path]]
<1>1. Begin(e, r) /\ UNCHANGED <<site, logos, items, public>>
  BY DEF LoadPanel
<1>2. /\ DOMAIN r = DOMAIN NoEdit /\ r.pc = "loaded" /\ r.op = "save" /\ r.table = "settings"
      /\ r.todo = [logo_path |-> site.logo_path]
  BY DEF NoEdit
<1> HIDE DEF r
<1>3. /\ edit'[e].pc = "loaded" /\ edit'[e].op = "save" /\ edit'[e].todo = [logo_path |-> site.logo_path]
      /\ "settings" \notin mishap' => CheckWhole(site) /\ LogoThere(site)
      /\ Orderly(e)' => SiteInv'
  BY <1>1, <1>2, BeginOnSettings
<1>4. /\ CheckWhole(AfterAll(e))' <=> CheckWhole(site)
      /\ LogoThere(AfterAll(e))' <=> LogoThere(site)
  BY <1>1, <1>3 DEF AfterAll, CheckWhole, LogoThere, SiteKeys
<1>5. Orderly(e)'
  BY <1>1, <1>3, <1>4 DEF Orderly
<1> QED BY <1>3, <1>5

LEMMA BeginUploadKeeps == ASSUME SiteInv, NEW e \in Editors, BeginUpload(e) PROVE SiteInv'
<1>1. PICK x \in Extensions :
          /\ Begin(e, [NoEdit EXCEPT !.pc = "create", !.op = "upload", !.todo = [logo_path |-> x]])
          /\ UNCHANGED <<site, items, public>>
  BY DEF BeginUpload
<1> DEFINE r == [NoEdit EXCEPT !.pc = "create", !.op = "upload", !.todo = [logo_path |-> x]]
<1>2. /\ DOMAIN r = DOMAIN NoEdit /\ r.pc = "create" /\ r.op = "upload" /\ r.table = "settings"
      /\ r.todo = [logo_path |-> x] /\ Begin(e, r)
  BY <1>1 DEF NoEdit
<1> HIDE DEF r
<1>3. /\ edit'[e].pc = "create" /\ edit'[e].op = "upload" /\ edit'[e].todo = [logo_path |-> x]
      /\ "settings" \notin mishap' => CheckWhole(site)
      /\ Orderly(e)' => SiteInv'
  BY <1>1, <1>2, BeginOnSettings
<1>4. CheckWhole(AfterAll(e))' <=> CheckWhole(site)
  BY <1>1, <1>3 DEF AfterAll, CheckWhole, SiteKeys
<1>5. Orderly(e)'
  BY <1>3, <1>4 DEF Orderly
<1> QED BY <1>3, <1>5

\* What a check writes leaves it whole, with what is stored of the rest.
LEMMA RowsAreWhole ==
    ASSUME NEW req \in CheckRequests, NEW rows \in CheckFromUpdate(req, site)
    PROVE  /\ "logo_path" \notin DOMAIN rows
           /\ CheckWhole([k \in SiteKeys |-> IF k \in DOMAIN rows THEN rows[k] ELSE site[k]])
<1> DEFINE after == [k \in SiteKeys |-> IF k \in DOMAIN rows THEN rows[k] ELSE site[k]]
<1>1. CASE rows = [site_key |-> "", secret |-> "", hostnames |-> "", cleared |-> "1"]
  <2>1. DOMAIN rows = {"site_key", "secret", "hostnames", "cleared"} /\ rows["cleared"] = "1"
    BY <1>1
  <2> QED BY <2>1 DEF CheckWhole, SiteKeys
<1>2. CASE /\ rows = CheckRows(req) /\ req.site_key # "" /\ req.hostnames # ""
           /\ (IF req.secret = "" THEN site.secret ELSE req.secret) # ""
  <2>1. DOMAIN rows = {"site_key", "hostnames", "cleared"} \cup (IF req.secret = "" THEN {} ELSE {"secret"})
    BY <1>2 DEF CheckRows
  <2>2. rows["site_key"] = req.site_key /\ rows["hostnames"] = req.hostnames
        /\ (req.secret # "" => rows["secret"] = req.secret)
    BY <1>2 DEF CheckRows
  <2>3. after.site_key # "" /\ after.hostnames # "" /\ after.secret # ""
    BY <1>2, <2>1, <2>2 DEF SiteKeys
  <2> QED BY <2>1, <2>3 DEF CheckWhole
<1> QED BY <1>1, <1>2 DEF CheckFromUpdate

LEMMA UpdateTurnstileKeeps == ASSUME SiteInv, NEW e \in Editors, UpdateTurnstile(e) PROVE SiteInv'
<1>1. PICK req \in CheckRequests : \E rows \in CheckFromUpdate(req, site) :
          Begin(e, [NoEdit EXCEPT !.pc = "write", !.op = "check", !.todo = rows])
  BY DEF UpdateTurnstile
<1>2. PICK rows \in CheckFromUpdate(req, site) :
          Begin(e, [NoEdit EXCEPT !.pc = "write", !.op = "check", !.todo = rows])
  BY <1>1
<1> DEFINE r == [NoEdit EXCEPT !.pc = "write", !.op = "check", !.todo = rows]
<1>3. /\ DOMAIN r = DOMAIN NoEdit /\ r.pc = "write" /\ r.op = "check" /\ r.table = "settings"
      /\ r.todo = rows /\ Begin(e, r)
  BY <1>2 DEF NoEdit
<1> HIDE DEF r
<1>4. UNCHANGED <<site, logos, items, public>>
  BY DEF UpdateTurnstile
<1>5. /\ edit'[e].pc = "write" /\ edit'[e].op = "check" /\ edit'[e].todo = rows
      /\ "settings" \notin mishap' => LogoThere(site)
      /\ Orderly(e)' => SiteInv'
  BY <1>3, <1>4, BeginOnSettings
<1>6. AfterAll(e)' = [k \in SiteKeys |-> IF k \in DOMAIN rows THEN rows[k] ELSE site[k]]
  BY <1>4, <1>5 DEF AfterAll
<1>7. CheckWhole(AfterAll(e))' /\ (LogoThere(AfterAll(e))' <=> LogoThere(site))
  BY <1>4, <1>6, RowsAreWhole DEF CheckWhole, LogoThere, SiteKeys
<1>8. Orderly(e)'
  BY <1>5, <1>7 DEF Orderly
<1> QED BY <1>5, <1>8

\* A request on the settings goes on.
LEMMA MoveOnSettings ==
    ASSUME SiteInv, NEW e \in Editors, AtWork(e), edit[e].table = "settings", NEW q,
           DOMAIN q = DOMAIN NoEdit,
           q.table = edit[e].table, q.alone = edit[e].alone, q.op = edit[e].op,
           q.pc \notin {"idle", "loaded", "create", "store"}, edit' = [edit EXCEPT ![e] = q],
           UNCHANGED siteHistory, DOMAIN site' = SiteKeys, items' = items, public' = public
    PROVE  /\ edit'[e] = q
           /\ Orderly(e)' => SiteInv'
<1>1. SiteShape /\ Turns
  BY Shape
<1>2. KeysKept
  BY <1>1 DEF KeysKept, SiteShape
<1>3. edit'[e] = q
  BY <1>1 DEF SiteShape
<1>4. \A x \in SiteTables \ {edit[e].table} : View(x)' = View(x)
  BY ViewsApart DEF SiteTables
<1>5. Orderly(e)' => SiteInv'
  BY <1>2, <1>4, MoveKeeps
<1> QED BY <1>3, <1>5

\* A request stops, whatever its table.
LEMMA StopKeeps ==
    ASSUME SiteInv, NEW e \in Editors, AtWork(e), edit' = [edit EXCEPT ![e] = NoEdit],
           mishap' = mishap \cup {edit[e].table}, UNCHANGED settled,
           site' = site, items' = items, public' = public,
           edit[e].table # "settings" => logos' = logos
    PROVE  SiteInv'
<1>1. KeysKept
  BY Shape
<1>2. \A x \in SiteTables \ {edit[e].table} : View(x)' = View(x)
  <2>1. \A x \in Lists : View(x)' = View(x)
    BY ViewsApart
  <2>2. edit[e].table # "settings" => View("settings")' = View("settings")
    BY ViewsApart
  <2> QED BY <2>1, <2>2 DEF SiteTables
<1> QED BY <1>1, <1>2, FailKeeps

LEMMA PathOfSave ==
    ASSUME NEW todo, NEW name, NEW path, todo = [site_name |-> name, logo_path |-> path]
    PROVE  "logo_path" \in DOMAIN todo /\ todo["logo_path"] = path
OBVIOUS

LEMMA UpdateSettingsKeeps == ASSUME SiteInv, NEW e \in Editors, UpdateSettings(e) PROVE SiteInv'
<1>1. PICK name \in Texts, path \in {edit[e].todo.logo_path, ""} :
          /\ logos' = {x \in logos : path # ""}
          /\ edit' = [edit EXCEPT ![e].pc = "write", ![e].todo = [site_name |-> name, logo_path |-> path]]
  BY DEF UpdateSettings
<1>2. /\ edit[e].pc = "loaded" /\ AtWork(e)
      /\ UNCHANGED <<site, items, public, siteHistory>>
  BY DEF UpdateSettings, AtWork
<1>3. SiteShape /\ Turns /\ Ordered
  BY DEF SiteInv
<1>4. edit[e].table = "settings" /\ DOMAIN edit[e] = DOMAIN NoEdit /\ DOMAIN site = SiteKeys
  BY <1>2, <1>3 DEF SiteShape
<1> DEFINE q == [edit[e] EXCEPT !.pc = "write", !.todo = [site_name |-> name, logo_path |-> path]]
<1>5. edit' = [edit EXCEPT ![e] = q]
  BY <1>1, <1>3 DEF SiteShape
<1>6. /\ DOMAIN q = DOMAIN NoEdit /\ q.table = edit[e].table /\ q.alone = edit[e].alone
      /\ q.op = edit[e].op /\ q.pc = "write" /\ q.todo = [site_name |-> name, logo_path |-> path]
  BY <1>4 DEF NoEdit
<1> HIDE DEF q
<1>7. edit'[e] = q /\ (Orderly(e)' => SiteInv')
  BY <1>2, <1>4, <1>5, <1>6, MoveOnSettings
<1>8. Orderly(e)
  BY <1>2, <1>3, <1>4 DEF Ordered
<1>9. /\ CheckWhole(AfterAll(e))' <=> CheckWhole(site)
      /\ CheckWhole(AfterAll(e)) <=> CheckWhole(site)
  BY <1>2, <1>6, <1>7 DEF AfterAll, CheckWhole, SiteKeys
<1>10. "settings" \notin mishap => LogoThere(AfterAll(e))'
  <2>1. LogoThere(AfterAll(e))' <=> path \in logos' \cup {""}
    <3>1. edit'[e].pc = "write" /\ "logo_path" \in DOMAIN edit'[e].todo /\ edit'[e].todo["logo_path"] = path
      <4>1. q.todo = [site_name |-> name, logo_path |-> path] /\ q.pc = "write" /\ edit'[e] = q
        BY <1>6, <1>7
      <4>2. "logo_path" \in DOMAIN q.todo /\ q.todo["logo_path"] = path
        BY <4>1, PathOfSave
      <4> QED BY <4>1, <4>2
    <3>2. AfterAll(e)'.logo_path = path
      BY <3>1 DEF AfterAll, SiteKeys
    <3> QED BY <3>2 DEF LogoThere
  <2>2. LogoThere(AfterAll(e)) <=> site.logo_path \in logos \cup {""}
    BY <1>2 DEF AfterAll, LogoThere, SiteKeys
  <2> QED BY <1>1, <1>2, <1>8, <2>1, <2>2 DEF Orderly
<1>11. mishap' = mishap /\ edit'[e].op = "save" /\ edit'[e].pc = "write" /\ edit'[e].alone = edit[e].alone
  BY <1>2, <1>6, <1>7, <1>8 DEF Orderly, siteHistory
<1>12. Orderly(e)'
  BY <1>8, <1>9, <1>10, <1>11 DEF Orderly
<1> QED BY <1>7, <1>12

LEMMA CreateLogoKeeps == ASSUME SiteInv, NEW e \in Editors, CreateLogo(e) PROVE SiteInv'
<1> DEFINE x == edit[e].todo.logo_path
<1>1. /\ edit[e].pc = "create" /\ AtWork(e)
      /\ UNCHANGED <<site, items, public>>
  BY DEF CreateLogo, AtWork
<1>2. SiteShape /\ Turns /\ Ordered
  BY DEF SiteInv
<1>3. edit[e].table = "settings" /\ DOMAIN edit[e] = DOMAIN NoEdit /\ DOMAIN site = SiteKeys
  BY <1>1, <1>2 DEF SiteShape
<1>4. CASE logos' = logos \cup {x} /\ Goes(e, "write")
  <2> DEFINE q == [edit[e] EXCEPT !.pc = "write"]
  <2>1. edit' = [edit EXCEPT ![e] = q] /\ UNCHANGED siteHistory
    BY <1>2, <1>4 DEF SiteShape, Goes
  <2>2. /\ DOMAIN q = DOMAIN NoEdit /\ q.table = edit[e].table /\ q.alone = edit[e].alone
        /\ q.op = edit[e].op /\ q.pc = "write" /\ q.todo = edit[e].todo
    BY <1>3 DEF NoEdit
  <2> HIDE DEF q
  <2>3. edit'[e] = q /\ (Orderly(e)' => SiteInv')
    BY <1>1, <1>3, <2>1, <2>2, MoveOnSettings
  <2>4. Orderly(e)
    BY <1>1, <1>2, <1>3 DEF Ordered
  <2>5. edit[e].op = "upload" /\ DOMAIN edit[e].todo = {"logo_path"}
    BY <1>1, <2>4 DEF Orderly
  <2>6. /\ CheckWhole(AfterAll(e))' <=> CheckWhole(site)
        /\ CheckWhole(AfterAll(e)) <=> CheckWhole(site)
    <3>1. DOMAIN edit'[e].todo = {"logo_path"} /\ site' = site
      BY <1>1, <2>2, <2>3, <2>5
    <3>2. \A k \in {"site_key", "secret", "hostnames", "cleared"} :
             AfterAll(e)'[k] = site[k] /\ AfterAll(e)[k] = site[k]
      BY <2>5, <3>1 DEF AfterAll, SiteKeys
    <3> QED BY <3>1, <3>2 DEF CheckWhole
  <2>7. LogoThere(AfterAll(e))'
    BY <1>4, <2>2, <2>3, <2>5 DEF AfterAll, LogoThere, SiteKeys
  <2>8. mishap' = mishap
    BY <2>1 DEF siteHistory
  <2>9. Orderly(e)'
    BY <2>2, <2>3, <2>4, <2>5, <2>6, <2>7, <2>8 DEF Orderly
  <2> QED BY <2>3, <2>9
<1>5. CASE Fails(e)
  BY <1>1, <1>3, <1>5, StopKeeps DEF Fails
<1> QED BY <1>4, <1>5 DEF CreateLogo

LEMMA WriteKeyKeeps == ASSUME SiteInv, NEW e \in Editors, WriteKey(e) PROVE SiteInv'
<1>1. /\ edit[e].pc = "write" /\ edit[e].table = "settings" /\ AtWork(e)
      /\ UNCHANGED <<logos, items, public>>
  BY DEF WriteKey, AtWork
<1>2. SiteShape /\ Turns /\ Ordered
  BY DEF SiteInv
<1>3. DOMAIN edit[e] = DOMAIN NoEdit /\ DOMAIN site = SiteKeys
  BY <1>2 DEF SiteShape
<1>4. ASSUME NEW k \in DOMAIN edit[e].todo, NEW rest,
             rest = [key \in DOMAIN edit[e].todo \ {k} |-> edit[e].todo[key]],
             site' = [site EXCEPT ![k] = edit[e].todo[k]],
             edit' = [edit EXCEPT ![e].pc = IF rest = <<>> THEN "refresh" ELSE "write", ![e].todo = rest],
             UNCHANGED siteHistory
      PROVE  SiteInv'
  <2> DEFINE pc == IF rest = <<>> THEN "refresh" ELSE "write"
             q == [edit[e] EXCEPT !.pc = pc, !.todo = rest]
  <2>1. edit' = [edit EXCEPT ![e] = q]
    BY <1>2, <1>4 DEF SiteShape
  <2>2. /\ DOMAIN q = DOMAIN NoEdit /\ q.table = edit[e].table /\ q.alone = edit[e].alone
        /\ q.op = edit[e].op /\ q.pc = pc /\ q.todo = rest
    BY <1>3 DEF NoEdit
  <2>3. pc \in {"refresh", "write"} /\ (pc = "refresh" => DOMAIN rest = {})
    OBVIOUS
  <2> HIDE DEF q, pc
  <2>4. edit'[e] = q /\ (Orderly(e)' => SiteInv')
    <3>1. DOMAIN site' = SiteKeys
      BY <1>3, <1>4
    <3> QED BY <1>1, <1>4, <2>1, <2>2, <2>3, <3>1, MoveOnSettings
  <2>5. AfterAll(e)' = AfterAll(e)
    <3>1. ASSUME NEW j \in SiteKeys
          PROVE  (IF edit'[e].pc = "write" /\ j \in DOMAIN edit'[e].todo THEN edit'[e].todo[j] ELSE site'[j])
                 = (IF edit[e].pc = "write" /\ j \in DOMAIN edit[e].todo THEN edit[e].todo[j] ELSE site[j])
      <4>1. CASE j = k
        BY <1>1, <1>3, <1>4, <2>2, <2>4, <4>1
      <4>2. CASE j # k
        BY <1>1, <1>3, <1>4, <2>2, <2>3, <2>4, <4>2
      <4> QED BY <4>1, <4>2
    <3> QED BY <3>1 DEF AfterAll
  <2>6. Orderly(e)
    BY <1>1, <1>2 DEF Ordered
  <2>7. Orderly(e)'
    <3>1. (CheckWhole(AfterAll(e))' <=> CheckWhole(AfterAll(e))) /\ (LogoThere(AfterAll(e))' <=> LogoThere(AfterAll(e)))
      BY <1>1, <2>5 DEF CheckWhole, LogoThere
    <3>2. mishap' = mishap
      BY <1>4 DEF siteHistory
    <3> QED BY <1>1, <2>2, <2>3, <2>4, <2>6, <3>1, <3>2 DEF Orderly
  <2> QED BY <2>4, <2>7
<1>5. CASE Fails(e) /\ UNCHANGED site
  BY <1>1, <1>5, StopKeeps DEF Fails
<1> QED BY <1>4, <1>5 DEF WriteKey

-----------------------------------------------------------------------------
(* Then quick queries, community rules and the refresh.                      *)

LEMMA SubmitItemKeeps ==
    ASSUME SiteInv, NEW e \in Editors, NEW t \in Lists, NEW op, op # "none", NEW i, NEW row,
           SubmitItem(e, t, op, i, row)
    PROVE  SiteInv'
<1> DEFINE r == [NoEdit EXCEPT !.pc = "write", !.op = op, !.table = t, !.id = i, !.todo = row]
<1>1. Begin(e, r) /\ UNCHANGED <<site, logos, items, public>>
  BY DEF SubmitItem
<1>2. DOMAIN r = DOMAIN NoEdit /\ r.pc = "write" /\ r.op = op /\ r.table = t
  BY DEF NoEdit
<1> HIDE DEF r
<1>3. KeysKept
  BY <1>1, Shape
<1>4. t \in SiteTables /\ t # "settings" /\ \A x \in SiteTables : View(x)' = View(x)
  BY <1>1, ViewsApart DEF SiteTables, Lists
<1> QED BY <1>1, <1>2, <1>3, <1>4, BeginKeeps

LEMMA SubmissionsKeep ==
    ASSUME SiteInv, NEW e \in Editors,
           \/ CreateQuickQuery(e) \/ UpdateQuickQuery(e) \/ DeleteQuickQuery(e) \/ ToggleQuickQuery(e)
           \/ CreateCommunityRule(e) \/ UpdateCommunityRule(e) \/ DeleteCommunityRule(e) \/ ToggleCommunityRule(e)
    PROVE  SiteInv'
<1>1. PICK t \in Lists, op \in {"create", "update", "delete", "toggle"} :
         \E i, row : SubmitItem(e, t, op, i, row)
  <2>1. CASE CreateQuickQuery(e)
    BY <2>1 DEF CreateQuickQuery, Lists
  <2>2. CASE UpdateQuickQuery(e)
    BY <2>2 DEF UpdateQuickQuery, Lists
  <2>3. CASE DeleteQuickQuery(e)
    BY <2>3 DEF DeleteQuickQuery, Lists
  <2>4. CASE ToggleQuickQuery(e)
    BY <2>4 DEF ToggleQuickQuery, Lists
  <2>5. CASE CreateCommunityRule(e)
    BY <2>5 DEF CreateCommunityRule, Lists
  <2>6. CASE UpdateCommunityRule(e)
    BY <2>6 DEF UpdateCommunityRule, Lists
  <2>7. CASE DeleteCommunityRule(e)
    BY <2>7 DEF DeleteCommunityRule, Lists
  <2>8. CASE ToggleCommunityRule(e)
    BY <2>8 DEF ToggleCommunityRule, Lists
  <2> QED BY <2>1, <2>2, <2>3, <2>4, <2>5, <2>6, <2>7, <2>8
<1>2. PICK i, row : SubmitItem(e, t, op, i, row)
  BY <1>1
<1> QED BY <1>2, SubmitItemKeeps

\* A statement on one table leaves the other's rows as they are.
LEMMA OtherListKept ==
    ASSUME NEW t \in Lists, NEW rows, items' = [items EXCEPT ![t] = rows], site' = site, logos' = logos,
           SiteShape
    PROVE  \A x \in SiteTables \ {t} : View(x)' = View(x)
<1>1. View("settings")' = View("settings")
  BY ViewsApart
<1>2. ASSUME NEW x \in Lists \ {t} PROVE View(x)' = View(x)
  <2>1. items'[x] = items[x]
    BY DEF SiteShape
  <2>2. ListView(x)' = ListView(x)
    BY <2>1 DEF ListView
  <2> QED BY <2>1, <2>2 DEF View, Lists
<1> QED BY <1>1, <1>2 DEF SiteTables

LEMMA WriteItemKeeps == ASSUME SiteInv, NEW e \in Editors, WriteItem(e) PROVE SiteInv'
<1>1. /\ edit[e].pc = "write" /\ edit[e].table \in Lists /\ AtWork(e)
      /\ UNCHANGED <<site, logos, public>>
  BY DEF WriteItem, AtWork
<1>2. SiteShape /\ edit[e].table # "settings"
  BY <1>1 DEF SiteInv, Lists
<1>3. ASSUME NEW rows, items' = [items EXCEPT ![edit[e].table] = rows], NEW i, NEW pc \in {"reread", "refresh"},
             edit' = [edit EXCEPT ![e].id = i, ![e].pc = pc], UNCHANGED siteHistory
      PROVE  SiteInv'
  <2> DEFINE q == [edit[e] EXCEPT !.id = i, !.pc = pc]
  <2>1. edit' = [edit EXCEPT ![e] = q]
    BY <1>2, <1>3 DEF SiteShape
  <2>2. /\ DOMAIN q = DOMAIN NoEdit /\ q.table = edit[e].table /\ q.alone = edit[e].alone
        /\ q.op = edit[e].op /\ q.pc = pc
    BY <1>2 DEF SiteShape, NoEdit
  <2> HIDE DEF q
  <2>3. KeysKept
    BY <1>1, <1>2, <1>3 DEF KeysKept, SiteShape
  <2>4. \A x \in SiteTables \ {edit[e].table} : View(x)' = View(x)
    BY <1>1, <1>2, <1>3, OtherListKept
  <2> QED BY <1>1, <1>2, <1>3, <2>1, <2>2, <2>3, <2>4, MoveKeeps
<1>4. CASE Fails(e) /\ UNCHANGED items
  BY <1>1, <1>4, StopKeeps DEF Fails
<1>5. CASE \E i \in IdOf(e) :
              /\ items' = [items EXCEPT ![edit[e].table] = Written(@, edit[e].op, i, edit[e].todo)]
              /\ edit' = [edit EXCEPT ![e].id = i,
                            ![e].pc = IF edit[e].op \in {"create", "update"} THEN "reread" ELSE "refresh"]
              /\ UNCHANGED <<siteHistory, edits, siteFaults>>
  <2> DEFINE pc == IF edit[e].op \in {"create", "update"} THEN "reread" ELSE "refresh"
  <2>1. PICK i \in IdOf(e) :
              /\ items' = [items EXCEPT ![edit[e].table] = Written(items[edit[e].table], edit[e].op, i, edit[e].todo)]
              /\ edit' = [edit EXCEPT ![e].id = i, ![e].pc = pc]
              /\ UNCHANGED siteHistory
    BY <1>5
  <2>2. pc \in {"reread", "refresh"}
    OBVIOUS
  <2> HIDE DEF pc
  <2> QED BY <1>3, <2>1, <2>2
<1> QED BY <1>4, <1>5 DEF WriteItem

\* A request that only looks goes on.
LEMMA LookKeeps ==
    ASSUME SiteInv, NEW e \in Editors, AtWork(e), NEW q, DOMAIN q = DOMAIN NoEdit,
           q.table = edit[e].table, q.alone = edit[e].alone, q.op = edit[e].op, q.todo = edit[e].todo,
           edit[e].pc \in {"reread", "refresh"}, q.pc \in {"refresh", "store"},
           \A x \in SiteTables : q.pc = "store" /\ edit[e].table = x => q.seen = View(x),
           edit' = [edit EXCEPT ![e] = q],
           UNCHANGED <<siteHistory, site, logos, items, public>>
    PROVE  SiteInv'
<1>1. SiteShape /\ Ordered /\ KeysKept
  BY Shape DEF SiteInv
<1>2. \A x \in SiteTables : View(x)' = View(x)
  BY ViewsApart DEF SiteTables
<1>3. edit'[e] = q
  BY <1>1 DEF SiteShape
<1>4. ASSUME edit[e].table = "settings" PROVE Orderly(e)'
  <2>1. Orderly(e)
    BY <1>1, <1>4 DEF Ordered
  <2>2. AfterAll(e)' = AfterAll(e)
    BY <1>3 DEF AfterAll
  <2>3. (CheckWhole(AfterAll(e))' <=> CheckWhole(AfterAll(e))) /\ (LogoThere(AfterAll(e))' <=> LogoThere(AfterAll(e)))
    BY <2>2 DEF CheckWhole, LogoThere
  <2> QED BY <1>3, <2>1, <2>3 DEF Orderly, siteHistory
<1>5. \A x \in SiteTables : q.pc = "store" /\ edit[e].table = x => q.seen = View(x)'
  BY <1>2
<1>6. q.pc \notin {"idle", "loaded", "create"} /\ public' = public /\ UNCHANGED siteHistory
      /\ site' = site /\ logos' = logos /\ \A x \in SiteTables \ {edit[e].table} : View(x)' = View(x)
  BY <1>2
<1> QED BY <1>1, <1>4, <1>5, <1>6, MoveKeeps

LEMMA RereadItemKeeps == ASSUME SiteInv, NEW e \in Editors, RereadItem(e) PROVE SiteInv'
<1>1. edit[e].pc = "reread" /\ AtWork(e) /\ UNCHANGED <<site, logos, items, public>> /\ SiteShape
  BY DEF RereadItem, AtWork, SiteInv
<1>2. CASE /\ edit[e].table = "rules" /\ edit' = [edit EXCEPT ![e] = NoEdit] /\ mishap' = mishap \cup {"rules"}
           /\ UNCHANGED settled
  BY <1>1, <1>2, StopKeeps
<1>3. CASE Goes(e, "refresh")
  <2> DEFINE q == [edit[e] EXCEPT !.pc = "refresh"]
  <2>1. edit' = [edit EXCEPT ![e] = q] /\ UNCHANGED siteHistory
    BY <1>1, <1>3 DEF SiteShape, Goes
  <2>2. /\ DOMAIN q = DOMAIN NoEdit /\ q.table = edit[e].table /\ q.alone = edit[e].alone
        /\ q.op = edit[e].op /\ q.pc = "refresh" /\ q.todo = edit[e].todo
    BY <1>1 DEF SiteShape, NoEdit
  <2> HIDE DEF q
  <2>3. /\ q.pc \in {"refresh", "store"} /\ edit[e].pc \in {"reread", "refresh"} /\ AtWork(e)
        /\ UNCHANGED <<siteHistory, site, logos, items, public>>
        /\ \A x \in SiteTables : q.pc = "store" /\ edit[e].table = x => q.seen = View(x)
    BY <1>1, <2>1, <2>2
  <2>4. /\ DOMAIN q = DOMAIN NoEdit /\ q.table = edit[e].table /\ q.alone = edit[e].alone
        /\ q.op = edit[e].op /\ q.todo = edit[e].todo
    BY <2>2
  <2> QED BY <2>1, <2>3, <2>4, LookKeeps
<1>4. CASE Fails(e)
  BY <1>1, <1>4, StopKeeps DEF Fails
<1> QED BY <1>2, <1>3, <1>4 DEF RereadItem

LEMMA ReadRowsKeeps == ASSUME SiteInv, NEW e \in Editors, ReadRows(e) PROVE SiteInv'
<1>1. edit[e].pc = "refresh" /\ AtWork(e) /\ UNCHANGED <<site, logos, items, public>> /\ SiteShape
  BY DEF ReadRows, AtWork, SiteInv
<1>2. CASE edit' = [edit EXCEPT ![e].pc = "store", ![e].seen = View(edit[e].table)] /\ UNCHANGED siteHistory
  <2> DEFINE seen == View(edit[e].table)
             q == [edit[e] EXCEPT !.pc = "store", !.seen = seen]
  <2>1. edit' = [edit EXCEPT ![e] = q]
    BY <1>1, <1>2 DEF SiteShape
  <2>2. \A x \in SiteTables : edit[e].table = x => seen = View(x)
    OBVIOUS
  <2> HIDE DEF seen
  <2>3. /\ DOMAIN q = DOMAIN NoEdit /\ q.table = edit[e].table /\ q.alone = edit[e].alone
        /\ q.op = edit[e].op /\ q.pc = "store" /\ q.todo = edit[e].todo /\ q.seen = seen
    BY <1>1 DEF SiteShape, NoEdit
  <2> HIDE DEF q
  <2>4. \A x \in SiteTables : q.pc = "store" /\ edit[e].table = x => q.seen = View(x)
    BY <2>2, <2>3
  <2>5. /\ q.pc \in {"refresh", "store"} /\ edit[e].pc \in {"reread", "refresh"} /\ AtWork(e)
        /\ UNCHANGED <<siteHistory, site, logos, items, public>>
    BY <1>1, <1>2, <2>3
  <2>6. /\ DOMAIN q = DOMAIN NoEdit /\ q.table = edit[e].table /\ q.alone = edit[e].alone
        /\ q.op = edit[e].op /\ q.todo = edit[e].todo
    BY <2>3
  <2> QED BY <2>1, <2>4, <2>5, <2>6, LookKeeps
<1>3. CASE Fails(e)
  BY <1>1, <1>3, StopKeeps DEF Fails
<1> QED BY <1>2, <1>3 DEF ReadRows

LEMMA StutterKeeps == ASSUME SiteInv, UNCHANGED siteVars PROVE SiteInv'
<1>1. \A t \in SiteTables : View(t)' = View(t)
  BY ViewsApart DEF siteVars, SiteTables
<1>2. Shown' <=> Shown
  BY <1>1 DEF Shown, siteVars
<1>3. \A e \in Editors : Orderly(e)' <=> Orderly(e)
  BY DEF Orderly, siteVars, AfterAll, CheckWhole, LogoThere
<1>4. Ordered' <=> Ordered
  BY <1>3 DEF Ordered, siteVars, AtWork, CheckWhole, LogoThere
<1>5. SiteShape' /\ Turns'
  BY DEF siteVars, SiteInv, SiteShape, Turns, AtWork
<1> QED BY <1>2, <1>4, <1>5 DEF SiteInv

LEMMA NextKeeps == SiteInv /\ [SiteNext]_siteVars => SiteInv'
<1> SUFFICES ASSUME SiteInv, [SiteNext]_siteVars PROVE SiteInv'
  OBVIOUS
<1>1. ASSUME NEW e \in Editors, LoadPanel(e) \/ UpdateSettings(e) \/ BeginUpload(e) \/ CreateLogo(e)
      PROVE  SiteInv'
  BY <1>1, LoadPanelKeeps, UpdateSettingsKeeps, BeginUploadKeeps, CreateLogoKeeps
<1>2. ASSUME NEW e \in Editors, UpdateTurnstile(e) \/ WriteKey(e)
      PROVE  SiteInv'
  BY <1>2, UpdateTurnstileKeeps, WriteKeyKeeps
<1>3. ASSUME NEW e \in Editors, WriteItem(e) \/ RereadItem(e) \/ ReadRows(e) \/ StoreRows(e)
      PROVE  SiteInv'
  BY <1>3, WriteItemKeeps, RereadItemKeeps, ReadRowsKeeps, AnswerKeeps
<1>4. CASE Load
  BY <1>4, LoadKeeps
<1>5. CASE UNCHANGED siteVars
  BY <1>5, StutterKeeps
<1> QED BY <1>1, <1>2, <1>3, <1>4, <1>5, SubmissionsKeep DEF SiteNext

\* Who is at work on which table, and what its work has still to do, holds
\* whatever administrators save, upload or edit at the same time.
THEOREM ContentInvariance == SiteSpec => []SiteInv
BY InitSiteInv, NextKeeps, PTL DEF SiteSpec

-----------------------------------------------------------------------------
(* What administrators and visitors rely on.                                 *)

\* Visitors are shown what the tables hold after a request that ran alone and met
\* no failure, and after a start: every handler ends by reading its table again
\* and storing what it read, so whatever went wrong before is made up for.
THEOREM ShownFollowsStored == SiteSpec => []ShownIsStored
<1>1. SiteInv => ShownIsStored
  <2> SUFFICES ASSUME SiteInv, NEW t \in SiteTables, settled[t] # "none"
               PROVE  CASE t = "settings" -> public[t] = [values |-> site, versioned |-> site.logo_path \in logos]
                        [] t = "quick" -> \A i \in Items : IF items[t][i].state = "kept" THEN i \in DOMAIN public[t] /\ public[t][i] = items[t][i]
                                                           ELSE i \notin DOMAIN public[t]
                        [] t = "rules" -> /\ DOMAIN public[t] = {i \in Items : items[t][i].state = "kept" /\ items[t][i].active}
                                          /\ \A i \in DOMAIN public[t] : public[t][i] = items[t][i]
    BY DEF ShownIsStored
  <2>1. public[t] = View(t)
    BY DEF SiteInv, Shown
  <2>2. CASE t = "settings"
    BY <2>1, <2>2 DEF View, SettingsView
  <2>3. CASE t = "quick"
    <3>1. public[t] = [i \in ListView(t) |-> items[t][i]]
      BY <2>1, <2>3 DEF View
    <3>2. ListView(t) = {i \in Items : items[t][i].state = "kept"}
      BY <2>3 DEF ListView
    <3> QED BY <2>3, <3>1, <3>2
  <2>4. CASE t = "rules"
    <3>1. public[t] = [i \in ListView(t) |-> items[t][i]]
      BY <2>1, <2>4 DEF View
    <3>2. ListView(t) = {i \in Items : items[t][i].state = "kept" /\ items[t][i].active}
      BY <2>4 DEF ListView
    <3> QED BY <2>4, <3>1, <3>2
  <2> QED BY <2>2, <2>3, <2>4 DEF SiteTables, Lists
<1> QED BY <1>1, ContentInvariance, PTL

\* After a request of the kind, or with nothing gone wrong, what is stored is what
\* visitors are shown, and the logo and the check are in order.
LEMMA InOrderHolds ==
    ASSUME SiteInv, NEW op \in {"check", "upload"}, InOrder(op)
    PROVE  /\ public["settings"].values = site
           /\ op = "check" => CheckWhole(site)
           /\ op = "upload" => LogoThere(site)
<1>1. settled["settings"] # "none" => public["settings"].values = site
  <2>1. "settings" \in SiteTables /\ View("settings").values = site
    BY DEF SiteTables, View, SettingsView
  <2>2. settled["settings"] # "none" => public["settings"] = View("settings")
    BY <2>1 DEF SiteInv, Shown
  <2> QED BY <2>1, <2>2
<1>2. CASE settled["settings"] = op
  BY <1>1, <1>2 DEF SiteInv, Ordered
<1>3. CASE "settings" \notin mishap /\ Busy("settings") = {}
  <2>1. settled["settings"] # "none"
    BY <1>3 DEF SiteInv, Turns, Busy, AtWork, SiteTables
  <2> QED BY <1>1, <1>3, <2>1, Undisturbed
<1> QED BY <1>2, <1>3 DEF InOrder

\* The logo that the stored settings and the cached ones name is on disk: a save
\* sends back the path its page was loaded with, an upload creates the file
\* before it stores the path, and neither deletes a file that is named unless a
\* request overlapped it or failed.
THEOREM LogoStays == SiteSpec => []LogoIsThere
<1>1. SiteInv => LogoIsThere
  BY InOrderHolds DEF LogoIsThere, LogoThere
<1> QED BY <1>1, ContentInvariance, PTL

\* The human check is off or whole: UpdateTurnstile refuses a part without the
\* others, and its rows with what is stored of the rest make all three or none.
THEOREM CheckStaysWhole == SiteSpec => []CheckIsWhole
<1>1. ASSUME NEW values, CheckWhole(values)
      PROVE  /\ LetThrough(values, Asked(values))
             /\ Asked(values) => ~LetThrough(values, FALSE)
  BY <1>1 DEF CheckWhole, LetThrough, Asked, EffectiveCheck, Verify
<1>2. SiteInv => CheckIsWhole
  BY <1>1, InOrderHolds DEF CheckIsWhole
<1> QED BY <1>2, ContentInvariance, PTL

-----------------------------------------------------------------------------
(* GeoDatabases: the updater's steps, one by one.                            *)

Cycle == {"try", "mmdb", "csv", "reload"}
Updaters == [pc : {"off", "begin", "idle", "stopped"} \cup Cycle, edition : Editions, reload : BOOLEAN,
             began : Nat, period : Nat, ticker : Nat \cup {None}, ticks : Nat]

PanelKeys == {"account", "key", "interval"}

GeoTyped ==
    /\ now \in Nat /\ published \in Nat \ {0} /\ geoFaults \in Nat /\ cut \in BOOLEAN
    /\ mmdb \in [Editions -> Nat] /\ mtime \in [Editions -> Nat] /\ csv \in [Sidecars -> Nat]
    /\ marks \in [Editions -> Nat \cup {None}]
    /\ DOMAIN stored = PanelKeys /\ stored.interval \in Intervals
    /\ DOMAIN panel = Administrators
    /\ \A a \in Administrators : /\ DOMAIN panel[a] \subseteq PanelKeys
                                 /\ "interval" \in DOMAIN panel[a] => panel[a]["interval"] \in Intervals
    /\ updater \in Updaters
    /\ updater.pc \notin {"off", "stopped"} => updater.period \in Intervals
    /\ updater.pc = "idle" => updater.ticker # None
    /\ updater.ticker # None => updater.ticker <= now
    /\ configured \in Nat \cup {None}

LEMMA GeoSets ==
    /\ Editions = {"asn", "city"} /\ Sidecars = {"blocks4", "blocks6", "locations"}
    /\ SidecarsOf["asn"] = {"blocks4", "blocks6"} /\ SidecarsOf["city"] = {"locations"}
<1>1. SidecarsOf["asn"] = {"blocks4", "blocks6"} /\ SidecarsOf["city"] = {"locations"}
  BY DEF SidecarsOf
<1>2. \A s : s \in Sidecars <=> s \in SidecarsOf["asn"] \/ s \in SidecarsOf["city"]
  BY DEF Sidecars, Editions
<1> QED BY <1>1, <1>2 DEF Editions

LEMMA RestedFields ==
    ASSUME NEW u \in Updaters, now \in Nat
    PROVE  /\ Rested(u) \in Updaters
           /\ Rested(u).pc = "idle" /\ Rested(u).edition = "asn" /\ ~Rested(u).reload
           /\ Rested(u).period = u.period /\ Rested(u).ticks = u.ticks
           /\ Rested(u).ticker = IF u.ticker = None THEN now ELSE u.ticker
BY DEF Rested, Updaters, Editions

LEMMA RestedTicker ==
    ASSUME NEW u \in Updaters, now \in Nat, u.ticker # None => u.ticker <= now
    PROVE  Rested(u).ticker # None /\ Rested(u).ticker <= now
<1>1. CASE u.ticker = None
  <2>1. Rested(u).ticker = now
    BY <1>1, RestedFields
  <2> QED BY <2>1, GeoAssumption
<1>2. CASE u.ticker # None
  <2>1. Rested(u).ticker = u.ticker
    BY <1>2, RestedFields
  <2> QED BY <1>2, <2>1
<1> QED BY <1>1, <1>2

LEMMA NextEditionFields ==
    ASSUME NEW u \in Updaters, now \in Nat
    PROVE  /\ NextEdition(u) \in Updaters
           /\ u.edition = "asn" => NextEdition(u) = [u EXCEPT !.pc = "try", !.edition = "city"]
           /\ u.edition # "asn" /\ u.reload => NextEdition(u) = [u EXCEPT !.pc = "reload"]
           /\ u.edition # "asn" /\ ~u.reload => NextEdition(u) = Rested(u)
           /\ NextEdition(u).period = u.period
<1>1. CASE u.edition = "asn"
  BY <1>1 DEF NextEdition, Updaters, Cycle, Editions
<1>2. CASE u.edition # "asn" /\ u.reload
  BY <1>2 DEF NextEdition, Updaters, Cycle, Editions
<1>3. CASE u.edition # "asn" /\ ~u.reload
  BY <1>3, RestedFields DEF NextEdition
<1> QED BY <1>1, <1>2, <1>3

LEMMA EmptyDomain == DOMAIN <<>> = {}
OBVIOUS

LEMMA InitGeoTyped == GeoInit => GeoTyped
<1> SUFFICES ASSUME GeoInit PROVE GeoTyped
  OBVIOUS
<1>1. PICK i \in Intervals : stored = [account |-> "", key |-> "", interval |-> i]
  BY DEF GeoInit
<1>2. DOMAIN stored = PanelKeys /\ stored.interval \in Intervals
  BY <1>1 DEF PanelKeys
<1>3. DOMAIN panel = Administrators /\ \A a \in Administrators : DOMAIN panel[a] = {}
  BY EmptyDomain DEF GeoInit
<1>4. updater \in Updaters /\ updater.pc = "off" /\ updater.ticker = None
  BY DEF GeoInit, UpdaterOff, Updaters, Editions
<1>5. /\ now \in Nat /\ published \in Nat \ {0} /\ geoFaults \in Nat /\ cut \in BOOLEAN
      /\ mmdb \in [Editions -> Nat] /\ mtime \in [Editions -> Nat] /\ csv \in [Sidecars -> Nat]
      /\ marks \in [Editions -> Nat \cup {None}] /\ configured \in Nat \cup {None}
  <2>1. now = 0 /\ published = 1 /\ geoFaults = 0 /\ cut = FALSE /\ configured = None
    BY DEF GeoInit
  <2>2. mmdb = [e \in Editions |-> 0] /\ mtime = [e \in Editions |-> 0] /\ csv = [t \in Sidecars |-> 0]
    BY DEF GeoInit
  <2>3. marks = [e \in Editions |-> None]
    BY DEF GeoInit
  <2>4. mmdb \in [Editions -> Nat] /\ mtime \in [Editions -> Nat]
    BY <2>2
  <2>5. csv \in [Sidecars -> Nat]
    BY <2>2
  <2>6. marks \in [Editions -> Nat \cup {None}]
    BY <2>3
  <2>7. cut \in BOOLEAN
    BY <2>1
  <2> QED BY <2>1, <2>4, <2>5, <2>6, <2>7
<1> QED BY <1>2, <1>3, <1>4, <1>5 DEF GeoTyped

\* A step leaves what the type speaks of alone.
LEMMA GeoTypedKept ==
    ASSUME GeoTyped, UNCHANGED <<now, published, files, settings, updater, panel, cut, geoFaults>>
    PROVE  GeoTyped'
BY DEF GeoTyped, files, settings

LEMMA FaultTyped == ASSUME geoFaults \in Nat, Fault \/ UNCHANGED geoFaults
                    PROVE  geoFaults' \in Nat /\ (geoFaults' = 0 => geoFaults = 0 /\ ~Fault)
BY DEF Fault

\* What a step of the updater leaves alone.
UpdaterFrame == UNCHANGED <<published, stored, panel, configured>>

LEMMA DivBounds ==
    ASSUME NEW n \in Nat, NEW p \in Nat \ {0}
    PROVE  n \div p \in Nat /\ p * (n \div p) <= n /\ n < p * (n \div p) + p
OBVIOUS

LEMMA TimesMonotone ==
    ASSUME NEW p \in Nat \ {0}, NEW k \in Nat, NEW m \in Nat, k <= m
    PROVE  p * k \in Nat /\ p * m \in Nat /\ p * k <= p * m
OBVIOUS

\* Updaters keep their fields.
LEMMA UpdaterSteps ==
    ASSUME NEW u \in Updaters
    PROVE  /\ \A pc \in Cycle : [u EXCEPT !.pc = pc] \in Updaters
           /\ \A pc \in Cycle : [u EXCEPT !.pc = pc, !.reload = TRUE] \in Updaters
           /\ [u EXCEPT !.reload = TRUE] \in Updaters
           /\ \A n \in Nat : [u EXCEPT !.ticks = n] \in Updaters
           /\ \A n \in Nat : [u EXCEPT !.pc = "try", !.began = n] \in Updaters
BY DEF Updaters, Cycle

LEMMA StartTyped == ASSUME GeoTyped, StartUpdater PROVE GeoTyped' /\ UpdaterFrame
<1>1. /\ updater' \in Updaters /\ (updater'.pc # "stopped" => updater'.period \in Intervals)
      /\ updater'.pc # "idle" /\ updater'.ticker = None
  <2>1. stored.interval \in Intervals /\ stored.interval \in Nat
    BY GeoAssumption DEF GeoTyped
  <2>2. CASE updater' = [UpdaterOff EXCEPT !.pc = "begin", !.period = stored.interval]
    BY <2>1, <2>2 DEF UpdaterOff, Updaters, Editions
  <2>3. CASE updater' = [UpdaterOff EXCEPT !.pc = "stopped"]
    BY <2>3 DEF UpdaterOff, Updaters, Editions
  <2> QED BY <2>2, <2>3 DEF StartUpdater
<1> QED BY <1>1, FaultTyped DEF StartUpdater, GeoTyped, files, settings, UpdaterFrame

\* A cycle begins, with the ticks until now counted when it answers one.
LEMMA BeginCycleFields ==
    ASSUME GeoTyped, BeginCycle
    PROVE  \E u \in Updaters :
              /\ u.pc = updater.pc /\ u.edition = updater.edition /\ u.reload = updater.reload
              /\ u.period = updater.period /\ u.ticker = updater.ticker
              /\ u.period \in Intervals /\ u.period \in Nat \ {0}
              /\ \/ updater.pc = "begin" /\ u = updater
                 \/ /\ updater.pc = "idle" /\ u.ticker \in Nat
                    /\ u.ticker + u.period * u.ticks <= now /\ now < u.ticker + u.period * u.ticks + u.period
              /\ updater' = IF HasCredentials THEN [u EXCEPT !.pc = "try", !.began = now] ELSE Rested(u)
<1>1. updater \in Updaters /\ updater.pc \in {"begin", "idle"} /\ now \in Nat
  BY DEF GeoTyped, BeginCycle, Ticked
<1>2. updater.period \in Intervals /\ updater.period \in Nat \ {0}
  BY <1>1, GeoAssumption DEF GeoTyped
<1>3. CASE Ticked
  <2> DEFINE u == [updater EXCEPT !.ticks = Ticks]
  <2>1. updater.pc = "idle" /\ updater.ticker \in Nat /\ updater.ticker <= now
    BY <1>1, <1>3 DEF Ticked, GeoTyped, Updaters
  <2>2. /\ Ticks \in Nat
        /\ updater.period * Ticks <= now - updater.ticker
        /\ now - updater.ticker < updater.period * Ticks + updater.period
    <3>1. now - updater.ticker \in Nat
      BY <1>1, <2>1
    <3> QED BY <1>2, <3>1, DivBounds DEF Ticks
  <2>3. updater.period * Ticks \in Nat
    BY <1>2, <2>2
  <2>4. /\ updater.ticker + updater.period * Ticks <= now
        /\ now < updater.ticker + updater.period * Ticks + updater.period
    BY <1>1, <1>2, <2>1, <2>2, <2>3
  <2>5. /\ u \in Updaters /\ u.pc = updater.pc /\ u.edition = updater.edition /\ u.reload = updater.reload
        /\ u.period = updater.period /\ u.ticker = updater.ticker /\ u.ticks = Ticks
    BY <1>1, <2>2 DEF Updaters
  <2>6. updater' = IF HasCredentials THEN [u EXCEPT !.pc = "try", !.began = now] ELSE Rested(u)
    BY <1>3 DEF BeginCycle
  <2> HIDE DEF u
  <2> QED BY <1>2, <2>1, <2>4, <2>5, <2>6
<1>4. CASE ~Ticked
  <2>1. updater.pc = "begin"
    BY <1>4 DEF BeginCycle
  <2>2. updater' = IF HasCredentials THEN [updater EXCEPT !.pc = "try", !.began = now] ELSE Rested(updater)
    BY <1>4 DEF BeginCycle
  <2> QED BY <1>1, <1>2, <2>1, <2>2
<1> QED BY <1>3, <1>4

LEMMA BeginCycleTyped == ASSUME GeoTyped, BeginCycle PROVE GeoTyped' /\ UpdaterFrame
<1>1. PICK u \in Updaters :
         /\ u.pc = updater.pc /\ u.period = updater.period /\ u.ticker = updater.ticker
         /\ u.period \in Intervals
         /\ updater' = IF HasCredentials THEN [u EXCEPT !.pc = "try", !.began = now] ELSE Rested(u)
  BY BeginCycleFields
<1>2. now \in Nat /\ (updater.ticker # None => updater.ticker <= now)
  BY DEF GeoTyped
<1>3. /\ updater' \in Updaters /\ updater'.period \in Intervals
      /\ updater'.pc = "idle" => updater'.ticker # None
      /\ updater'.ticker # None => updater'.ticker <= now
  <2>1. CASE updater' = [u EXCEPT !.pc = "try", !.began = now]
    <3>1. updater' \in Updaters /\ updater'.pc = "try" /\ updater'.period = u.period /\ updater'.ticker = u.ticker
      BY <1>2, <2>1 DEF Updaters, Cycle
    <3> QED BY <1>1, <1>2, <3>1
  <2>2. CASE updater' = Rested(u)
    <3>1. Rested(u) \in Updaters /\ Rested(u).period = u.period
      BY <1>2, RestedFields
    <3>2. Rested(u).ticker # None /\ Rested(u).ticker <= now
      BY <1>1, <1>2, RestedTicker
    <3>3. u.period \in Intervals
      BY <1>1
    <3> QED BY <2>2, <3>1, <3>2, <3>3
  <2> QED BY <1>1, <2>1, <2>2
<1> QED BY <1>3 DEF BeginCycle, geoBounds, GeoTyped, files, settings, UpdaterFrame

LEMMA NextEditionTyped ==
    ASSUME now \in Nat, NEW u \in Updaters, u.ticker # None => u.ticker <= now, now' \in Nat, now <= now',
           NEW v, v = NextEdition(u)
    PROVE  /\ v \in Updaters /\ v.period = u.period
           /\ v.pc \in {"try", "reload", "idle"}
           /\ v.pc = "idle" => v.ticker # None
           /\ v.ticker # None => v.ticker <= now'
<1>1. ASSUME v.ticker = u.ticker PROVE v.ticker # None => v.ticker <= now'
  <2>1. CASE u.ticker = None
    BY <1>1, <2>1
  <2>2. CASE u.ticker # None
    <3>1. u.ticker \in Nat
      BY <2>2 DEF Updaters
    <3> QED BY <1>1, <2>2, <3>1
  <2> QED BY <2>1, <2>2
<1>2. CASE u.edition = "asn"
  <2>1. v = [u EXCEPT !.pc = "try", !.edition = "city"]
    BY <1>2 DEF NextEdition
  <2>2. v \in Updaters /\ v.period = u.period /\ v.pc = "try" /\ v.ticker = u.ticker
    BY <2>1 DEF Updaters, Cycle, Editions
  <2> QED BY <1>1, <2>2
<1>3. CASE u.edition # "asn" /\ u.reload
  <2>1. v = [u EXCEPT !.pc = "reload"]
    BY <1>3 DEF NextEdition
  <2>2. v \in Updaters /\ v.period = u.period /\ v.pc = "reload" /\ v.ticker = u.ticker
    BY <2>1 DEF Updaters, Cycle
  <2> QED BY <1>1, <2>2
<1>4. CASE u.edition # "asn" /\ ~u.reload
  <2>1. v = Rested(u)
    BY <1>4 DEF NextEdition
  <2>2. v \in Updaters /\ v.period = u.period /\ v.pc = "idle"
    BY <2>1, RestedFields
  <2>3. v.ticker # None /\ v.ticker <= now
    BY <2>1, RestedTicker
  <2>4. v.ticker \in Nat
    BY <2>2, <2>3 DEF Updaters
  <2> QED BY <2>2, <2>3, <2>4
<1> QED BY <1>2, <1>3, <1>4

LEMMA TryTyped == ASSUME GeoTyped, TryEdition PROVE GeoTyped' /\ UpdaterFrame
<1>1. updater \in Updaters /\ updater.pc = "try" /\ now \in Nat /\ (updater.ticker # None => updater.ticker <= now)
      /\ updater.period \in Intervals
  BY DEF GeoTyped, TryEdition
<1>2. now' = now
  BY DEF TryEdition
<1>3. /\ updater' \in Updaters /\ updater'.period = updater.period /\ updater'.pc \notin {"off", "stopped"}
      /\ updater'.pc = "idle" => updater'.ticker # None
      /\ updater'.ticker # None => updater'.ticker <= now
  <2>1. CASE updater' = NextEdition(updater)
    BY <1>1, <1>2, <2>1, NextEditionTyped
  <2>2. ASSUME NEW pc \in {"csv", "mmdb"}, updater' = [updater EXCEPT !.pc = pc]
        PROVE  /\ updater' \in Updaters /\ updater'.period = updater.period /\ updater'.pc = pc
               /\ updater'.ticker = updater.ticker
    BY <1>1, <2>2 DEF Updaters, Cycle
  <2>3. CASE updater' = [updater EXCEPT !.pc = "csv"]
    BY <1>1, <2>2, <2>3
  <2>4. CASE updater' = [updater EXCEPT !.pc = "mmdb"]
    BY <1>1, <2>2, <2>4
  <2> QED BY <2>1, <2>3, <2>4 DEF TryEdition
<1> QED BY <1>1, <1>3 DEF TryEdition, geoBounds, GeoTyped, files, settings, UpdaterFrame

\* Time passes during a download, at most once in a cycle.
LEMMA ElapseTyped ==
    ASSUME GeoTyped, Elapse \/ now' = now
    PROVE  now' \in Nat /\ now <= now' /\ now' <= now + 1 /\ (now' # now => updater.began = now)
BY DEF Elapse, GeoTyped

LEMMA MarkTyped ==
    ASSUME GeoTyped, now' \in Nat, NEW e \in Editions, Mark(e)
    PROVE  /\ marks' \in [Editions -> Nat \cup {None}]
           /\ geoFaults' \in Nat
           /\ geoFaults' = 0 => geoFaults = 0 /\ marks' = [marks EXCEPT ![e] = now']
BY DEF Mark, Fault, GeoTyped

LEMMA DownloadMMDBTyped == ASSUME GeoTyped, DownloadMMDB PROVE GeoTyped' /\ UpdaterFrame
<1> DEFINE e == updater.edition
<1>1. updater \in Updaters /\ updater.pc = "mmdb" /\ now \in Nat /\ (updater.ticker # None => updater.ticker <= now)
      /\ updater.period \in Intervals /\ e \in Editions /\ cut' \in BOOLEAN
  BY DEF GeoTyped, DownloadMMDB, Updaters
<1>2. Elapse \/ now' = now
  BY DEF DownloadMMDB
<1>3. now' \in Nat /\ now <= now'
  BY <1>2, ElapseTyped
<1>4. /\ updater' \in Updaters /\ updater'.period = updater.period /\ updater'.pc = "csv"
      /\ updater'.ticker = updater.ticker
  <2>1. CASE updater' = [updater EXCEPT !.pc = "csv", !.reload = TRUE]
    BY <1>1, <2>1 DEF Updaters, Cycle
  <2>2. CASE updater' = [updater EXCEPT !.pc = "csv"]
    BY <1>1, <2>2 DEF Updaters, Cycle
  <2> QED BY <2>1, <2>2 DEF DownloadMMDB
<1>5. updater'.ticker # None => updater'.ticker <= now'
  <2>1. CASE updater.ticker = None
    BY <1>4, <2>1
  <2>2. CASE updater.ticker # None
    <3>1. updater.ticker \in Nat
      BY <1>1, <2>2 DEF Updaters
    <3> QED BY <1>1, <1>3, <1>4, <3>1
  <2> QED BY <2>1, <2>2
<1>6. CASE /\ mmdb' = Extracted(e) /\ mtime' = [mtime EXCEPT ![e] = now'] /\ Mark(e)
  <2>1. mmdb' \in [Editions -> Nat] /\ mtime' \in [Editions -> Nat]
    BY <1>1, <1>3, <1>6 DEF Extracted, GeoTyped
  <2>2. marks' \in [Editions -> Nat \cup {None}] /\ geoFaults' \in Nat
    BY <1>1, <1>3, <1>6, MarkTyped
  <2> QED BY <1>1, <1>3, <1>4, <1>5, <2>1, <2>2 DEF DownloadMMDB, GeoTyped, UpdaterFrame
<1>7. CASE (Fault \/ UNCHANGED geoFaults) /\ UNCHANGED <<mmdb, mtime, marks>>
  <2>1. geoFaults' \in Nat
    BY <1>7, FaultTyped DEF GeoTyped
  <2> QED BY <1>1, <1>3, <1>4, <1>5, <1>7, <2>1 DEF DownloadMMDB, GeoTyped, UpdaterFrame
<1> QED BY <1>6, <1>7 DEF DownloadMMDB

LEMMA DownloadCSVTyped == ASSUME GeoTyped, DownloadCSV PROVE GeoTyped' /\ UpdaterFrame
<1> DEFINE e == updater.edition
<1>1. updater \in Updaters /\ updater.pc = "csv" /\ now \in Nat /\ (updater.ticker # None => updater.ticker <= now)
      /\ updater.period \in Intervals /\ e \in Editions /\ cut' \in BOOLEAN
  BY DEF GeoTyped, DownloadCSV, Updaters
<1>2. Elapse \/ now' = now
  BY DEF DownloadCSV
<1>3. now' \in Nat /\ now <= now'
  BY <1>2, ElapseTyped
<1>4. ASSUME NEW u \in Updaters, u.ticker = updater.ticker, u.period = updater.period, updater' = NextEdition(u)
      PROVE  /\ updater' \in Updaters /\ updater'.period \in Intervals
             /\ updater'.pc = "idle" => updater'.ticker # None
             /\ updater'.ticker # None => updater'.ticker <= now'
  BY <1>1, <1>3, <1>4, NextEditionTyped
<1>5. /\ updater' \in Updaters /\ updater'.period \in Intervals
      /\ updater'.pc = "idle" => updater'.ticker # None
      /\ updater'.ticker # None => updater'.ticker <= now'
  <2>1. CASE updater' = NextEdition([updater EXCEPT !.reload = TRUE])
    <3> DEFINE u == [updater EXCEPT !.reload = TRUE]
    <3>1. u \in Updaters /\ u.ticker = updater.ticker /\ u.period = updater.period
      BY <1>1 DEF Updaters
    <3> HIDE DEF u
    <3> QED BY <1>4, <2>1, <3>1 DEF u
  <2>2. CASE updater' = NextEdition(updater)
    BY <1>1, <1>4, <2>2
  <2> QED BY <2>1, <2>2 DEF DownloadCSV
<1>6. published \in Nat /\ csv \in [Sidecars -> Nat]
  BY DEF GeoTyped
<1>7. \A names : Replaced(names) \in [Sidecars -> Nat]
  BY <1>6 DEF Replaced
<1>8. csv' \in [Sidecars -> Nat] /\ marks' \in [Editions -> Nat \cup {None}] /\ geoFaults' \in Nat
  <2>1. CASE csv' = Replaced(SidecarsOf[e]) /\ Mark(e)
    BY <1>1, <1>3, <1>7, <2>1, MarkTyped
  <2>2. CASE (\E done \in SUBSET SidecarsOf[e] : csv' = Replaced(done)) /\ Fault /\ UNCHANGED marks
    BY <1>7, <2>2, FaultTyped DEF GeoTyped
  <2>3. CASE UNCHANGED <<csv, marks, geoFaults>>
    BY <1>6, <2>3 DEF GeoTyped
  <2> QED BY <2>1, <2>2, <2>3 DEF DownloadCSV
<1> QED BY <1>1, <1>3, <1>5, <1>8 DEF DownloadCSV, GeoTyped, UpdaterFrame

LEMMA ReloadTyped == ASSUME GeoTyped, Reload PROVE GeoTyped' /\ UpdaterFrame
<1>1. updater \in Updaters /\ updater.pc = "reload" /\ now \in Nat /\ (updater.ticker # None => updater.ticker <= now)
      /\ updater.period \in Intervals
  BY DEF GeoTyped, Reload
<1>2. updater' = Rested(updater)
  BY DEF Reload
<1>3. updater' \in Updaters /\ updater'.period = updater.period
  BY <1>1, <1>2, RestedFields
<1>4. updater'.ticker # None /\ updater'.ticker <= now
  BY <1>1, <1>2, RestedTicker
<1>5. geoFaults' \in Nat
  BY FaultTyped DEF Reload, GeoTyped
<1> QED BY <1>1, <1>3, <1>4, <1>5 DEF Reload, GeoTyped, files, settings, UpdaterFrame

\* What the updater sees of everything else.
UpdaterSees == <<now, files, stored, marks, updater, geoFaults, cut>>

LEMMA LookupTyped ==
    ASSUME GeoTyped, NEW p \in Lookups, BeginLookup(p) \/ LookUpLocally(p) \/ LookUpDNS(p)
    PROVE  GeoTyped' /\ UpdaterFrame /\ UNCHANGED <<UpdaterSees, geoDB, crossed>>
<1>1. UNCHANGED <<now, published, files, settings, updater, panel, cut, geoFaults, geoDB, crossed>>
  BY DEF BeginLookup, LookUpLocally, LookUpDNS, geoBounds
<1>2. GeoTyped'
  BY <1>1, GeoTypedKept
<1> QED BY <1>1, <1>2 DEF UpdaterFrame, UpdaterSees, settings

LEMMA ClearedFields ==
    ASSUME NEW out, out = [key |-> "", account |-> ""]
    PROVE  DOMAIN out = {"account", "key"} /\ out["key"] = "" /\ out["account"] = ""
OBVIOUS

\* What a request makes of the settings, when it is not refused.
LEMMA RequestedSettings ==
    ASSUME GeoTyped, NEW req \in ConfigRequests, NEW out, out = SettingsFromUpdate(req, stored), out # <<>>
    PROVE  /\ DOMAIN out \subseteq PanelKeys
           /\ "interval" \in DOMAIN out => out["interval"] \in Intervals
           /\ ValueAfter(out, stored, "account") = "" <=> ValueAfter(out, stored, "key") = ""
<1>1. CASE req.clear
  <2>1. out = [key |-> "", account |-> ""]
    BY <1>1 DEF SettingsFromUpdate
  <2>2. DOMAIN out = {"account", "key"} /\ out["key"] = "" /\ out["account"] = ""
    BY <2>1, ClearedFields
  <2> QED BY <2>2 DEF PanelKeys, ValueAfter
<1>2. CASE ~req.clear
  <2> DEFINE o == [k \in {j \in {"account", "key", "interval"} : req[j] # None} |-> req[k]]
  <2>1. out = o /\ (ValueAfter(o, stored, "account") = "" <=> ValueAfter(o, stored, "key") = "")
    BY <1>2 DEF SettingsFromUpdate
  <2>2. req.interval \in Intervals \cup {None}
    <3>1. req # [clear |-> TRUE]
      <4>1. [clear |-> TRUE].clear
        OBVIOUS
      <4> QED BY <1>2, <4>1
    <3>2. req \in [clear : {FALSE}, account : {None, "a"}, key : {None, "k"}, interval : Intervals \cup {None}]
      BY <3>1 DEF ConfigRequests
    <3> QED BY <3>2
  <2>3. DOMAIN o \subseteq PanelKeys /\ ("interval" \in DOMAIN o => o["interval"] \in Intervals)
    BY <2>2 DEF PanelKeys
  <2> QED BY <2>1, <2>3
<1> QED BY <1>1, <1>2

LEMMA RequestTyped ==
    ASSUME GeoTyped, NEW a \in Administrators, RequestConfig(a)
    PROVE  GeoTyped' /\ UNCHANGED <<UpdaterSees, published, configured, geoDB>>
<1>1. PICK req \in ConfigRequests :
         SettingsFromUpdate(req, stored) # <<>> /\ panel' = [panel EXCEPT ![a] = SettingsFromUpdate(req, stored)]
  BY DEF RequestConfig
<1>2. UNCHANGED <<now, published, files, settings, updater, cut, geoFaults, geoDB>>
  BY DEF RequestConfig
<1> DEFINE out == SettingsFromUpdate(req, stored)
<1>3. /\ DOMAIN out \subseteq PanelKeys /\ ("interval" \in DOMAIN out => out["interval"] \in Intervals)
  BY <1>1, RequestedSettings
<1> HIDE DEF out
<1>4. /\ DOMAIN panel' = Administrators
      /\ \A b \in Administrators : /\ DOMAIN panel'[b] \subseteq PanelKeys
                                   /\ "interval" \in DOMAIN panel'[b] => panel'[b]["interval"] \in Intervals
  BY <1>1, <1>3 DEF GeoTyped, out
<1> QED BY <1>2, <1>4 DEF GeoTyped, UpdaterSees, files, settings

\* One key of a request is written, or the request fails.
LEMMA WriteFields ==
    ASSUME GeoTyped, NEW a \in Administrators, WriteSetting(a)
    PROVE  \/ \E k \in DOMAIN panel[a] :
                 /\ stored' = [stored EXCEPT ![k] = panel[a][k]]
                 /\ panel' = [panel EXCEPT ![a] = [j \in DOMAIN panel[a] \ {k} |-> panel[a][j]]]
                 /\ geoFaults' = geoFaults
           \/ panel' = [panel EXCEPT ![a] = <<>>] /\ stored' = stored /\ Fault
BY DEF WriteSetting

LEMMA WriteTyped ==
    ASSUME GeoTyped, NEW a \in Administrators, WriteSetting(a)
    PROVE  GeoTyped' /\ UNCHANGED <<now, published, files, marks, updater, cut, geoDB>>
<1>1. UNCHANGED <<now, published, files, marks, updater, cut, geoDB>>
  BY DEF WriteSetting
<1>2. configured' \in Nat \cup {None}
  BY DEF WriteSetting, GeoTyped
<1>3. /\ DOMAIN stored' = PanelKeys /\ stored'.interval \in Intervals /\ DOMAIN panel' = Administrators
      /\ \A b \in Administrators : /\ DOMAIN panel'[b] \subseteq PanelKeys
                                   /\ "interval" \in DOMAIN panel'[b] => panel'[b]["interval"] \in Intervals
  <2>1. ASSUME NEW k \in DOMAIN panel[a], stored' = [stored EXCEPT ![k] = panel[a][k]],
               panel' = [panel EXCEPT ![a] = [j \in DOMAIN panel[a] \ {k} |-> panel[a][j]]]
        PROVE  <1>3
    <3> DEFINE rest == [j \in DOMAIN panel[a] \ {k} |-> panel[a][j]]
    <3>1. DOMAIN rest \subseteq PanelKeys /\ ("interval" \in DOMAIN rest => rest["interval"] \in Intervals)
      BY DEF GeoTyped
    <3> HIDE DEF rest
    <3>2. DOMAIN stored' = PanelKeys /\ stored'.interval \in Intervals
      BY <2>1 DEF GeoTyped, PanelKeys
    <3> QED BY <2>1, <3>1, <3>2 DEF GeoTyped, rest
  <2>2. CASE panel' = [panel EXCEPT ![a] = <<>>] /\ stored' = stored
    BY <2>2, EmptyDomain DEF GeoTyped
  <2> QED BY <2>1, <2>2, WriteFields
<1>4. geoFaults' \in Nat
  BY WriteFields, FaultTyped DEF GeoTyped
<1> QED BY <1>1, <1>2, <1>3, <1>4 DEF GeoTyped, files

LEMMA WorldTyped ==
    ASSUME GeoTyped, PublishDatabase \/ Wait \/ RestartServer
    PROVE  GeoTyped'
<1>1. CASE PublishDatabase
  BY <1>1 DEF PublishDatabase, GeoTyped, files, settings, geoBounds
<1>2. CASE Wait
  <2>1. now' \in Nat /\ (updater.ticker # None => updater.ticker <= now')
    BY <1>2 DEF Wait, GeoTyped, Updaters
  <2> QED BY <1>2, <2>1 DEF Wait, GeoTyped, files, settings, geoBounds
<1>3. CASE RestartServer
  <2>1. updater' = UpdaterOff /\ panel' = [a \in Administrators |-> <<>>]
    BY <1>3 DEF RestartServer
  <2>2. updater' \in Updaters /\ updater'.pc = "off" /\ updater'.ticker = None
    BY <2>1 DEF UpdaterOff, Updaters, Editions
  <2>3. DOMAIN panel' = Administrators /\ \A a \in Administrators : DOMAIN panel'[a] = {}
    BY <2>1, EmptyDomain
  <2>4. cut' \in BOOLEAN
    BY <1>3 DEF RestartServer
  <2> QED BY <1>3, <2>2, <2>3, <2>4 DEF RestartServer, GeoTyped, files, settings
<1> QED BY <1>1, <1>2, <1>3

\* The steps of the files' keeper, of lookups, of administrators and of the rest.
LEMMA GeoTypedNext == GeoTyped /\ [GeoNext]_geoVars => GeoTyped'
<1> SUFFICES ASSUME GeoTyped, [GeoNext]_geoVars PROVE GeoTyped'
  OBVIOUS
<1>1. CASE UpdaterStep
  BY <1>1, StartTyped, BeginCycleTyped, TryTyped, DownloadMMDBTyped, DownloadCSVTyped, ReloadTyped DEF UpdaterStep
<1>2. CASE \E p \in Lookups : BeginLookup(p) \/ LookUpLocally(p) \/ LookUpDNS(p)
  BY <1>2, LookupTyped
<1>3. CASE \E a \in Administrators : RequestConfig(a) \/ WriteSetting(a)
  BY <1>3, RequestTyped, WriteTyped
<1>4. CASE PublishDatabase \/ Wait \/ RestartServer
  BY <1>4, WorldTyped
<1>5. CASE UNCHANGED geoVars
  BY <1>5, GeoTypedKept DEF geoVars, geoBounds
<1> QED BY <1>1, <1>2, <1>3, <1>4, <1>5 DEF GeoNext

-----------------------------------------------------------------------------
(* The readers that are open, and the files.                                 *)

\* Without a failure the readers are those of the files, unless the cycle that
\* runs has downloaded something.
Newest ==
    geoFaults = 0 =>
        /\ updater.pc \notin Cycle => ~updater.reload
        /\ ~updater.reload => geoDB = Opened(geoDB.generation)

LEMMA NewestFiles ==
    ASSUME UNCHANGED <<mmdb, csv, geoDB>>
    PROVE  Opened(geoDB.generation)' = Opened(geoDB.generation)
BY DEF Opened

LEMMA NewestNext == GeoTyped /\ Newest /\ [GeoNext]_geoVars => Newest'
<1> SUFFICES ASSUME GeoTyped, Newest, [GeoNext]_geoVars, geoFaults' = 0
             PROVE  /\ updater'.pc \notin Cycle => ~updater'.reload
                    /\ ~updater'.reload => geoDB' = Opened(geoDB.generation)'
  BY DEF Newest
<1>0. updater \in Updaters /\ now \in Nat /\ geoFaults \in Nat
  BY DEF GeoTyped
<1>1. CASE UNCHANGED <<mmdb, csv, geoDB, updater, geoFaults>>
  BY <1>1, NewestFiles DEF Newest
<1>2. CASE StartUpdater
  <2>1. ~updater'.reload /\ updater.pc = "off"
    BY <1>2 DEF StartUpdater, UpdaterOff
  <2>2. geoFaults = 0 /\ UNCHANGED <<mmdb, csv, geoDB>>
    BY <1>0, <1>2, FaultTyped DEF StartUpdater, files
  <2> QED BY <2>1, <2>2, NewestFiles DEF Newest, Cycle
<1>3. CASE BeginCycle
  <2>1. PICK u \in Updaters : /\ u.pc = updater.pc /\ u.reload = updater.reload
                              /\ updater' = IF HasCredentials THEN [u EXCEPT !.pc = "try", !.began = now] ELSE Rested(u)
    BY <1>3, BeginCycleFields
  <2>2. UNCHANGED <<mmdb, csv, geoDB, geoFaults>> /\ updater.pc \in {"begin", "idle"}
    BY <1>3 DEF BeginCycle, files, geoBounds, Ticked
  <2>3. ~updater.reload /\ geoDB = Opened(geoDB.generation)
    BY <2>2 DEF Newest, Cycle
  <2>4. ~updater'.reload
    <3>1. ~u.reload
      BY <2>1, <2>3
    <3>2. CASE updater' = [u EXCEPT !.pc = "try", !.began = now]
      BY <3>1, <3>2 DEF Updaters
    <3>3. CASE updater' = Rested(u)
      BY <1>0, <3>3, RestedFields
    <3> QED BY <2>1, <3>2, <3>3
  <2> QED BY <2>2, <2>3, <2>4, NewestFiles
<1>4. ASSUME NEW u \in Updaters, updater' = NextEdition(u)
      PROVE  /\ updater'.pc \notin Cycle => ~updater'.reload
             /\ u.reload => updater'.reload
             /\ ~u.reload => ~updater'.reload
  <2>1. CASE u.edition = "asn"
    <3>1. updater' = [u EXCEPT !.pc = "try", !.edition = "city"]
      BY <1>4, <2>1 DEF NextEdition
    <3>2. updater'.pc = "try" /\ updater'.reload = u.reload
      BY <3>1 DEF Updaters
    <3> QED BY <3>2 DEF Cycle
  <2>2. CASE u.edition # "asn" /\ u.reload
    <3>1. updater' = [u EXCEPT !.pc = "reload"]
      BY <1>4, <2>2 DEF NextEdition
    <3>2. updater'.pc = "reload" /\ updater'.reload = u.reload
      BY <3>1 DEF Updaters
    <3> QED BY <2>2, <3>2 DEF Cycle
  <2>3. CASE u.edition # "asn" /\ ~u.reload
    <3>1. updater' = Rested(u)
      BY <1>4, <2>3 DEF NextEdition
    <3> QED BY <1>0, <2>3, <3>1, RestedFields
  <2> QED BY <2>1, <2>2, <2>3
<1>5. CASE TryEdition
  <2>1. UNCHANGED <<mmdb, csv, geoDB, geoFaults>>
    BY <1>5 DEF TryEdition, files, geoBounds
  <2>2. CASE updater' = NextEdition(updater)
    BY <1>0, <1>4, <2>1, <2>2, NewestFiles DEF Newest
  <2>3. ASSUME NEW pc \in Cycle, updater' = [updater EXCEPT !.pc = pc]
        PROVE  updater'.pc \in Cycle /\ updater'.reload = updater.reload
    BY <1>0, <2>3 DEF Updaters
  <2>4. CASE updater' = [updater EXCEPT !.pc = "csv"]
    BY <2>1, <2>3, <2>4, NewestFiles DEF Newest, Cycle
  <2>5. CASE updater' = [updater EXCEPT !.pc = "mmdb"]
    BY <2>1, <2>3, <2>5, NewestFiles DEF Newest, Cycle
  <2> QED BY <1>5, <2>2, <2>4, <2>5 DEF TryEdition
<1>6. CASE DownloadMMDB
  <2>1. CASE updater' = [updater EXCEPT !.pc = "csv", !.reload = TRUE]
    <3>1. updater'.pc = "csv" /\ updater'.reload
      BY <1>0, <2>1 DEF Updaters
    <3> QED BY <3>1 DEF Cycle
  <2>2. CASE updater' = [updater EXCEPT !.pc = "csv"] /\ UNCHANGED mmdb /\ (Fault \/ UNCHANGED geoFaults)
    <3>1. updater'.pc = "csv" /\ updater'.reload = updater.reload
      BY <1>0, <2>2 DEF Updaters
    <3>2. geoFaults = 0 /\ UNCHANGED <<mmdb, csv, geoDB>>
      BY <1>0, <1>6, <2>2, FaultTyped DEF DownloadMMDB
    <3> QED BY <3>1, <3>2, NewestFiles DEF Newest, Cycle
  <2> QED BY <1>6, <2>1, <2>2 DEF DownloadMMDB
<1>7. CASE DownloadCSV
  <2>1. CASE updater' = NextEdition([updater EXCEPT !.reload = TRUE])
    <3> DEFINE u == [updater EXCEPT !.reload = TRUE]
    <3>1. u \in Updaters /\ u.reload
      BY <1>0 DEF Updaters
    <3> HIDE DEF u
    <3> QED BY <1>4, <2>1, <3>1 DEF u
  <2>2. CASE updater' = NextEdition(updater) /\ UNCHANGED <<csv, geoFaults>>
    <3>1. UNCHANGED <<mmdb, csv, geoDB, geoFaults>>
      BY <1>7, <2>2 DEF DownloadCSV
    <3> QED BY <1>0, <1>4, <2>2, <3>1, NewestFiles DEF Newest
  <2>3. CASE Fault
    BY <1>0, <2>3, FaultTyped
  <2> QED BY <1>7, <2>1, <2>2, <2>3 DEF DownloadCSV
<1>8. CASE Reload
  <2>1. ~updater'.reload
    BY <1>0, <1>8, RestedFields DEF Reload
  <2>2. geoDB' = Opened(geoDB.generation + 1) /\ UNCHANGED <<mmdb, csv>>
    BY <1>0, <1>8, FaultTyped DEF Reload, files
  <2>3. geoDB'.generation = geoDB.generation + 1
    BY <2>2 DEF Opened
  <2>4. geoDB' = Opened(geoDB.generation)'
    BY <2>2, <2>3 DEF Opened
  <2> QED BY <2>1, <2>4
<1>9. CASE RestartServer
  <2>1. geoDB' = Opened(0) /\ updater' = UpdaterOff /\ UNCHANGED <<mmdb, csv>>
    BY <1>9 DEF RestartServer, files
  <2>2. ~updater'.reload /\ geoDB'.generation = 0
    BY <2>1 DEF UpdaterOff, Opened
  <2>3. geoDB' = Opened(geoDB.generation)'
    BY <2>1, <2>2 DEF Opened
  <2> QED BY <2>2, <2>3
<1>10. CASE \E p \in Lookups : BeginLookup(p) \/ LookUpLocally(p) \/ LookUpDNS(p)
  BY <1>1, <1>10, LookupTyped DEF UpdaterSees, files
<1>11. ASSUME NEW a \in Administrators, RequestConfig(a) PROVE UNCHANGED <<mmdb, csv, geoDB, updater, geoFaults>>
  BY <1>11, RequestTyped DEF UpdaterSees, files
<1>12. ASSUME NEW a \in Administrators, WriteSetting(a) PROVE UNCHANGED <<mmdb, csv, geoDB, updater, geoFaults>>
  <2>1. geoFaults' = geoFaults
    BY <1>0, <1>12, WriteFields, FaultTyped
  <2> QED BY <1>12, <2>1, WriteTyped DEF files
<1>13. CASE PublishDatabase \/ Wait \/ UNCHANGED geoVars
  BY <1>1, <1>13 DEF PublishDatabase, Wait, geoVars, files, geoBounds
<1> QED BY <1>1, <1>2, <1>3, <1>5, <1>6, <1>7, <1>8, <1>9, <1>10, <1>11, <1>12, <1>13 DEF GeoNext, UpdaterStep

\* Between two cycles the server answers from the newest files it has: whatever a
\* cycle downloads is opened before the cycle ends, and an edition that downloads
\* nothing does not make it forget what the other did.
THEOREM FilesAreOpened == GeoSpec => []IdleUsesNewest
<1>1. GeoInit => GeoTyped /\ Newest
  <2>1. ASSUME GeoInit PROVE Newest
    <3>1. ~updater.reload /\ geoDB = Opened(0)
      BY <2>1 DEF GeoInit, UpdaterOff
    <3>2. geoDB.generation = 0
      BY <3>1 DEF Opened
    <3> QED BY <3>1, <3>2 DEF Newest
  <2> QED BY <2>1, InitGeoTyped
<1>2. GeoTyped /\ Newest /\ [GeoNext]_geoVars => GeoTyped' /\ Newest'
  BY GeoTypedNext, NewestNext
<1>3. Newest => IdleUsesNewest
  BY DEF Newest, IdleUsesNewest, Cycle
<1> QED BY <1>1, <1>2, <1>3, PTL DEF GeoSpec

-----------------------------------------------------------------------------
(* The credentials.                                                          *)

Together(pending) == ValueAfter(pending, stored, "account") = "" <=> ValueAfter(pending, stored, "key") = ""

\* One request at a time: what it still has to write leaves both or none.
Credentials ==
    geoFaults = 0 /\ ~crossed =>
        /\ \A a, b \in Administrators : panel[a] # <<>> /\ panel[b] # <<>> => a = b
        /\ \A a \in Administrators : panel[a] # <<>> => Together(panel[a])
        /\ (\A a \in Administrators : panel[a] = <<>>) => (stored.account = "" <=> stored.key = "")

LEMMA CredentialsKept == ASSUME Credentials, UNCHANGED <<stored, panel, crossed>>, geoFaults' = 0 => geoFaults = 0
                         PROVE  Credentials'
BY DEF Credentials, Together, ValueAfter

LEMMA CredentialsNext == GeoTyped /\ Credentials /\ [GeoNext]_geoVars => Credentials'
<1> SUFFICES ASSUME GeoTyped, Credentials, [GeoNext]_geoVars PROVE Credentials'
  OBVIOUS
<1>0. geoFaults \in Nat
  BY DEF GeoTyped
<1>1. CASE UpdaterStep \/ PublishDatabase \/ Wait \/ UNCHANGED geoVars
  <2>1. UNCHANGED <<stored, panel, crossed>>
    BY <1>1, StartTyped, BeginCycleTyped, TryTyped, DownloadMMDBTyped, DownloadCSVTyped, ReloadTyped
    DEF UpdaterStep, UpdaterFrame, StartUpdater, BeginCycle, TryEdition, DownloadMMDB, DownloadCSV, Reload,
        PublishDatabase, Wait, geoVars, settings
  <2>2. Fault \/ UNCHANGED geoFaults
    <3>1. CASE DownloadMMDB \/ DownloadCSV
      BY <3>1 DEF DownloadMMDB, DownloadCSV, Mark
    <3>2. CASE StartUpdater \/ BeginCycle \/ TryEdition \/ Reload
      BY <3>2 DEF StartUpdater, BeginCycle, TryEdition, Reload, geoBounds
    <3>3. CASE PublishDatabase \/ Wait \/ UNCHANGED geoVars
      BY <3>3 DEF PublishDatabase, Wait, geoVars, geoBounds
    <3> QED BY <1>1, <3>1, <3>2, <3>3 DEF UpdaterStep
  <2> QED BY <1>0, <2>1, <2>2, FaultTyped, CredentialsKept
<1>2. ASSUME NEW p \in Lookups, BeginLookup(p) \/ LookUpLocally(p) \/ LookUpDNS(p) PROVE Credentials'
  BY <1>2, LookupTyped, CredentialsKept DEF UpdaterFrame, UpdaterSees
<1>3. ASSUME NEW a \in Administrators, RequestConfig(a) PROVE Credentials'
  <2>1. PICK req \in ConfigRequests :
           SettingsFromUpdate(req, stored) # <<>> /\ panel' = [panel EXCEPT ![a] = SettingsFromUpdate(req, stored)]
    BY <1>3 DEF RequestConfig
  <2> DEFINE out == SettingsFromUpdate(req, stored)
  <2>2. /\ UNCHANGED <<stored, geoFaults>>
        /\ crossed' = (crossed \/ \E b \in Administrators : panel[b] # <<>>)
    BY <1>3 DEF RequestConfig, settings
  <2>3. ValueAfter(out, stored, "account") = "" <=> ValueAfter(out, stored, "key") = ""
    BY <2>1, RequestedSettings
  <2> HIDE DEF out
  <2>4. /\ panel'[a] = out /\ out # <<>>
        /\ \A b \in Administrators \ {a} : panel'[b] = panel[b]
    BY <2>1 DEF GeoTyped, out
  <2>5. Together(panel[a])'
    BY <2>2, <2>3, <2>4 DEF Together, ValueAfter
  <2>6. ~crossed' => \A b \in Administrators \ {a} : panel'[b] = <<>>
    BY <2>2, <2>4
  <2>7. ~crossed' => \A b \in Administrators : panel'[b] # <<>> => b = a
    BY <2>6
  <2> QED BY <2>4, <2>5, <2>7 DEF Credentials
<1>4. ASSUME NEW a \in Administrators, WriteSetting(a) PROVE Credentials'
  <2>1. panel[a] # <<>> /\ crossed' = crossed
    BY <1>4 DEF WriteSetting
  <2>2. CASE Fault
    BY <1>0, <2>2, FaultTyped DEF Credentials
  <2>3. ASSUME NEW k \in DOMAIN panel[a], stored' = [stored EXCEPT ![k] = panel[a][k]], geoFaults' = geoFaults,
               panel' = [panel EXCEPT ![a] = [j \in DOMAIN panel[a] \ {k} |-> panel[a][j]]]
        PROVE  Credentials'
    <3> DEFINE rest == [j \in DOMAIN panel[a] \ {k} |-> panel[a][j]]
    <3> SUFFICES ASSUME geoFaults' = 0, ~crossed'
                 PROVE  /\ \A b, c \in Administrators : panel'[b] # <<>> /\ panel'[c] # <<>> => b = c
                        /\ \A b \in Administrators : panel'[b] # <<>> => Together(panel[b])'
                        /\ (\A b \in Administrators : panel'[b] = <<>>) => (stored.account = "" <=> stored.key = "")'
      BY DEF Credentials
    <3>1. /\ Together(panel[a])
          /\ \A b \in Administrators \ {a} : panel[b] = <<>>
      BY <2>1, <2>3 DEF Credentials
    <3>2. /\ panel'[a] = rest
          /\ \A b \in Administrators \ {a} : panel'[b] = <<>>
      BY <2>3, <3>1 DEF GeoTyped
    <3>3. \A j \in {"account", "key"} : ValueAfter(rest, stored', j) = ValueAfter(panel[a], stored, j)
      BY <2>3 DEF ValueAfter, GeoTyped, PanelKeys
    <3>4. rest = <<>> => DOMAIN rest = {}
      BY EmptyDomain
    <3>5. rest = <<>> => \A j \in {"account", "key"} : ValueAfter(rest, stored', j) = stored'[j]
      BY <3>4 DEF ValueAfter
    <3> HIDE DEF rest
    <3>6. Together(panel[a])'
      BY <3>1, <3>2, <3>3 DEF Together
    <3>7. rest = <<>> => (stored'.account = "" <=> stored'.key = "")
      BY <3>1, <3>3, <3>5 DEF Together
    <3> QED BY <3>2, <3>6, <3>7
  <2> QED BY <1>4, <2>2, <2>3, WriteFields
<1>5. CASE RestartServer
  <2>1. /\ UNCHANGED <<stored, geoFaults>> /\ (\A a \in Administrators : panel'[a] = <<>>)
        /\ crossed' = (crossed \/ \E a \in Administrators : panel[a] # <<>>)
    BY <1>5 DEF RestartServer, settings
  <2> QED BY <2>1 DEF Credentials
<1> QED BY <1>1, <1>2, <1>3, <1>4, <1>5 DEF GeoNext

\* A lone administrator leaves both credentials or none: a request is refused
\* unless what it writes, with what is stored of the rest, is both or none, and
\* that stays so from statement to statement as long as no other one writes.
THEOREM CredentialsStayTogether == GeoSpec => []CredentialsTogether
<1>1. GeoInit => GeoTyped /\ Credentials
  <2>1. ASSUME GeoInit PROVE Credentials
    <3>1. PICK i \in Intervals : stored = [account |-> "", key |-> "", interval |-> i]
      BY <2>1 DEF GeoInit
    <3>2. stored.account = "" /\ stored.key = "" /\ \A a \in Administrators : panel[a] = <<>>
      BY <2>1, <3>1 DEF GeoInit
    <3> QED BY <3>2 DEF Credentials
  <2> QED BY <2>1, InitGeoTyped
<1>2. GeoTyped /\ Credentials /\ [GeoNext]_geoVars => GeoTyped' /\ Credentials'
  BY GeoTypedNext, CredentialsNext
<1>3. Credentials => CredentialsTogether
  BY DEF Credentials, CredentialsTogether
<1> QED BY <1>1, <1>2, <1>3, PTL DEF GeoSpec

-----------------------------------------------------------------------------
(* How old the files may be.                                                 *)

\* The last tick that was counted.
Grid == updater.ticker + updater.period * updater.ticks

\* An edition's files are all there, and were marked when they were downloaded.
Whole(e) ==
    /\ Missing(e) <=> SidecarsMissing(e)
    /\ ~Missing(e) => marks[e] \in Nat /\ marks[e] <= mtime[e] + 1

\* The mmdb is new, its CSV files are next.
Half(e) == ~Missing(e) /\ updater.began <= mtime[e] /\ mtime[e] <= now

\* At time t an edition was downloaded no longer than the interval ago, or
\* could not be.
Recent(e, t) == configured # None => t <= mtime[e] + Longest \/ t <= configured + Longest

\* The editions this cycle has seen to.
Seen == CASE updater.pc = "reload" -> Editions
          [] updater.pc \in {"try", "mmdb", "csv"} /\ updater.edition = "city" -> {"asn"}
          [] OTHER -> {}

Age ==
    /\ updater.pc # "stopped"
    /\ updater.pc \in {"off", "begin"} => updater.ticker = None
    /\ updater.ticker = None => updater.ticks = 0
    /\ updater.pc \notin Cycle => updater.edition = "asn"
    /\ \A e \in Editions : IF updater.pc = "csv" /\ updater.edition = e THEN Half(e) ELSE Whole(e)
    /\ updater.pc \in Cycle =>
          /\ updater.began <= now /\ now <= updater.began + 1
          /\ updater.ticker # None => Grid <= updater.began /\ updater.began < Grid + updater.period
          /\ \A e \in Seen : Recent(e, updater.began)
    /\ updater.pc = "idle" =>
          /\ Grid <= now /\ now <= Grid + updater.period
          /\ \A e \in Editions : Recent(e, Grid - 1)

Configured ==
    /\ configured # None <=> HasCredentials
    /\ configured # None => configured <= now

Fresh == Configured /\ (geoFaults = 0 /\ ~cut => Age)

LEMMA LongestBounds == Longest \in Intervals /\ \A i \in Intervals : i <= Longest
BY GeoAssumption DEF Longest

LEMMA LongestInterval == Longest \in Nat \ {0} /\ \A i \in Intervals : i <= Longest
BY LongestBounds, GeoAssumption

LEMMA FreshEnough == GeoTyped /\ Fresh => FilesStayFresh
<1> SUFFICES ASSUME GeoTyped, Fresh, geoFaults = 0, ~cut, configured # None, updater.pc = "idle", NEW e \in Editions
             PROVE  \/ now - mtime[e] <= updater.period + Longest + 1
                    \/ now - configured <= updater.period + Longest + 1
  BY DEF FilesStayFresh
<1>1. /\ now <= Grid + updater.period
      /\ Grid - 1 <= mtime[e] + Longest \/ Grid - 1 <= configured + Longest
  BY DEF Fresh, Age, Recent
<1>2. /\ updater.period \in Nat /\ updater.ticks \in Nat /\ updater.ticker \in Nat /\ now \in Nat
      /\ mtime[e] \in Nat /\ configured \in Nat
  BY DEF GeoTyped, Updaters
<1>3. Grid \in Nat
  <2>1. updater.period * updater.ticks \in Nat
    BY <1>2
  <2> QED BY <1>2, <2>1 DEF Grid
<1> QED BY <1>1, <1>2, <1>3, LongestInterval

LEMMA GridTyped ==
    ASSUME NEW u \in Updaters, u.ticker # None
    PROVE  u.ticker \in Nat /\ u.period * u.ticks \in Nat /\ u.ticker + u.period * u.ticks \in Nat
<1>1. u.ticker \in Nat /\ u.period \in Nat /\ u.ticks \in Nat
  BY DEF Updaters
<1>2. u.period * u.ticks \in Nat
  BY <1>1
<1> QED BY <1>1, <1>2

\* The files as they were.
LEMMA WholeKept ==
    ASSUME UNCHANGED <<mmdb, mtime, csv, marks>>
    PROVE  \A e \in Editions : Whole(e)' <=> Whole(e)
BY DEF Whole, Missing, SidecarsMissing

LEMMA StartAges ==
    ASSUME GeoTyped, Age, StartUpdater, geoFaults' = 0
    PROVE  Age'
<1>1. updater' = [UpdaterOff EXCEPT !.pc = "begin", !.period = stored.interval]
  BY FaultTyped DEF StartUpdater, GeoTyped
<1>2. updater'.pc = "begin" /\ updater'.ticker = None /\ updater'.ticks = 0 /\ updater'.edition = "asn"
  BY <1>1 DEF UpdaterOff
<1>3. \A e \in Editions : Whole(e)'
  BY WholeKept DEF StartUpdater, files, settings, Age
<1> QED BY <1>2, <1>3 DEF Age, Cycle

LEMMA BeginAges ==
    ASSUME GeoTyped, Age, Configured, BeginCycle
    PROVE  Age'
<1>1. PICK u \in Updaters :
              /\ u.pc = updater.pc /\ u.edition = updater.edition
              /\ u.period = updater.period /\ u.ticker = updater.ticker
              /\ u.period \in Intervals /\ u.period \in Nat \ {0}
              /\ \/ updater.pc = "begin" /\ u = updater
                 \/ /\ updater.pc = "idle" /\ u.ticker \in Nat
                    /\ u.ticker + u.period * u.ticks <= now /\ now < u.ticker + u.period * u.ticks + u.period
              /\ updater' = IF HasCredentials THEN [u EXCEPT !.pc = "try", !.began = now] ELSE Rested(u)
  BY BeginCycleFields
<1>2. UNCHANGED <<now, mmdb, mtime, csv, marks, configured, stored>> /\ now \in Nat
  BY DEF BeginCycle, files, settings, GeoTyped
<1>3. u.edition = "asn" /\ \A e \in Editions : Whole(e)'
  BY <1>1, <1>2, WholeKept DEF Age, Cycle
<1>4. u.ticker = None <=> updater.pc = "begin"
  BY <1>1, GeoAssumption DEF Age
<1>5. u.ticker = None => u.ticks = 0
  BY <1>1, <1>4 DEF Age
<1>6. CASE HasCredentials
  <2>1. updater' = [u EXCEPT !.pc = "try", !.began = now]
    BY <1>1, <1>6
  <2>2. /\ updater'.pc = "try" /\ updater'.began = now /\ updater'.edition = "asn"
        /\ updater'.ticker = u.ticker /\ updater'.ticks = u.ticks /\ updater'.period = u.period
    BY <1>3, <2>1 DEF Updaters
  <2>3. Grid' = u.ticker + u.period * u.ticks
    BY <2>2 DEF Grid
  <2>4. updater'.ticker # None => Grid' <= now /\ now < Grid' + updater'.period
    BY <1>1, <1>4, <2>2, <2>3
  <2>5. Seen' = {}
    BY <2>2 DEF Seen
  <2>6. now <= now + 1
    BY <1>2
  <2> QED BY <1>2, <1>3, <1>5, <2>2, <2>4, <2>5, <2>6 DEF Age, Cycle
<1>7. CASE ~HasCredentials
  <2>1. /\ updater'.pc = "idle" /\ updater'.edition = "asn"
        /\ updater'.period = u.period /\ updater'.ticks = u.ticks
        /\ updater'.ticker = IF u.ticker = None THEN now ELSE u.ticker
    BY <1>1, <1>2, <1>7, RestedFields
  <2>2. configured' = None
    BY <1>2, <1>7 DEF Configured
  <2>3. updater'.ticker # None
    BY <1>2, <2>1, GeoAssumption
  <2>4. Grid' <= now /\ now <= Grid' + updater'.period
    <3>1. CASE u.ticker = None
      <4>1. Grid' = now + u.period * 0
        BY <1>5, <2>1, <3>1 DEF Grid
      <4> QED BY <1>1, <1>2, <2>1, <4>1
    <3>2. CASE u.ticker # None
      <4>1. Grid' = u.ticker + u.period * u.ticks
        BY <2>1, <3>2 DEF Grid
      <4>2. u.ticker + u.period * u.ticks \in Nat
        BY <3>2, GridTyped
      <4> QED BY <1>1, <1>2, <1>4, <2>1, <3>2, <4>1, <4>2
    <3> QED BY <3>1, <3>2
  <2> QED BY <1>2, <1>3, <2>1, <2>2, <2>3, <2>4 DEF Age, Cycle, Recent
<1> QED BY <1>6, <1>7

LEMMA AtMostTransitive == \A g, b, n \in Nat : g - 1 <= b /\ b <= n => g - 1 <= n
OBVIOUS

\* A cycle that is done with an edition goes on to the next one, to the reload,
\* or to its rest.
LEMMA RestAges ==
    ASSUME GeoTyped, NEW u \in Updaters, updater' = Rested(u), u.ticker = updater.ticker,
           u.period = updater.period, u.ticks = updater.ticks, updater.period \in Intervals,
           now' = now, updater.began <= now, now <= updater.began + 1,
           updater.ticker = None => updater.ticks = 0,
           updater.ticker # None => Grid <= updater.began /\ updater.began < Grid + updater.period,
           \A e \in Editions : Whole(e)' /\ Recent(e, updater.began),
           UNCHANGED <<mtime, configured>>
    PROVE  Age'
<1> DEFINE b == updater.began
<1>1. now \in Nat /\ b \in Nat /\ updater.period \in Nat \ {0} /\ updater \in Updaters
  BY GeoAssumption DEF GeoTyped, Updaters
<1>2. /\ updater'.pc = "idle" /\ updater'.edition = "asn"
      /\ updater'.period = updater.period /\ updater'.ticks = updater.ticks
      /\ updater'.ticker = IF updater.ticker = None THEN now ELSE updater.ticker
  BY <1>1, RestedFields
<1>3. updater'.ticker # None
  BY <1>1, <1>2, GeoAssumption
<1>4. Grid' \in Nat /\ Grid' <= now /\ now <= Grid' + updater.period /\ Grid' - 1 <= b
  <2>1. CASE updater.ticker = None
    <3>1. Grid' = now + updater.period * 0
      BY <1>2, <2>1 DEF Grid
    <3> QED BY <1>1, <3>1
  <2>2. CASE updater.ticker # None
    <3>1. Grid' = Grid
      BY <1>2, <2>2 DEF Grid
    <3>2. Grid \in Nat
      BY <1>1, <2>2, GridTyped DEF Grid
    <3> QED BY <1>1, <2>2, <3>1, <3>2
  <2> QED BY <2>1, <2>2
<1> HIDE DEF b
<1>5. \A e \in Editions : Recent(e, Grid - 1)'
  <2>1. ASSUME NEW e \in Editions, configured # None
        PROVE  Grid' - 1 <= mtime[e] + Longest \/ Grid' - 1 <= configured + Longest
    <3>1. b <= mtime[e] + Longest \/ b <= configured + Longest
      BY <2>1 DEF Recent, b
    <3>2. mtime[e] \in Nat /\ configured \in Nat /\ Longest \in Nat
      BY <2>1, LongestInterval DEF GeoTyped
    <3>3. mtime[e] + Longest \in Nat /\ configured + Longest \in Nat
      BY <3>2
    <3>4. \A n \in Nat : b <= n => Grid' - 1 <= n
      BY <1>1, <1>4, AtMostTransitive
    <3> QED BY <3>1, <3>3, <3>4
  <2> QED BY <2>1 DEF Recent
<1> QED BY <1>2, <1>3, <1>4, <1>5 DEF Age, Cycle

\* A cycle that goes on.
LEMMA CycleAges ==
    ASSUME GeoTyped, Age, updater.pc \in Cycle, updater'.pc \in Cycle,
           updater'.ticker = updater.ticker, updater'.period = updater.period,
           updater'.ticks = updater.ticks, updater'.began = updater.began,
           updater.began <= now', now' <= updater.began + 1,
           \A e \in Editions : IF updater'.pc = "csv" /\ updater'.edition = e THEN Half(e)' ELSE Whole(e)',
           \A e \in Seen' : Recent(e, updater.began)'
    PROVE  Age'
<1>1. Grid' = Grid
  BY DEF Grid
<1>2. updater'.pc \notin {"stopped", "off", "begin", "idle"}
  BY DEF Cycle
<1>3. updater'.ticker = None => updater'.ticks = 0
  BY DEF Age
<1>4. updater'.ticker # None => Grid' <= updater'.began /\ updater'.began < Grid' + updater'.period
  BY <1>1 DEF Age
<1>5. updater'.began <= now' /\ now' <= updater'.began + 1
  OBVIOUS
<1> QED BY <1>2, <1>3, <1>4, <1>5 DEF Age

\* A download that takes time ends within the unit of its cycle.
LEMMA ElapsedInCycle ==
    ASSUME GeoTyped, Age, updater.pc \in Cycle, Elapse \/ now' = now
    PROVE  now' \in Nat /\ updater.began \in Nat /\ updater.began <= now' /\ now' <= updater.began + 1
<1>1. now' \in Nat /\ now <= now' /\ now' <= now + 1 /\ (now' # now => updater.began = now)
  BY ElapseTyped
<1>2. updater.began <= now /\ now <= updater.began + 1 /\ now \in Nat /\ updater.began \in Nat
  BY DEF Age, GeoTyped, Updaters
<1> QED BY <1>1, <1>2

\* The edition that was seen to is recent, and the next one's turn has come.
LEMMA EditionDone ==
    ASSUME GeoTyped, Age, updater.pc \in {"try", "csv"}, NEW u \in Updaters, updater' = NextEdition(u),
           u.edition = updater.edition, u.ticker = updater.ticker, u.period = updater.period,
           u.ticks = updater.ticks, u.began = updater.began, u.reload \/ now' = now,
           updater.began <= now', now' <= updater.began + 1,
           \A e \in Editions : Whole(e)', Recent(updater.edition, updater.began),
           UNCHANGED <<mtime, configured>>
    PROVE  Age'
<1>1. /\ updater \in Updaters /\ now \in Nat /\ updater.edition \in {"asn", "city"} /\ updater.pc \in Cycle
      /\ updater.period \in Intervals
  BY DEF GeoTyped, Updaters, Editions, Cycle
<1>2. ASSUME NEW e, Recent(e, updater.began), updater'.began = updater.began
      PROVE  Recent(e, updater.began)'
  BY <1>2 DEF Recent
<1>3. CASE u.edition = "asn"
  <2>1. updater' = [u EXCEPT !.pc = "try", !.edition = "city"]
    BY <1>1, <1>3, NextEditionFields
  <2>2. /\ updater'.pc = "try" /\ updater'.edition = "city" /\ updater'.began = updater.began
        /\ updater'.ticker = updater.ticker /\ updater'.period = updater.period
        /\ updater'.ticks = updater.ticks
    BY <2>1 DEF Updaters
  <2>3. Seen' = {"asn"}
    BY <2>2 DEF Seen
  <2>4. updater'.pc \in Cycle
    BY <2>2 DEF Cycle
  <2>5. \A e \in Seen' : Recent(e, updater.began)'
    BY <1>2, <1>3, <2>2, <2>3
  <2>6. \A e \in Editions : IF updater'.pc = "csv" /\ updater'.edition = e THEN Half(e)' ELSE Whole(e)'
    BY <2>2
  <2> QED BY <1>1, <2>2, <2>4, <2>5, <2>6, CycleAges
<1>4. CASE u.edition # "asn"
  <2>1. updater.edition = "city"
    BY <1>1, <1>4
  <2>2. Seen = {"asn"}
    BY <2>1 DEF Seen
  <2>3. Recent("asn", updater.began)
    BY <1>1, <2>2 DEF Age
  <2>4. \A e \in Editions : Recent(e, updater.began)
    BY <2>1, <2>3 DEF Editions
  <2>5. CASE u.reload
    <3>1. updater' = [u EXCEPT !.pc = "reload"]
      BY <1>1, <1>4, <2>5, NextEditionFields
    <3>2. /\ updater'.pc = "reload" /\ updater'.began = updater.began
          /\ updater'.ticker = updater.ticker /\ updater'.period = updater.period
          /\ updater'.ticks = updater.ticks
      BY <3>1 DEF Updaters
    <3>3. Seen' = Editions
      BY <3>2 DEF Seen
    <3>4. updater'.pc \in Cycle
      BY <3>2 DEF Cycle
    <3>5. \A e \in Seen' : Recent(e, updater.began)'
      BY <1>2, <2>4, <3>2, <3>3
    <3>6. \A e \in Editions : IF updater'.pc = "csv" /\ updater'.edition = e THEN Half(e)' ELSE Whole(e)'
      BY <3>2
    <3> QED BY <1>1, <3>2, <3>4, <3>5, <3>6, CycleAges
  <2>6. CASE ~u.reload
    <3>1. updater' = Rested(u) /\ now' = now
      BY <1>1, <1>4, <2>6, NextEditionFields
    <3>2. updater.ticker = None => updater.ticks = 0
      BY DEF Age
    <3>3. updater.ticker # None => Grid <= updater.began /\ updater.began < Grid + updater.period
      BY <1>1 DEF Age
    <3>4. updater.began <= now /\ now <= updater.began + 1
      BY <3>1
    <3> QED BY <1>1, <2>4, <3>1, <3>2, <3>3, <3>4, RestAges
  <2> QED BY <2>5, <2>6
<1> QED BY <1>3, <1>4

LEMMA TryAges ==
    ASSUME GeoTyped, Age, TryEdition
    PROVE  Age'
<1> DEFINE e == updater.edition
<1>1. /\ updater \in Updaters /\ now \in Nat /\ e \in Editions /\ updater.pc = "try" /\ updater.pc \in Cycle
      /\ updater.began \in Nat /\ updater.began <= now /\ now <= updater.began + 1
  BY DEF GeoTyped, Updaters, TryEdition, Cycle, Age
<1>2. UNCHANGED <<now, mmdb, mtime, csv, marks, configured>>
  BY DEF TryEdition, files, settings
<1>3. \A f \in Editions : Whole(f) /\ Whole(f)'
  BY <1>1, <1>2, WholeKept DEF Age
<1>4. CASE ~NeedsDownload(e)
  <2>1. updater' = NextEdition(updater)
    BY <1>4 DEF TryEdition
  <2>2. ~Missing(e) /\ ~(now >= LastDownload(e) + stored.interval)
    BY <1>4 DEF NeedsDownload
  <2>3. marks[e] \in Nat /\ marks[e] <= mtime[e] + 1
    BY <1>1, <1>3, <2>2 DEF Whole
  <2>4. LastDownload(e) = marks[e]
    BY <2>3, GeoAssumption DEF LastDownload
  <2>5. stored.interval \in Nat /\ stored.interval <= Longest /\ mtime[e] \in Nat /\ Longest \in Nat
    BY <1>1, LongestInterval, GeoAssumption DEF GeoTyped
  <2>6. updater.began <= mtime[e] + Longest
    BY <1>1, <2>2, <2>3, <2>4, <2>5
  <2>7. Recent(e, updater.began)
    BY <2>6 DEF Recent
  <2>8. updater.began <= now' /\ now' <= updater.began + 1
    BY <1>1, <1>2
  <2> QED BY <1>1, <1>2, <1>3, <2>1, <2>7, <2>8, EditionDone
<1>5. CASE NeedsDownload(e)
  <2>1. updater' = [updater EXCEPT !.pc = "mmdb"]
    BY <1>1, <1>3, <1>5 DEF TryEdition, Whole
  <2>2. /\ updater'.pc = "mmdb" /\ updater'.edition = e /\ updater'.began = updater.began
        /\ updater'.ticker = updater.ticker /\ updater'.period = updater.period
        /\ updater'.ticks = updater.ticks
    BY <1>1, <2>1 DEF Updaters
  <2>3. Seen' = Seen
    BY <1>1, <2>2 DEF Seen
  <2>4. \A f \in Seen' : Recent(f, updater.began)'
    BY <1>1, <1>2, <2>2, <2>3 DEF Age, Recent
  <2>5. updater'.pc \in Cycle /\ updater.began <= now' /\ now' <= updater.began + 1
    BY <1>1, <1>2, <2>2 DEF Cycle
  <2>6. \A f \in Editions : IF updater'.pc = "csv" /\ updater'.edition = f THEN Half(f)' ELSE Whole(f)'
    BY <1>3, <2>2
  <2> QED BY <1>1, <2>2, <2>4, <2>5, <2>6, CycleAges
<1> QED BY <1>4, <1>5

\* Without a failure and with credentials the mmdb is there, new and marked.
LEMMA DownloadMMDBAges ==
    ASSUME GeoTyped, Age, DownloadMMDB, geoFaults' = 0, ~cut'
    PROVE  Age'
<1> DEFINE e == updater.edition
<1>1. /\ updater \in Updaters /\ e \in Editions /\ updater.pc = "mmdb" /\ updater.pc \in Cycle
      /\ geoFaults \in Nat /\ published \in Nat \ {0} /\ now \in Nat
      /\ mmdb \in [Editions -> Nat] /\ mtime \in [Editions -> Nat] /\ marks \in [Editions -> Nat \cup {None}]
  BY DEF GeoTyped, Updaters, DownloadMMDB, Cycle
<1>2. HasCredentials
  BY DEF DownloadMMDB
<1>3. ~Fault
  BY <1>1, FaultTyped DEF Fault
<1>4. /\ Elapse /\ mmdb' = Extracted(e) /\ mtime' = [mtime EXCEPT ![e] = now'] /\ Mark(e)
      /\ updater' = [updater EXCEPT !.pc = "csv", !.reload = TRUE] /\ UNCHANGED <<csv, configured>>
  BY <1>2, <1>3 DEF DownloadMMDB
<1>5. marks' = [marks EXCEPT ![e] = now']
  BY <1>3, <1>4 DEF Mark
<1>6. now' \in Nat /\ updater.began \in Nat /\ updater.began <= now' /\ now' <= updater.began + 1
  BY <1>1, <1>4, ElapsedInCycle
<1>7. /\ updater'.pc = "csv" /\ updater'.edition = e /\ updater'.began = updater.began
      /\ updater'.ticker = updater.ticker /\ updater'.period = updater.period
      /\ updater'.ticks = updater.ticks
  BY <1>1, <1>4 DEF Updaters
<1>8. Seen' = Seen /\ e \notin Seen
  BY <1>1, <1>7 DEF Seen, Editions
<1>9. Half(e)'
  <2>1. mmdb'[e] = published /\ mtime'[e] = now'
    BY <1>1, <1>4 DEF Extracted
  <2> QED BY <1>1, <1>6, <1>7, <2>1 DEF Half, Missing
<1>10. ASSUME NEW f \in Editions, f # e PROVE Whole(f)' /\ mtime'[f] = mtime[f]
  <2>1. mmdb'[f] = mmdb[f] /\ mtime'[f] = mtime[f] /\ marks'[f] = marks[f] /\ csv' = csv
    BY <1>1, <1>4, <1>5, <1>10 DEF Extracted
  <2>2. Whole(f)
    BY <1>1 DEF Age
  <2> QED BY <2>1, <2>2 DEF Whole, Missing, SidecarsMissing
<1>11. \A f \in Seen' : Recent(f, updater.began)'
  <2>1. ASSUME NEW f \in Seen' PROVE Recent(f, updater.began)'
    <3>1. f \in Editions /\ f # e /\ Recent(f, updater.began)
      BY <1>1, <1>8, <2>1 DEF Age, Seen, Editions
    <3>2. mtime'[f] = mtime[f]
      BY <1>10, <3>1
    <3> QED BY <1>4, <1>7, <3>1, <3>2 DEF Recent
  <2> QED BY <2>1
<1>12. \A f \in Editions : IF updater'.pc = "csv" /\ updater'.edition = f THEN Half(f)' ELSE Whole(f)'
  BY <1>7, <1>9, <1>10
<1>13. updater'.pc \in Cycle
  BY <1>7 DEF Cycle
<1> QED BY <1>1, <1>6, <1>7, <1>11, <1>12, <1>13, CycleAges

\* The CSV files make the edition whole, with the mark of the mmdb's cycle.
LEMMA DownloadCSVAges ==
    ASSUME GeoTyped, Age, DownloadCSV, geoFaults' = 0, ~cut'
    PROVE  Age'
<1>0. PICK e \in Editions : e = updater.edition
  BY DEF GeoTyped, Updaters
<1> DEFINE u == [updater EXCEPT !.reload = TRUE]
<1>1. /\ updater \in Updaters /\ e = updater.edition /\ updater.pc = "csv" /\ updater.pc \in Cycle
      /\ geoFaults \in Nat /\ published \in Nat \ {0} /\ now \in Nat
      /\ csv \in [Sidecars -> Nat] /\ mtime \in [Editions -> Nat] /\ marks \in [Editions -> Nat \cup {None}]
  BY <1>0 DEF GeoTyped, Updaters, DownloadCSV, Cycle
<1>2. HasCredentials
  BY DEF DownloadCSV
<1>3. ~Fault
  BY <1>1, FaultTyped DEF Fault
<1>4. /\ Elapse /\ csv' = Replaced(SidecarsOf[e]) /\ Mark(e) /\ updater' = NextEdition(u)
      /\ UNCHANGED <<mmdb, mtime, configured>>
  BY <1>0, <1>2, <1>3 DEF DownloadCSV
<1>5. marks' = [marks EXCEPT ![e] = now']
  BY <1>3, <1>4 DEF Mark
<1>6. now' \in Nat /\ updater.began \in Nat /\ updater.began <= now' /\ now' <= updater.began + 1
  BY <1>1, <1>4, ElapsedInCycle
<1>7. /\ u \in Updaters /\ u.edition = e /\ u.ticker = updater.ticker /\ u.period = updater.period
      /\ u.ticks = updater.ticks /\ u.began = updater.began /\ u.reload
  BY <1>1 DEF Updaters
<1>8. Half(e) /\ \A f \in Editions : f # e => Whole(f)
  BY <1>1 DEF Age
<1>9. ~Missing(e) /\ updater.began <= mtime[e] /\ mtime[e] \in Nat
  BY <1>1, <1>8 DEF Half
<1>10. Whole(e)'
  <2>1. \A s \in SidecarsOf[e] : csv'[s] = published
    <3>1. SidecarsOf[e] \subseteq Sidecars
      BY <1>1, GeoSets
    <3> QED BY <1>4, <3>1 DEF Replaced
  <2>2. ~SidecarsMissing(e)'
    BY <1>1, <2>1 DEF SidecarsMissing
  <2>3. ~Missing(e)'
    BY <1>4, <1>9 DEF Missing
  <2>4. marks'[e] = now' /\ mtime'[e] = mtime[e]
    BY <1>1, <1>4, <1>5
  <2>5. marks'[e] \in Nat /\ marks'[e] <= mtime'[e] + 1
    BY <1>6, <1>9, <2>4
  <2> QED BY <2>2, <2>3, <2>5 DEF Whole
<1>11. ASSUME NEW f \in Editions, f # e PROVE Whole(f)'
  <2>1. mmdb'[f] = mmdb[f] /\ mtime'[f] = mtime[f] /\ marks'[f] = marks[f]
    BY <1>1, <1>4, <1>5, <1>11
  <2>2. \A s \in SidecarsOf[f] : csv'[s] = csv[s]
    <3>1. SidecarsOf[f] \subseteq Sidecars /\ SidecarsOf[f] \cap SidecarsOf[e] = {}
      BY <1>1, <1>11, GeoSets
    <3> QED BY <1>4, <3>1 DEF Replaced
  <2>3. Whole(f)
    BY <1>8, <1>11
  <2> QED BY <2>1, <2>2, <2>3 DEF Whole, Missing, SidecarsMissing
<1>12. Recent(e, updater.began)
  <2>1. Longest \in Nat
    BY LongestInterval
  <2>2. updater.began <= mtime[e] + Longest
    BY <1>6, <1>9, <2>1
  <2> QED BY <2>2 DEF Recent
<1>13. \A f \in Editions : Whole(f)'
  BY <1>10, <1>11
<1>14. updater.pc \in {"try", "csv"}
  BY <1>1
<1> HIDE DEF u
<1> QED BY <1>1, <1>4, <1>6, <1>7, <1>12, <1>13, <1>14, EditionDone

LEMMA ReloadAges ==
    ASSUME GeoTyped, Age, Reload
    PROVE  Age'
<1>1. /\ updater \in Updaters /\ updater.pc = "reload" /\ updater.pc \in Cycle /\ updater.period \in Intervals
      /\ updater' = Rested(updater)
      /\ UNCHANGED <<now, mmdb, mtime, csv, marks, configured>>
  BY DEF GeoTyped, Reload, Cycle, files, settings
<1>2. /\ updater.began <= now /\ now <= updater.began + 1
      /\ updater.ticker # None => Grid <= updater.began /\ updater.began < Grid + updater.period
      /\ updater.ticker = None => updater.ticks = 0
  BY <1>1 DEF Age
<1>3. Seen = Editions
  BY <1>1 DEF Seen
<1>4. \A e \in Editions : Recent(e, updater.began)
  BY <1>1, <1>3 DEF Age
<1>5. \A e \in Editions : Whole(e)'
  BY <1>1, WholeKept DEF Age
<1> QED BY <1>1, <1>2, <1>4, <1>5, RestAges

\* Time passes between two cycles only until the ticker's next tick.
LEMMA WaitAges ==
    ASSUME GeoTyped, Age, Wait
    PROVE  Age'
<1>1. /\ updater \in Updaters /\ updater.pc = "idle" /\ updater.period \in Nat \ {0} /\ now \in Nat
      /\ updater.ticker \in Nat /\ updater.ticker <= now /\ updater.ticks \in Nat
      /\ now' = now + 1 /\ ~Ticked /\ UNCHANGED <<mmdb, mtime, csv, marks, configured, updater>>
  BY GeoAssumption DEF GeoTyped, Updaters, Wait, Age, files, settings
<1>2. now - updater.ticker \in Nat
  BY <1>1
<1>3. Ticks \in Nat /\ now - updater.ticker < updater.period * Ticks + updater.period
  BY <1>1, <1>2, DivBounds DEF Ticks
<1>4. Ticks <= updater.ticks
  BY <1>1, <1>3 DEF Ticked
<1>5. /\ updater.period * Ticks \in Nat /\ updater.period * updater.ticks \in Nat
      /\ updater.period * Ticks <= updater.period * updater.ticks
  BY <1>1, <1>3, <1>4, TimesMonotone
<1>6. Grid' = Grid /\ Grid = updater.ticker + updater.period * updater.ticks
  BY <1>1 DEF Grid
<1>7. now' <= Grid' + updater'.period
  BY <1>1, <1>2, <1>3, <1>5, <1>6
<1>8. Grid' <= now'
  <2>1. Grid <= now /\ Grid \in Nat
    BY <1>1, <1>5, <1>6 DEF Age
  <2> QED BY <1>1, <1>6, <2>1
<1>9. \A e \in Editions : Whole(e)'
  BY <1>1, WholeKept DEF Age
<1>10. \A e \in Editions : Recent(e, Grid - 1)'
  BY <1>1, <1>6 DEF Age, Recent
<1>11. updater'.pc = "idle" /\ updater'.edition = "asn" /\ (updater'.ticker = None => updater'.ticks = 0)
  BY <1>1 DEF Age, Cycle
<1> QED BY <1>7, <1>8, <1>9, <1>10, <1>11 DEF Age, Cycle

\* A restart between two cycles.
LEMMA RestartAges ==
    ASSUME GeoTyped, Age, RestartServer, ~cut'
    PROVE  Age'
<1>1. updater.pc \notin Cycle /\ updater' = UpdaterOff /\ UNCHANGED <<mmdb, mtime, csv, marks>>
  BY DEF RestartServer, Cycle, files, settings
<1>2. updater'.pc = "off" /\ updater'.ticker = None /\ updater'.ticks = 0 /\ updater'.edition = "asn"
  BY <1>1 DEF UpdaterOff
<1>3. \A e \in Editions : Whole(e)'
  BY <1>1, WholeKept DEF Age, Cycle
<1> QED BY <1>2, <1>3 DEF Age, Cycle

\* Credentials that are new make every file recent.
LEMMA WriteAges ==
    ASSUME GeoTyped, Age, NEW a \in Administrators, WriteSetting(a)
    PROVE  Age'
<1>1. UNCHANGED <<now, mmdb, mtime, csv, marks, updater>> /\ now \in Nat /\ Longest \in Nat /\ updater \in Updaters
  BY LongestInterval DEF WriteSetting, files, GeoTyped
<1>2. configured' \in {None, configured, now}
  BY DEF WriteSetting
<1>3. ASSUME NEW e, NEW t \in Int, t <= now, Recent(e, t)
      PROVE  configured' # None => t <= mtime[e] + Longest \/ t <= configured' + Longest
  BY <1>1, <1>2, <1>3 DEF Recent
<1>4. Grid' = Grid /\ Seen' = Seen
  BY <1>1 DEF Grid, Seen
<1>5. \A e \in Editions : (Whole(e)' <=> Whole(e)) /\ (Half(e)' <=> Half(e))
  BY <1>1, WholeKept DEF Half, Missing
<1>6. updater.pc \in Cycle => \A e \in Seen : Recent(e, updater.began)'
  <2>1. ASSUME updater.pc \in Cycle, NEW e \in Seen PROVE Recent(e, updater.began)'
    <3>1. updater.began \in Int /\ updater.began <= now /\ Recent(e, updater.began)
      BY <1>1, <2>1 DEF Age, Updaters
    <3> QED BY <1>1, <1>3, <3>1 DEF Recent
  <2> QED BY <2>1
<1>7. updater.pc = "idle" => \A e \in Editions : Recent(e, Grid - 1)'
  <2>1. ASSUME updater.pc = "idle", NEW e \in Editions PROVE Recent(e, Grid - 1)'
    <3>1. Grid <= now /\ Recent(e, Grid - 1)
      BY <2>1 DEF Age
    <3>2. Grid \in Nat
      BY <1>1, <2>1, GridTyped DEF GeoTyped, Grid
    <3>3. Grid - 1 \in Int /\ Grid - 1 <= now
      BY <1>1, <3>1, <3>2
    <3> HIDE DEF Grid
    <3> QED BY <1>1, <1>3, <1>4, <3>1, <3>3 DEF Recent
  <2> QED BY <2>1
<1> QED BY <1>1, <1>4, <1>5, <1>6, <1>7 DEF Age

\* Failures and cycles that were cut off are never forgotten.
LEMMA TroubleStays ==
    ASSUME GeoTyped, [GeoNext]_geoVars, geoFaults' = 0, ~cut'
    PROVE  geoFaults = 0 /\ ~cut
<1>1. geoFaults \in Nat
  BY DEF GeoTyped
<1>2. Fault \/ UNCHANGED geoFaults
  BY DEF GeoNext, UpdaterStep, StartUpdater, BeginCycle, TryEdition, DownloadMMDB, DownloadCSV, Mark, Reload,
         BeginLookup, LookUpLocally, LookUpDNS, RequestConfig, WriteSetting, PublishDatabase, Wait,
         RestartServer, geoBounds, geoVars
<1>3. UNCHANGED cut \/ cut' = (cut \/ ~HasCredentials)
        \/ cut' = (cut \/ updater.pc \in {"try", "mmdb", "csv", "reload"})
  BY DEF GeoNext, UpdaterStep, StartUpdater, BeginCycle, TryEdition, DownloadMMDB, DownloadCSV, Reload,
         BeginLookup, LookUpLocally, LookUpDNS, RequestConfig, WriteSetting, PublishDatabase, Wait,
         RestartServer, geoVars
<1>4. geoFaults = 0
  BY <1>1, <1>2, FaultTyped
<1>5. ~cut
  BY <1>3
<1> QED BY <1>4, <1>5

LEMMA ConfiguredNext == GeoTyped /\ Configured /\ [GeoNext]_geoVars => Configured'
<1> SUFFICES ASSUME GeoTyped, Configured, [GeoNext]_geoVars PROVE Configured'
  OBVIOUS
<1>1. now \in Nat /\ configured \in Nat \cup {None}
  BY DEF GeoTyped
<1>2. CASE UNCHANGED <<stored, configured>> /\ now' \in Nat /\ now <= now'
  <2>1. configured' # None <=> HasCredentials'
    BY <1>2 DEF Configured, HasCredentials
  <2>2. configured' # None => configured' <= now'
    <3>1. ASSUME configured' # None PROVE configured' <= now'
      <4>1. configured' = configured
        BY <1>2
      <4>2. configured \in Nat /\ configured <= now
        BY <1>1, <3>1, <4>1 DEF Configured
      <4>3. now' \in Nat /\ now <= now' /\ now \in Nat
        BY <1>1, <1>2
      <4> QED BY <4>1, <4>2, <4>3
    <3> QED BY <3>1
  <2> QED BY <2>1, <2>2 DEF Configured
<1>3. CASE UpdaterStep
  <2>1. UpdaterFrame
    BY <1>3, StartTyped, BeginCycleTyped, TryTyped, DownloadMMDBTyped, DownloadCSVTyped, ReloadTyped DEF UpdaterStep
  <2>2. Elapse \/ now' = now
    BY <1>3 DEF UpdaterStep, StartUpdater, BeginCycle, TryEdition, DownloadMMDB, DownloadCSV, Reload
  <2>3. now' \in Nat /\ now <= now'
    BY <2>2, ElapseTyped
  <2> QED BY <1>2, <2>1, <2>3 DEF UpdaterFrame
<1>4. CASE \E p \in Lookups : BeginLookup(p) \/ LookUpLocally(p) \/ LookUpDNS(p)
  BY <1>1, <1>2, <1>4, LookupTyped DEF UpdaterFrame, UpdaterSees
<1>5. ASSUME NEW a \in Administrators, RequestConfig(a) PROVE Configured'
  BY <1>1, <1>2, <1>5, RequestTyped DEF UpdaterSees
<1>6. ASSUME NEW a \in Administrators, WriteSetting(a) PROVE Configured'
  <2>1. now' = now
    BY <1>6 DEF WriteSetting
  <2>2. configured' = IF stored'.account = "" \/ stored'.key = "" THEN None
                      ELSE IF configured = None THEN now ELSE configured
    BY <1>6 DEF WriteSetting
  <2>3. configured' # None <=> HasCredentials'
    BY <1>1, <2>2, GeoAssumption DEF HasCredentials
  <2>4. configured' # None => configured' <= now'
    <3>1. ASSUME configured' = configured, configured # None PROVE configured' <= now'
      BY <1>1, <2>1, <3>1 DEF Configured
    <3>2. ASSUME configured' = now PROVE configured' <= now'
      BY <1>1, <2>1, <3>2
    <3>3. configured' = None \/ configured' = now \/ (configured' = configured /\ configured # None)
      BY <2>2
    <3> QED BY <3>1, <3>2, <3>3
  <2> QED BY <2>3, <2>4 DEF Configured
<1>7. CASE PublishDatabase \/ Wait \/ RestartServer \/ UNCHANGED geoVars
  BY <1>1, <1>2, <1>7 DEF PublishDatabase, Wait, RestartServer, geoVars, settings
<1> QED BY <1>3, <1>4, <1>5, <1>6, <1>7 DEF GeoNext

LEMMA AgeKept ==
    ASSUME Age, UNCHANGED <<now, mmdb, mtime, csv, marks, updater, configured>>
    PROVE  Age'
<1>1. \A e \in Editions : (Whole(e)' <=> Whole(e)) /\ (Half(e)' <=> Half(e))
  BY WholeKept DEF Half, Missing
<1>2. Grid' = Grid /\ Seen' = Seen
  BY DEF Grid, Seen
<1> QED BY <1>1, <1>2 DEF Age, Recent

LEMMA FreshNext == GeoTyped /\ Fresh /\ [GeoNext]_geoVars => Fresh'
<1> SUFFICES ASSUME GeoTyped, Fresh, [GeoNext]_geoVars, geoFaults' = 0, ~cut' PROVE Age'
  BY ConfiguredNext DEF Fresh
<1>1. Age /\ Configured
  BY TroubleStays DEF Fresh
<1>2. CASE UpdaterStep
  BY <1>1, <1>2, StartAges, BeginAges, TryAges, DownloadMMDBAges, DownloadCSVAges, ReloadAges DEF UpdaterStep
<1>3. CASE \E p \in Lookups : BeginLookup(p) \/ LookUpLocally(p) \/ LookUpDNS(p)
  BY <1>1, <1>3, AgeKept, LookupTyped DEF UpdaterFrame, UpdaterSees, files
<1>4. ASSUME NEW a \in Administrators, RequestConfig(a) PROVE Age'
  BY <1>1, <1>4, AgeKept, RequestTyped DEF UpdaterSees, files
<1>5. ASSUME NEW a \in Administrators, WriteSetting(a) PROVE Age'
  BY <1>1, <1>5, WriteAges
<1>6. CASE Wait
  BY <1>1, <1>6, WaitAges
<1>7. CASE RestartServer
  BY <1>1, <1>7, RestartAges
<1>8. CASE PublishDatabase \/ UNCHANGED geoVars
  BY <1>1, <1>8, AgeKept DEF PublishDatabase, geoVars, files, settings
<1> QED BY <1>2, <1>3, <1>4, <1>5, <1>6, <1>7, <1>8 DEF GeoNext

\* With credentials, with MaxMind answering and with no cycle cut off, a file is
\* no older between two cycles than the ticker's period, the longest interval and
\* the time of a cycle: an edition that a cycle leaves alone was marked less than
\* an interval before, and the next cycle is at most a period away.
THEOREM FilesAreKeptFresh == GeoSpec => []FilesStayFresh
<1>1. GeoInit => GeoTyped /\ Fresh
  <2>1. ASSUME GeoInit PROVE Fresh
    <3>1. PICK i \in Intervals : stored = [account |-> "", key |-> "", interval |-> i]
      BY <2>1 DEF GeoInit
    <3>2. stored.key = "" /\ configured = None
      BY <2>1, <3>1 DEF GeoInit
    <3>3. Configured
      BY <3>2 DEF Configured, HasCredentials
    <3>4. updater.pc = "off" /\ updater.ticker = None /\ updater.ticks = 0 /\ updater.edition = "asn"
      BY <2>1 DEF GeoInit, UpdaterOff
    <3>5. \A e \in Editions : Whole(e)
      <4>1. ASSUME NEW e \in Editions PROVE Missing(e) /\ SidecarsMissing(e)
        <5>1. mmdb = [f \in Editions |-> 0] /\ csv = [s \in Sidecars |-> 0]
          BY <2>1 DEF GeoInit
        <5>2. \E s \in SidecarsOf[e] : s \in Sidecars
          BY GeoSets
        <5> QED BY <5>1, <5>2 DEF Missing, SidecarsMissing
      <4> QED BY <4>1 DEF Whole
    <3> QED BY <3>3, <3>4, <3>5 DEF Fresh, Age, Cycle
  <2> QED BY <2>1, InitGeoTyped
<1>2. GeoTyped /\ Fresh /\ [GeoNext]_geoVars => GeoTyped' /\ Fresh'
  BY GeoTypedNext, FreshNext
<1>3. GeoTyped /\ Fresh => FilesStayFresh
  BY FreshEnough
<1> QED BY <1>1, <1>2, <1>3, PTL DEF GeoSpec
====
