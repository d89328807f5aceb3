------------------------ MODULE DataDirectoryProofs -------------------------
(***************************************************************************)
(* The safety of `nostd init` for any number of processes, configuration   *)
(* paths, failing calls and kills.  The invariant says who holds the data  *)
(* directory: the process that created "databases" is the only one that    *)
(* creates or removes anything else in it, until its rollback removes      *)
(* "databases", which it does last.                                        *)
(***************************************************************************)
EXTENDS DataDirectory, TLAPS

Early == {"idle", "inspect", "root"}
Stored == {"query", "admin", "config", "done"}
Inside == {"pending", "install", "sync"} \cup Stored
Points == Early \cup Inside \cup {"layout", "undo", "failed", "dead"}
Removable == {"root"} \cup Inner \cup Credentials
Shared == {"root", "credentials"}

Types ==
    /\ owner \in [Names -> Processes \cup {Nobody, Outsider}]
    /\ torn \subseteq Configs
    /\ pc \in [Processes -> Points] /\ path \in [Processes -> Configs]
    /\ made \in [Processes -> SUBSET Layout]
    /\ written \in [Processes -> SUBSET Credentials]
    /\ todo \in [Processes -> SUBSET Removable]
    /\ incomplete \subseteq Processes /\ ignored \subseteq Processes

\* While it creates the layout, a process owns what it has made of it, "databases" first.
Building ==
    \A p \in Processes :
       /\ pc[p] \in Early => made[p] = {}
       /\ pc[p] \in Early \cup {"layout"} => written[p] = {}
       /\ pc[p] = "layout" =>
             /\ made[p] # Layout
             /\ \A x \in made[p] : owner[x] = p
             /\ made[p] # {} => "databases" \in made[p]

\* Once the layout is complete, the process owns it and what it has written since.
Holding ==
    \A p \in Processes :
       /\ pc[p] \in Inside => made[p] = Layout /\ \A x \in Layout : owner[x] = p
       /\ pc[p] \in Inside \ Stored => written[p] = {}
       /\ pc[p] = "install" => owner["pending"] = p
       /\ pc[p] \in {"sync"} \cup Stored => owner["state"] = p /\ ~Present("pending")
       /\ pc[p] \in Stored => \A c \in written[p] : owner[c] = p
       /\ pc[p] = "admin" => "query" \in written[p]
       /\ pc[p] \in {"config", "done"} => written[p] = Credentials
       /\ pc[p] \in {"admin", "config", "done"} => Present("credentials")

\* A rollback has nothing of another process on its list, and holds "databases" as
\* long as it has anything but the root to remove.
Removing ==
    \A p \in Processes : pc[p] = "undo" =>
       /\ \A x \in todo[p] \ Shared : owner[x] \in {p, Nobody}
       /\ todo[p] \subseteq {"root"} \/ ("databases" \in todo[p] /\ owner["databases"] = p)

\* A configuration that was written is that of a finished process, and the directory
\* of the databases has its parent.
Written ==
    /\ \A c \in Configs : Present(c) /\ c \notin torn =>
          owner[c] \in Processes /\ pc[owner[c]] = "done"
    /\ Present("databases") => Present("root")

\* What a process owns, the outer directories aside, its rollback would remove.
Within(p, xs) == \A x \in Names \ Outer : owner[x] = p => x \in xs
AccountedFor(p) ==
    /\ pc[p] \in Early \cup {"failed"} => Within(p, {})
    /\ pc[p] = "layout" => Within(p, made[p])
    /\ pc[p] = "pending" => Within(p, Layout)
    /\ pc[p] = "install" => Within(p, Layout \cup {"pending"})
    /\ pc[p] = "sync" => Within(p, Layout \cup {"state"})
    /\ pc[p] \in Stored \ {"done"} =>
          Within(p, Layout \cup {"state", "credentials"} \cup written[p])
    /\ pc[p] = "undo" => Within(p, todo[p])

Accounted == \A p \in Processes \ (incomplete \cup ignored) : AccountedFor(p)

Inv == Types /\ Building /\ Holding /\ Removing /\ Written /\ Accounted

-----------------------------------------------------------------------------
(* Facts about the order of creation and removal.                           *)

\* Of the names a rollback removes, only the root comes after "databases".
LEMMA DatabasesLast ==
    ASSUME NEW x \in Removable
    PROVE  /\ Rank["databases"] <= Rank[x] => x \in {"databases", "root"}
           /\ Rank["root"] <= Rank[x] => x = "root"
BY DEF Removable, Inner, Layout, Credentials, Rank

\* The next directory is one not yet made, and "databases" is the first.
LEMMA NextIs ==
    ASSUME NEW p \in Processes, made[p] \subseteq Layout, made[p] # Layout
    PROVE  /\ NextDirectory(p) \in Layout \ made[p]
           /\ "databases" \notin made[p] => NextDirectory(p) = "databases"
<1> DEFINE Rest == Layout \ made[p]
<1>1. \E x \in Rest : \A y \in Rest : Rank[y] <= Rank[x]
  BY DEF Layout, Rank
<1>2. NextDirectory(p) \in Rest /\ \A y \in Rest : Rank[y] <= Rank[NextDirectory(p)]
  BY <1>1, Zenon DEF NextDirectory
<1>3. \A x \in Layout : Rank["databases"] <= Rank[x] => x = "databases"
  BY DEF Layout, Rank
<1> QED BY <1>2, <1>3, Zenon DEF Layout

\* What create_new, create_dir and create_dir_all have in common.
LEMMA CreateIs ==
    ASSUME Types, NEW p \in Processes, NEW xs, Create(p, xs)
    PROVE  /\ owner' \in [Names -> Processes \cup {Nobody, Outsider}]
           /\ \A x \in Names : \/ owner'[x] = owner[x]
                               \/ x \in xs /\ owner[x] = Nobody /\ owner'[x] = p
           /\ \A x \in Names : x \in xs => owner'[x] # Nobody
BY DirectoryMarkers, Zenon DEF Types, Create, Present

\* A configuration is none of the names in the data directory.
LEMMA ConfigsApart ==
    ASSUME Types, NEW p \in Processes, NEW xs \in SUBSET (Removable \cup Outer), Create(p, xs)
    PROVE  \A c \in Configs : owner'[c] = owner[c]
<1>1. \A c \in Configs : c \in Names /\ c \notin xs
  <2>1. Removable \cup Outer = Outer \cup Inner \cup Credentials
    BY Zenon DEF Removable, Outer
  <2> QED BY <2>1, DirectoryMarkers, Zenon DEF Names
<1> QED BY <1>1, CreateIs, Zenon

\* create_dir_all(root) leaves what is inside the data directory and the configurations.
LEMMA RootCreates ==
    ASSUME Types, NEW p \in Processes, CreateRoot(p)
    PROVE  /\ owner' \in [Names -> Processes \cup {Nobody, Outsider}]
           /\ \A x \in Names : \/ owner'[x] = owner[x]
                               \/ x \in Outer /\ owner[x] = Nobody /\ owner'[x] = p
<1>1. \/ owner' = owner
      \/ \E xs \in SUBSET Outer : Create(p, xs)
  BY Zenon DEF CreateRoot, Outer
<1> QED BY <1>1, CreateIs, Zenon DEF Types

\* write_new creates the configuration and its directory.
LEMMA ConfigCreates ==
    ASSUME Types, NEW p \in Processes, WriteConfig(p)
    PROVE  /\ owner' \in [Names -> Processes \cup {Nobody, Outsider}]
           /\ \A x \in Names : \/ owner'[x] = owner[x]
                               \/ /\ x \in {"parent", path[p]}
                                  /\ owner[x] = Nobody /\ owner'[x] = p
<1>1. \/ owner' = owner
      \/ Create(p, {"parent"}) \/ Create(p, {"parent", path[p]})
  BY Zenon DEF WriteConfig
<1>2. CASE owner' = owner
  BY <1>2, Zenon DEF Types
<1>3. ASSUME NEW xs \in SUBSET {"parent", path[p]}, Create(p, xs)
      PROVE  /\ owner' \in [Names -> Processes \cup {Nobody, Outsider}]
             /\ \A x \in Names : \/ owner'[x] = owner[x]
                                 \/ /\ x \in {"parent", path[p]}
                                    /\ owner[x] = Nobody /\ owner'[x] = p
  BY <1>3, CreateIs, Zenon
<1>4. {"parent"} \in SUBSET {"parent", path[p]} /\ {"parent", path[p]} \in SUBSET {"parent", path[p]}
  BY Zenon
<1> QED BY <1>1, <1>2, <1>3, <1>4, Zenon

\* What a call creates that is cut off: names above the data directory, or what only the
\* process that holds the directory creates, but neither "databases" nor the root.
LEMMA HalfwayIs ==
    ASSUME NEW p \in Processes, NEW xs \in Halfway(p)
    PROVE  /\ xs = {"above"} \/ pc[p] \in Inside
           /\ xs \subseteq {"above", "pending", "credentials", "parent", path[p]} \cup Credentials
<1>1. CASE pc[p] = "root"
  <2>1. Halfway(p) = {{"above"}}
    BY <1>1 DEF Halfway, Credentials
  <2> QED BY <2>1, Zenon
<1>2. CASE pc[p] = "pending"
  BY <1>2, Zenon DEF Halfway, Inside
<1>3. CASE pc[p] \in Credentials
  <2>1. pc[p] \in Inside /\ pc[p] # "root" /\ pc[p] # "pending"
    BY <1>3, Zenon DEF Credentials, Inside, Stored
  <2>2. xs \in {{"credentials"}, {"credentials", pc[p]}}
    BY <1>3, <2>1 DEF Halfway, Credentials
  <2> QED BY <1>3, <2>1, <2>2, Zenon
<1>4. CASE pc[p] = "config"
  <2>1. pc[p] \in Inside /\ pc[p] \notin Credentials
    BY <1>4, Zenon DEF Credentials, Inside, Stored
  <2>2. xs \in {{"parent"}, {"parent", path[p]}}
    BY <1>4, <2>1, Zenon DEF Halfway
  <2> QED BY <2>1, <2>2, Zenon
<1> QED BY <1>1, <1>2, <1>3, <1>4, Zenon DEF Halfway

\* What a process that is killed leaves behind, in the file system and in the others.
LEMMA KillCreates ==
    ASSUME Types, NEW p \in Processes, Kill(p)
    PROVE  /\ owner' \in [Names -> Processes \cup {Nobody, Outsider}]
           /\ \A x \in Names :
                 \/ owner'[x] = owner[x]
                 \/ /\ owner[x] = Nobody /\ owner'[x] = p
                    /\ x = "above" \/ pc[p] \in Inside
           /\ owner'["databases"] = owner["databases"] /\ owner'["root"] = owner["root"]
           /\ torn \subseteq torn' /\ torn' \subseteq Configs
           /\ \A c \in Configs : c \notin torn' => owner'[c] = owner[c]
<1> USE DirectoryMarkers
<1>1. CASE UNCHANGED <<owner, torn>>
  BY <1>1, Zenon DEF Types
<1>2. ASSUME NEW xs \in Halfway(p), Create(p, xs),
             torn' = torn \cup {c \in Configs \cap xs : ~Present(c)}
      PROVE  /\ owner' \in [Names -> Processes \cup {Nobody, Outsider}]
             /\ \A x \in Names :
                   \/ owner'[x] = owner[x]
                   \/ /\ owner[x] = Nobody /\ owner'[x] = p
                      /\ x = "above" \/ pc[p] \in Inside
             /\ owner'["databases"] = owner["databases"] /\ owner'["root"] = owner["root"]
             /\ torn \subseteq torn' /\ torn' \subseteq Configs
             /\ \A c \in Configs : c \notin torn' => owner'[c] = owner[c]
  <2>1. /\ owner' \in [Names -> Processes \cup {Nobody, Outsider}]
        /\ \A x \in Names : \/ owner'[x] = owner[x]
                            \/ x \in xs /\ owner[x] = Nobody /\ owner'[x] = p
    BY <1>2, CreateIs, Zenon
  <2>2. xs = {"above"} \/ pc[p] \in Inside
    BY <1>2, HalfwayIs, Zenon
  <2>3. "databases" \notin xs /\ "root" \notin xs
    <3>1. path[p] \in Configs /\ path[p] \notin {"databases", "root"}
      BY Zenon DEF Types, Outer, Inner, Layout
    <3> QED BY <1>2, <3>1, HalfwayIs, Zenon DEF Credentials
  <2>4. "databases" \in Names /\ "root" \in Names /\ Configs \subseteq Names
    BY Zenon DEF Names, Outer, Inner, Layout
  <2>5. torn \subseteq torn' /\ torn' \subseteq Configs
    BY <1>2, Zenon DEF Types
  <2>6. \A c \in Configs : c \notin torn' => owner'[c] = owner[c]
    BY <1>2, <2>1, <2>4, Zenon DEF Present
  <2> QED BY <2>1, <2>2, <2>3, <2>4, <2>5, <2>6, Zenon
<1> QED BY <1>1, <1>2, Zenon DEF Kill

-----------------------------------------------------------------------------
\* Every step preserves Types.
LEMMA TypesKept ==
    ASSUME Inv, NEW p \in Processes, Step(p)
    PROVE  Types'
<1> USE DirectoryMarkers DEF Inv
<1>1. CASE Begin(p)
  BY <1>1, Zenon DEF Begin, Go, Reported, Types, Points, Early
<1>2. CASE Inspect(p)
  BY <1>2, Zenon DEF Inspect, Go, Reported, Types, Points, Early
<1>3. CASE CreateRoot(p)
  BY <1>3, RootCreates DEF CreateRoot, Go, Undo, Reported, local, Types, Removable, Points
<1>4. CASE CreateDirectory(p)
  <2>0. /\ NextDirectory(p) \in Layout \ made[p]
        /\ "databases" \notin made[p] => NextDirectory(p) = "databases"
    BY <1>4, NextIs, Zenon DEF CreateDirectory, Types, Building
  <2> QED BY <1>4, <2>0, CreateIs DEF CreateDirectory, Made, CatalogRollback, Unless,
     Go, Undo, Reported, Types, Removable, Points, Inside, Inner
<1>5. CASE WritePending(p)
  BY <1>5, CreateIs DEF WritePending, CatalogRollback, Unless, Go, Undo, Reported,
     local, Types, Removable, Points, Inside, Inner
<1>6. CASE InstallState(p)
  BY <1>6 DEF InstallState, CatalogRollback, Unless, Go, Undo, Delete, Reported, local,
     Types, Removable, Points, Inside, Inner
<1>7. CASE SyncState(p)
  BY <1>7 DEF SyncState, CatalogRollback, Unless, Go, Undo, Delete, Reported, local,
     Types, Removable, Points, Inside, Stored, Inner
<1>8. CASE WriteCredential(p, "query", "admin")
  BY <1>8, CreateIs DEF WriteCredential, DaemonRollback, Unless, Go, Undo, Reported,
     Types, Removable, Points, Inside, Stored, Inner, Credentials
<1>9. CASE WriteCredential(p, "admin", "config")
  BY <1>9, CreateIs DEF WriteCredential, DaemonRollback, Unless, Go, Undo, Reported,
     Types, Removable, Points, Inside, Stored, Inner, Credentials
<1>10. CASE WriteConfig(p)
  <2>1. DaemonRollback(p) \subseteq Removable
    BY DEF DaemonRollback, Unless, Types, Removable, Inner
  <2>2. torn' \subseteq Configs /\ path' = path /\ made' = made /\ written' = written
    BY <1>10, Zenon DEF WriteConfig, Types, local
  <2>3. incomplete' \subseteq Processes /\ ignored' \subseteq Processes
    BY <1>10, Zenon DEF WriteConfig, Reported, Types
  <2>4. "done" \in Points /\ "undo" \in Points
    BY Zenon DEF Points, Inside, Stored
  <2>5. \/ pc' = [pc EXCEPT ![p] = "done"] /\ todo' = todo
        \/ pc' = [pc EXCEPT ![p] = "undo"] /\ todo' = [todo EXCEPT ![p] = DaemonRollback(p)]
    BY <1>10, Zenon DEF WriteConfig, Go, Undo
  <2>6. pc' \in [Processes -> Points] /\ todo' \in [Processes -> SUBSET Removable]
    BY <2>1, <2>4, <2>5 DEF Types
  <2> QED BY <1>10, <2>2, <2>3, <2>6, ConfigCreates, Zenon DEF Types
<1>11. CASE RemoveNext(p)
  BY <1>11 DEF RemoveNext, Delete, local, Types
<1>12. CASE EndRollback(p)
  BY <1>12, Zenon DEF EndRollback, Go, Reported, local, Types, Points
<1>13. CASE Kill(p)
  BY <1>13, KillCreates, Zenon DEF Kill, Go, Reported, local, Types, Points
<1> QED BY Zenon, <1>1, <1>2, <1>3, <1>4, <1>5, <1>6, <1>7, <1>8, <1>9, <1>10, <1>11, <1>12,
   <1>13 DEF Step

\* Every step preserves Building.
LEMMA BuildingKept ==
    ASSUME Inv, NEW p \in Processes, Step(p)
    PROVE  Building'
<1> USE DirectoryMarkers DEF Inv
<1>1. CASE Begin(p)
  BY <1>1 DEF Begin, Go, Building, Early
<1>2. CASE Inspect(p)
  BY <1>2 DEF Inspect, Go, Building, Early, Layout
<1>3. CASE CreateRoot(p)
  <2>1. \A x \in Layout : owner'[x] = owner[x]
    BY <1>3, RootCreates, Zenon DEF Names, Outer, Inner, Layout
  <2>2. UNCHANGED <<made, written>> /\ made[p] = {} /\ written[p] = {}
    BY <1>3, Zenon DEF CreateRoot, local, Building, Early
  <2> QED BY <1>3, <2>1, <2>2 DEF CreateRoot, Go, Undo, Types, Building, Early, Layout,
     local
<1>4. CASE CreateDirectory(p)
  <2>0. /\ NextDirectory(p) \in Layout \ made[p]
        /\ "databases" \notin made[p] => NextDirectory(p) = "databases"
    BY <1>4, NextIs, Zenon DEF CreateDirectory, Types, Building
  <2> QED BY <1>4, <2>0, CreateIs DEF CreateDirectory, Made, Go, Undo, Types, Building,
     Present, Early, Names, Inner, Layout
<1>5. CASE WritePending(p)
  BY <1>5 DEF WritePending, Go, Undo, local, Types, Building, Holding, Points, Early
<1>6. CASE InstallState(p)
  BY <1>6 DEF InstallState, Go, Undo, local, Types, Building, Holding, Early, Inside
<1>7. CASE SyncState(p)
  BY <1>7 DEF SyncState, Go, Undo, local, Types, Building, Holding, Early, Inside
<1>8. CASE WriteCredential(p, "query", "admin")
  BY <1>8, CreateIs DEF WriteCredential, Go, Undo, Types, Building, Early, Names, Inner,
     Layout
<1>9. CASE WriteCredential(p, "admin", "config")
  BY <1>9, CreateIs DEF WriteCredential, Go, Undo, Types, Building, Early, Names, Inner,
     Layout
<1>10. CASE WriteConfig(p)
  BY <1>10 DEF WriteConfig, Go, Undo, local, Types, Building, Holding, Points, Early
<1>11. CASE RemoveNext(p)
  BY <1>11 DEF RemoveNext, Delete, local, Types, Building, Removing, Names, Inner,
     Layout
<1>12. CASE EndRollback(p)
  <2>1. /\ owner' = owner /\ made' = made /\ written' = written
        /\ \A q \in Processes : pc'[q] = pc[q] \/ pc'[q] = "failed"
    BY <1>12, Zenon DEF EndRollback, Go, local, Types
  <2> QED BY <2>1, Zenon DEF Building, Early
<1>13. CASE Kill(p)
  <2>1. made' = made /\ written' = written
    BY <1>13, Zenon DEF Kill, local
  <2>2. \A q \in Processes : pc'[q] = pc[q] \/ pc'[q] = "dead"
    BY <1>13, Zenon DEF Kill, Go, Types
  <2>3. \A x \in Names : owner[x] \in Processes => owner'[x] = owner[x]
    BY <1>13, KillCreates, Zenon
  <2>4. \A q \in Processes : made[q] \subseteq Names
    BY Zenon DEF Types, Names, Inner
  <2>5. "dead" \notin Early \cup {"layout"}
    BY Zenon DEF Early
  <2> QED BY <2>1, <2>2, <2>3, <2>4, <2>5, Zenon DEF Building
<1> QED BY Zenon, <1>1, <1>2, <1>3, <1>4, <1>5, <1>6, <1>7, <1>8, <1>9, <1>10, <1>11, <1>12,
   <1>13 DEF Step

\* A process that is past the layout holds "databases".
LEMMA Holder ==
    ASSUME Inv, NEW p \in Processes, pc[p] \in Inside
    PROVE  owner["databases"] = p
<1>1. "databases" \in Layout
  BY Zenon DEF Layout
<1> QED BY <1>1, Zenon DEF Inv, Holding

\* A step that changes nothing inside the data directory and goes on only to the layout
\* or to a rollback keeps Holding.
LEMMA HoldingSame ==
    ASSUME Inv, made' = made, written' = written,
           \A x \in Inner \cup Credentials : owner'[x] = owner[x],
           \A q \in Processes : pc'[q] \in {"layout", "undo"} \/ pc'[q] = pc[q]
    PROVE  Holding'
<1>1. Layout \cup {"pending", "state", "credentials"} \subseteq Inner
  BY Zenon DEF Inner
<1>2. \A q \in Processes : written[q] \subseteq Credentials
  BY Zenon DEF Inv, Types
<1>3. "layout" \notin Inside /\ "undo" \notin Inside
  BY Zenon DEF Inside, Stored
<1>4. Stored \cup {"install", "sync", "admin", "config", "done"} \subseteq Inside
  BY Zenon DEF Inside, Stored
<1>5. \A q \in Processes : pc'[q] \in Inside => pc'[q] = pc[q]
  BY <1>3, Zenon
<1> QED BY <1>1, <1>2, <1>4, <1>5 DEF Inv, Holding, Present

\* Every step preserves Holding.
LEMMA HoldingKept ==
    ASSUME Inv, NEW p \in Processes, Step(p)
    PROVE  Holding'
<1> USE DirectoryMarkers DEF Inv
<1>1. CASE Begin(p)
  BY <1>1 DEF Begin, Go, Holding, Present, Inside, Stored
<1>2. CASE Inspect(p)
  BY <1>2 DEF Inspect, Go, Holding, Present, Inside, Stored
<1>3. CASE CreateRoot(p)
  <2>1. \A x \in Inner \cup Credentials : owner'[x] = owner[x]
    BY <1>3, RootCreates DEF Names, Outer, Inner, Layout, Credentials
  <2>2. /\ made' = made /\ written' = written
        /\ \A q \in Processes : pc'[q] \in {"layout", "undo"} \/ pc'[q] = pc[q]
    BY <1>3, Zenon DEF CreateRoot, Go, Undo, local, Types
  <2> QED BY <2>1, <2>2, HoldingSame, Zenon
<1>4. CASE CreateDirectory(p)
  <2>0. /\ NextDirectory(p) \in Layout \ made[p]
        /\ "databases" \notin made[p] => NextDirectory(p) = "databases"
    BY <1>4, NextIs, Zenon DEF CreateDirectory, Types, Building
  <2> QED BY <1>4, <2>0, CreateIs DEF CreateDirectory, Made, Go, Undo, Types, Building,
     Holding, Present, Inside, Stored, Names, Inner, Layout
<1>5. CASE WritePending(p)
  BY <1>5, CreateIs DEF WritePending, Go, Undo, local, Types, Holding, Present, Inside,
     Stored, Names, Inner, Layout
<1>6. CASE InstallState(p)
  BY <1>6 DEF InstallState, Go, Undo, local, Types, Holding, Present, Inside, Stored,
     Names, Inner, Layout
<1>7. CASE SyncState(p)
  <2>1. \A q \in Processes : pc[q] \in Inside => q = p
    <3>1. pc[p] \in Inside
      BY <1>7, Zenon DEF SyncState, Inside
    <3> QED BY <3>1, Holder, Zenon
  <2>2. \A q \in Processes : pc'[q] \in Inside => q = p
    BY <1>7, <2>1, Zenon DEF SyncState, Go, Undo, Types, local
  <2>3. CASE pc' = [pc EXCEPT ![p] = "query"] /\ UNCHANGED owner
    <3>1. pc[p] = "sync" /\ made' = made /\ written' = written
      BY <1>7, Zenon DEF SyncState, local
    <3> QED BY <2>3, <3>1 DEF Holding, Present, Inside
  <2>4. CASE pc' = [pc EXCEPT ![p] = "undo"]
    <3>1. \A q \in Processes : pc'[q] \notin Inside
      BY <2>2, <2>4, Zenon DEF Types, Inside, Stored
    <3>2. \A q \in Processes : /\ pc'[q] \notin Stored
                              /\ pc'[q] \notin {"install", "sync", "admin", "config", "done"}
      BY <3>1, Zenon DEF Inside, Stored
    <3> QED BY <3>1, <3>2, Zenon DEF Holding
  <2> QED BY <1>7, <2>3, <2>4, Zenon DEF SyncState, Go, Undo, local
<1>8. CASE WriteCredential(p, "query", "admin")
  BY <1>8, CreateIs DEF WriteCredential, Go, Undo, Types, Holding, Present, Inside,
     Stored, Names, Inner, Layout, Credentials
<1>9. CASE WriteCredential(p, "admin", "config")
  BY <1>9, CreateIs DEF WriteCredential, Go, Undo, Types, Holding, Present, Inside,
     Stored, Names, Inner, Layout, Credentials
<1>10. CASE WriteConfig(p)
  <2>1. \A x \in Inner \cup Credentials : owner'[x] = owner[x]
    <3>1. \A x \in Inner \cup Credentials : x \in Names /\ x \notin {"parent", path[p]}
      BY DEF Types, Names, Outer, Inner, Layout, Credentials
    <3> QED BY <1>10, <3>1, ConfigCreates, Zenon
  <2>2. made' = made /\ written' = written /\ pc[p] = "config"
    BY <1>10, Zenon DEF WriteConfig, local
  <2>3. CASE Undo(p, DaemonRollback(p))
    <3>1. \A q \in Processes : pc'[q] \in {"layout", "undo"} \/ pc'[q] = pc[q]
      BY <2>3, Zenon DEF Undo, Types
    <3> QED BY <2>1, <2>2, <3>1, HoldingSame, Zenon
  <2>4. CASE pc' = [pc EXCEPT ![p] = "done"]
    <3>1. \A q \in Processes : q # p => pc'[q] = pc[q]
      BY <2>4, Zenon DEF Types
    <3>2. pc'[p] = "done"
      BY <2>4, Zenon DEF Types
    <3> QED BY <2>1, <2>2, <3>1, <3>2 DEF Holding, Present, Inside, Stored, Types, Inner
  <2> QED BY <1>10, <2>3, <2>4, Zenon DEF WriteConfig, Go
<1>11. CASE RemoveNext(p)
  BY <1>11 DEF RemoveNext, local, Holding, Removing, Present, Empty, Inside, Stored,
     Inner, Layout
<1>12. CASE EndRollback(p)
  BY <1>12 DEF EndRollback, Go, local, Holding, Present, Inside, Stored
<1>13. CASE Kill(p)
  <2>1. /\ made' = made /\ written' = written
        /\ \A q \in Processes : pc'[q] = "dead" \/ (q # p /\ pc'[q] = pc[q])
    BY <1>13, Zenon DEF Kill, Go, local, Types
  <2>2. \A x \in Names : owner[x] # Nobody => owner'[x] = owner[x]
    BY <1>13, KillCreates, Zenon
  <2>3. ASSUME NEW q \in Processes, q # p, pc[q] \in Inside
        PROVE  owner'["pending"] = owner["pending"]
    <3>1. "pending" \in Names
      BY Zenon DEF Names, Inner
    <3>2. pc[p] \notin Inside
      BY <2>3, Holder, Zenon
    <3> QED BY <1>13, <3>1, <3>2, KillCreates, Zenon
  <2>4. Layout \cup {"pending", "state", "credentials"} \cup Credentials \subseteq Names
    BY Zenon DEF Names, Inner
  <2>5. ASSUME NEW q \in Processes, pc'[q] # "dead"
        PROVE  q # p /\ pc'[q] = pc[q] /\ made'[q] = made[q] /\ written'[q] = written[q]
    BY <2>1, <2>5, Zenon
  <2> QED BY <2>2, <2>3, <2>4, <2>5 DEF Holding, Present, Inside, Stored, Types
<1> QED BY Zenon, <1>1, <1>2, <1>3, <1>4, <1>5, <1>6, <1>7, <1>8, <1>9, <1>10, <1>11, <1>12,
   <1>13 DEF Step

\* While credentials and configuration are written, the directory is held: no other
\* rollback has more than the root to remove, and the own one removes its own.
LEMMA DaemonRemoving ==
    ASSUME Inv, NEW p \in Processes, pc[p] \in Stored,
           owner' = owner \/ \E xs : Create(p, xs),
           \/ Undo(p, DaemonRollback(p))
           \/ \E there : there # "undo" /\ Go(p, there)
    PROVE  Removing'
<1> USE DirectoryMarkers DEF Inv
<1>1. /\ \A x \in Layout : owner[x] = p
      /\ owner["state"] = p /\ ~Present("pending")
      /\ \A c \in written[p] : owner[c] = p
  BY Zenon DEF Holding, Inside
<1>2. "databases" \in Layout /\ Layout \cup {"pending", "state"} \cup written[p] \subseteq Names
  BY Zenon DEF Layout, Names, Inner, Types
<1>3. \A x \in Names : /\ owner[x] = p => owner'[x] = p
                       /\ owner[x] = Nobody => owner'[x] \in {p, Nobody}
  BY CreateIs, Zenon
<1>4. ASSUME NEW q \in Processes, q # p, pc'[q] = "undo"
      PROVE  todo'[q] \subseteq {"root"}
  <2>1. pc[q] = "undo" /\ todo'[q] = todo[q]
    BY <1>4, Zenon DEF Go, Undo, Types
  <2> QED BY <1>1, <1>2, <1>4, <2>1, Zenon DEF Removing
<1>5. ASSUME pc'[p] = "undo"
      PROVE  /\ \A x \in todo'[p] \ Shared : owner'[x] \in {p, Nobody}
             /\ "databases" \in todo'[p] /\ owner'["databases"] = p
  <2>1. todo'[p] = DaemonRollback(p)
    BY <1>5, Zenon DEF Go, Undo, Types
  <2>2. \A x \in DaemonRollback(p) \ Shared : x \in Names /\ owner[x] \in {p, Nobody}
    BY <1>1, <1>2, Zenon DEF DaemonRollback, Unless, Shared, Present
  <2>3. "databases" \in DaemonRollback(p)
    BY <1>2, Zenon DEF DaemonRollback
  <2>4. \A x \in todo'[p] \ Shared : owner'[x] \in {p, Nobody}
    BY <1>3, <2>1, <2>2, Zenon
  <2>5. owner'["databases"] = p
    BY <1>1, <1>2, <1>3, Zenon
  <2> QED BY <2>1, <2>3, <2>4, <2>5, Zenon
<1> QED BY <1>4, <1>5, Zenon DEF Removing, Shared

\* Every step preserves Removing.
LEMMA RemovingKept ==
    ASSUME Inv, NEW p \in Processes, Step(p)
    PROVE  Removing'
<1> USE DirectoryMarkers DEF Inv
<1>1. CASE Begin(p)
  BY <1>1 DEF Begin, Go, Removing
<1>2. CASE Inspect(p)
  BY <1>2 DEF Inspect, Go, Removing
<1>3. CASE CreateRoot(p)
  <2>1. \A x \in Removable \ {"root"} : owner'[x] = owner[x]
    BY <1>3, RootCreates DEF Removable, Names, Outer, Inner, Layout, Credentials
  <2>2. /\ \A q \in Processes \ {p} : pc'[q] = pc[q] /\ todo'[q] = todo[q]
        /\ pc'[p] = "undo" => todo'[p] = {"root"}
    BY <1>3 DEF CreateRoot, Go, Undo, Types
  <2>3. "databases" \in Removable \ {"root"} /\ "root" \in Shared
    BY DEF Removable, Inner, Layout, Shared
  <2>4. \A q \in Processes : todo[q] \ Shared \subseteq Removable \ {"root"}
    BY Zenon DEF Types, Shared
  <2>5. ASSUME NEW q \in Processes, pc'[q] = "undo"
        PROVE  /\ \A x \in todo'[q] \ Shared : owner'[x] \in {q, Nobody}
               /\ \/ todo'[q] \subseteq {"root"}
                  \/ "databases" \in todo'[q] /\ owner'["databases"] = q
    <3>1. CASE q = p
      BY <2>2, <2>3, <2>5, <3>1, Zenon
    <3>2. CASE q # p
      <4>1. pc[q] = "undo" /\ todo'[q] = todo[q]
        BY <2>2, <2>5, <3>2, Zenon
      <4> QED BY <2>1, <2>3, <2>4, <4>1, Zenon DEF Removing
    <3> QED BY <3>1, <3>2, Zenon
  <2> QED BY <2>5, Zenon DEF Removing
<1>4. CASE CreateDirectory(p)
  <2>0. /\ NextDirectory(p) \in Layout \ made[p]
        /\ "databases" \notin made[p] => NextDirectory(p) = "databases"
    BY <1>4, NextIs, Zenon DEF CreateDirectory, Types, Building
  <2> QED BY <1>4, <2>0, CreateIs DEF CreateDirectory, Made, CatalogRollback, Unless,
     Go, Undo, Types, Building, Removing, Shared
<1>5. CASE WritePending(p)
  BY <1>5, CreateIs DEF WritePending, CatalogRollback, Unless, Go, Undo, Types, Holding,
     Removing, Shared, Inside, Names, Inner, Layout, local
<1>6. CASE InstallState(p)
  BY <1>6 DEF InstallState, CatalogRollback, Unless, Go, Undo, Delete, Types, Holding,
     Removing, Shared, Inside, Names, Inner, Layout, local
<1>7. CASE SyncState(p)
  BY <1>7 DEF SyncState, CatalogRollback, Unless, Go, Undo, Delete, Types, Holding,
     Removing, Shared, Inside, Names, Inner, Layout, local
<1>8. CASE WriteCredential(p, "query", "admin")
  BY <1>8, DaemonRemoving, Zenon DEF WriteCredential, Stored
<1>9. CASE WriteCredential(p, "admin", "config")
  BY <1>9, DaemonRemoving, Zenon DEF WriteCredential, Stored
<1>10. CASE WriteConfig(p)
  BY <1>10, DaemonRemoving, Zenon DEF WriteConfig, Stored
<1>11. CASE RemoveNext(p)
  BY <1>11, DatabasesLast DEF RemoveNext, Delete, Types, Removing, Removable, Empty,
     Names, Outer, local
<1>12. CASE EndRollback(p)
  BY <1>12 DEF EndRollback, Go, Removing, local
<1>13. CASE Kill(p)
  <2>1. /\ todo' = todo /\ owner'["databases"] = owner["databases"]
        /\ \A q \in Processes : pc'[q] = "undo" => q # p /\ pc[q] = "undo"
    BY <1>13, KillCreates, Zenon DEF Kill, Go, Types
  <2>2. ASSUME NEW q \in Processes, q # p, pc[q] = "undo", NEW x \in todo[q] \ Shared
        PROVE  owner'[x] = owner[x]
    <3>1. x \in Names /\ x # "above" /\ x # "root"
      BY DEF Types, Removable, Shared, Names, Inner, Layout, Credentials
    <3>2. owner["databases"] = q
      BY <2>2, <3>1, Zenon DEF Removing
    <3>3. pc[p] \notin Inside
      BY <2>2, <3>2, Holder, Zenon
    <3> QED BY <1>13, <3>1, <3>3, KillCreates, Zenon
  <2> QED BY <2>1, <2>2, Zenon DEF Removing
<1> QED BY Zenon, <1>1, <1>2, <1>3, <1>4, <1>5, <1>6, <1>7, <1>8, <1>9, <1>10, <1>11, <1>12,
   <1>13 DEF Step

\* Nothing that process q remembers changes, and q gets no file.
Untouched(q) ==
    /\ pc'[q] = pc[q] /\ made'[q] = made[q] /\ written'[q] = written[q]
    /\ todo'[q] = todo[q]
    /\ q \in incomplete' \cup ignored' => q \in incomplete \cup ignored
    /\ incomplete \subseteq incomplete' /\ ignored \subseteq ignored'
    /\ \A x \in Names : owner'[x] = q => owner[x] = q

\* A step of one process leaves what another remembers and gives it no file.
LEMMA Others ==
    ASSUME Inv, NEW p \in Processes, Step(p), NEW q \in Processes, q # p
    PROVE  Untouched(q)
<1> USE DirectoryMarkers
<1>0. \A xs : Create(p, xs) => \A x \in Names : owner'[x] = q => owner[x] = q
  BY CreateIs, Zenon DEF Inv
<1>1. CASE Begin(p)
  BY <1>1, Zenon DEF Inv, Types, Untouched, Begin, Go, Reported
<1>2. CASE Inspect(p)
  BY <1>2, Zenon DEF Inv, Types, Untouched, Inspect, Go, Reported
<1>3. CASE CreateRoot(p)
  BY <1>0, <1>3, Zenon DEF Inv, Types, Untouched, CreateRoot, Go, Undo, Reported, local
<1>4. CASE CreateDirectory(p)
  BY <1>0, <1>4, Zenon DEF Inv, Types, Untouched, CreateDirectory, Made, CatalogRollback,
     Unless, Go, Undo, Reported
<1>5. CASE WritePending(p)
  BY <1>0, <1>5, Zenon DEF Inv, Types, Untouched, WritePending, CatalogRollback, Unless,
     Go, Undo, Reported, local
<1>6. CASE InstallState(p)
  BY <1>6 DEF Inv, Types, Untouched, InstallState, CatalogRollback, Unless, Go, Undo,
     Delete, Reported, local
<1>7. CASE SyncState(p)
  BY <1>7, Zenon DEF Inv, Types, Untouched, SyncState, CatalogRollback, Unless, Go, Undo,
     Delete, Reported, local
<1>8. CASE WriteCredential(p, "query", "admin")
  BY <1>0, <1>8, Zenon DEF Inv, Types, Untouched, WriteCredential, DaemonRollback, Unless,
     Go, Undo, Reported
<1>9. CASE WriteCredential(p, "admin", "config")
  BY <1>0, <1>9, Zenon DEF Inv, Types, Untouched, WriteCredential, DaemonRollback, Unless,
     Go, Undo, Reported
<1>10. CASE WriteConfig(p)
  BY <1>0, <1>10, Zenon DEF Inv, Types, Untouched, WriteConfig, DaemonRollback, Unless, Go,
     Undo, Reported, local
<1>11. CASE RemoveNext(p)
  BY <1>11, Zenon DEF Inv, Types, Untouched, RemoveNext, Delete, local
<1>12. CASE EndRollback(p)
  BY <1>12, Zenon DEF Inv, Types, Untouched, EndRollback, Go, Reported, local
<1>13. CASE Kill(p)
  <2>1. \A x \in Names : owner'[x] = q => owner[x] = q
    BY <1>13, KillCreates, Zenon DEF Inv
  <2> QED BY <1>13, <2>1, Zenon DEF Inv, Types, Untouched, Kill, Go, Reported, local
<1> QED BY Zenon, <1>1, <1>2, <1>3, <1>4, <1>5, <1>6, <1>7, <1>8, <1>9, <1>10, <1>11, <1>12,
   <1>13 DEF Step

\* A step that creates none but names of the data directory, and "databases" only in
\* a root that is there, keeps Written.
LEMMA NoConfig ==
    ASSUME Inv, NEW p \in Processes, torn' = torn,
           owner' = owner \/ \E xs \in SUBSET (Removable \cup Outer) : Create(p, xs),
           \A q \in Processes : pc[q] = "done" => pc'[q] = "done",
           owner'["databases"] # owner["databases"] => Present("root")
    PROVE  Written'
<1> USE DirectoryMarkers DEF Inv
<1>1. \A c \in Configs : owner'[c] = owner[c]
  BY ConfigsApart, Zenon
<1>2. owner["root"] # Nobody => owner'["root"] # Nobody
  BY CreateIs, Zenon DEF Names, Outer
<1> QED BY <1>1, <1>2, Zenon DEF Written, Present

\* Every step preserves Written.
LEMMA WrittenKept ==
    ASSUME Inv, NEW p \in Processes, Step(p)
    PROVE  Written'
<1> USE DirectoryMarkers DEF Inv
<1>1. CASE Begin(p)
  <2>1. torn' = torn /\ owner' = owner
    BY <1>1, Zenon DEF Begin
  <2>2. \A q \in Processes : pc[q] = "done" => pc'[q] = "done"
    BY <1>1, Zenon DEF Begin, Go, Types
  <2> QED BY <2>1, <2>2, NoConfig, Zenon
<1>2. CASE Inspect(p)
  <2>1. torn' = torn /\ owner' = owner
    BY <1>2, Zenon DEF Inspect
  <2>2. \A q \in Processes : pc[q] = "done" => pc'[q] = "done"
    BY <1>2, Zenon DEF Inspect, Go, Types
  <2> QED BY <2>1, <2>2, NoConfig, Zenon
<1>3. CASE CreateRoot(p)
  <2>1. {"above"} \subseteq Removable \cup Outer /\ {"above", "root"} \subseteq Removable \cup Outer
    BY Zenon DEF Outer
  <2>2. /\ torn' = torn
        /\ owner' = owner \/ Create(p, {"above"}) \/ Create(p, {"above", "root"})
    BY <1>3, Zenon DEF CreateRoot, Go, Undo, Reported, local
  <2>3. \A q \in Processes : pc[q] = "done" => pc'[q] = "done"
    BY <1>3, Zenon DEF CreateRoot, Go, Undo, Types, local
  <2>4. owner'["databases"] = owner["databases"]
    BY <2>2, CreateIs DEF Names, Inner, Layout
  <2> QED BY <2>1, <2>2, <2>3, <2>4, NoConfig, Zenon
<1>4. CASE CreateDirectory(p)
  <2>0. NextDirectory(p) \in Layout
    BY <1>4, NextIs, Zenon DEF CreateDirectory, Types, Building
  <2>1. {NextDirectory(p)} \in SUBSET (Removable \cup Outer)
    BY <2>0, Zenon DEF Removable, Inner
  <2>2. torn' = torn /\ (owner' = owner \/ Create(p, {NextDirectory(p)}))
    BY <1>4, Zenon DEF CreateDirectory, Made, CatalogRollback, Unless, Go, Undo, Reported
  <2>3. \A q \in Processes : pc[q] = "done" => pc'[q] = "done"
    BY <1>4, Zenon DEF CreateDirectory, Made, Go, Undo, Types
  <2>4. owner' # owner => Present("root")
    BY <1>4, Zenon DEF CreateDirectory, Made
  <2> QED BY <2>1, <2>2, <2>3, <2>4, NoConfig, Zenon
<1>5. CASE WritePending(p)
  <2>1. {"pending"} \in SUBSET (Removable \cup Outer)
    BY Zenon DEF Removable, Inner
  <2>2. torn' = torn /\ (owner' = owner \/ Create(p, {"pending"}))
    BY <1>5, Zenon DEF WritePending, CatalogRollback, Unless, Go, Undo, Reported, local
  <2>3. \A q \in Processes : pc[q] = "done" => pc'[q] = "done"
    BY <1>5, Zenon DEF WritePending, Go, Undo, Types, local
  <2>4. owner'["databases"] = owner["databases"]
    BY <2>2, CreateIs DEF Names, Inner, Layout
  <2> QED BY <2>1, <2>2, <2>3, <2>4, NoConfig, Zenon
<1>6. CASE InstallState(p)
  <2>1. \A x \in Names \ {"pending", "state"} : owner'[x] = owner[x]
    BY <1>6, Zenon DEF InstallState, Delete, Types
  <2>2. Configs \cup {"root", "databases"} \subseteq Names \ {"pending", "state"}
    BY Zenon DEF Names, Outer, Inner, Layout
  <2>3. torn' = torn /\ \A q \in Processes : pc[q] = "done" => pc'[q] = "done"
    BY <1>6, Zenon DEF InstallState, Go, Undo, Types
  <2> QED BY <2>1, <2>2, <2>3, Zenon DEF Written, Present
<1>7. CASE SyncState(p)
  <2>1. \A x \in Names \ {"pending", "state"} : owner'[x] = owner[x]
    BY <1>7, Zenon DEF SyncState, Delete, Types
  <2>2. Configs \cup {"root", "databases"} \subseteq Names \ {"pending", "state"}
    BY Zenon DEF Names, Outer, Inner, Layout
  <2>3. torn' = torn /\ \A q \in Processes : pc[q] = "done" => pc'[q] = "done"
    BY <1>7, Zenon DEF SyncState, Go, Undo, Types
  <2> QED BY <2>1, <2>2, <2>3, Zenon DEF Written, Present
<1>8. CASE WriteCredential(p, "query", "admin")
  <2>1. /\ {"credentials", "query"} \subseteq Removable \cup Outer
        /\ {"credentials"} \subseteq Removable \cup Outer
    BY Zenon DEF Removable, Inner, Credentials
  <2>2. /\ torn' = torn
        /\ \/ owner' = owner
           \/ Create(p, {"credentials", "query"}) \/ Create(p, {"credentials"})
    BY <1>8, Zenon DEF WriteCredential, DaemonRollback, Unless, Go, Undo, Reported
  <2>3. \A q \in Processes : pc[q] = "done" => pc'[q] = "done"
    BY <1>8, Zenon DEF WriteCredential, Go, Undo, Types
  <2>4. owner'["databases"] = owner["databases"]
    BY <2>2, CreateIs DEF Names, Inner, Layout
  <2> QED BY <2>1, <2>2, <2>3, <2>4, NoConfig, Zenon
<1>9. CASE WriteCredential(p, "admin", "config")
  <2>1. /\ {"credentials", "admin"} \subseteq Removable \cup Outer
        /\ {"credentials"} \subseteq Removable \cup Outer
    BY Zenon DEF Removable, Inner, Credentials
  <2>2. /\ torn' = torn
        /\ \/ owner' = owner
           \/ Create(p, {"credentials", "admin"}) \/ Create(p, {"credentials"})
    BY <1>9, Zenon DEF WriteCredential, DaemonRollback, Unless, Go, Undo, Reported
  <2>3. \A q \in Processes : pc[q] = "done" => pc'[q] = "done"
    BY <1>9, Zenon DEF WriteCredential, Go, Undo, Types
  <2>4. owner'["databases"] = owner["databases"]
    BY <2>2, CreateIs DEF Names, Inner, Layout
  <2> QED BY <2>1, <2>2, <2>3, <2>4, NoConfig, Zenon
<1>10. CASE WriteConfig(p)
  <2>1. \A c \in Configs : c \notin torn' =>
           c \notin torn /\ (owner'[c] = owner[c] \/ (owner'[c] = p /\ pc'[p] = "done"))
    <3>1. \A c \in Configs : c \in Names /\ c # "parent"
      BY Zenon DEF Names, Outer
    <3>2. ASSUME NEW c \in Configs, owner'[c] # owner[c]
          PROVE  c = path[p] /\ owner'[c] = p
      BY <1>10, <3>1, <3>2, ConfigCreates, Zenon
    <3>3. CASE torn' = torn \cup {path[p]}
      BY <3>2, <3>3, Zenon
    <3>4. CASE torn' = torn /\ pc' = [pc EXCEPT ![p] = "done"]
      BY <3>2, <3>4, Zenon DEF Types
    <3>5. CASE torn' = torn /\ (Create(p, {"parent"}) \/ owner' = owner)
      <4>1. ASSUME NEW c \in Configs PROVE owner'[c] = owner[c]
        BY <3>1, <3>5, CreateIs
      <4> QED BY <3>5, <4>1, Zenon
    <3> QED BY <1>10, <3>3, <3>4, <3>5, Zenon DEF WriteConfig, Go
  <2>2. \A q \in Processes : pc[q] = "done" => pc'[q] = "done"
    BY <1>10, Zenon DEF WriteConfig, DaemonRollback, Unless, Go, Undo, Reported, local, Types
  <2>3. owner'["databases"] = owner["databases"] /\ owner'["root"] = owner["root"]
    <3>1. /\ "databases" \in Names /\ "databases" \notin {"parent", path[p]}
          /\ "root" \in Names /\ "root" \notin {"parent", path[p]}
      BY DEF Types, Names, Outer, Inner, Layout
    <3> QED BY <1>10, <3>1, ConfigCreates, Zenon
  <2> QED BY <2>1, <2>2, <2>3, Zenon DEF Written, Present
<1>11. CASE RemoveNext(p)
  <2>1. PICK x \in todo[p] : owner' = owner \/ (Empty(x) /\ Delete(x))
    BY <1>11, Zenon DEF RemoveNext
  <2>2. \A y \in Names : owner'[y] = owner[y] \/ owner'[y] = Nobody
    BY <2>1, Zenon DEF Delete, Types
  <2>3. /\ pc' = pc /\ torn' = torn
        /\ Configs \cup {"root", "databases"} \subseteq Names
    BY <1>11, Zenon DEF RemoveNext, Names, Outer, Inner, Layout
  <2>4. Present("databases") /\ owner'["root"] # owner["root"] => FALSE
    BY <2>1, <2>3, Zenon DEF Delete, Types, Empty, Inner, Layout
  <2> QED BY <2>2, <2>3, <2>4, Zenon DEF Written, Present
<1>12. CASE EndRollback(p)
  <2>1. torn' = torn /\ owner' = owner
    BY <1>12, Zenon DEF EndRollback, local
  <2>2. \A q \in Processes : pc[q] = "done" => pc'[q] = "done"
    BY <1>12, Zenon DEF EndRollback, Go, Types
  <2> QED BY <2>1, <2>2, NoConfig, Zenon
<1>13. CASE Kill(p)
  <2>1. \A c \in Configs : c \notin torn' => c \notin torn /\ owner'[c] = owner[c]
    BY <1>13, KillCreates, Zenon
  <2>2. \A q \in Processes : pc[q] = "done" => pc'[q] = "done"
    BY <1>13, Zenon DEF Kill, Go, Reported, local, Types
  <2>3. owner'["databases"] = owner["databases"] /\ owner'["root"] = owner["root"]
    BY <1>13, KillCreates, Zenon
  <2> QED BY <2>1, <2>2, <2>3, Zenon DEF Written, Present
<1> QED BY Zenon, <1>1, <1>2, <1>3, <1>4, <1>5, <1>6, <1>7, <1>8, <1>9, <1>10, <1>11, <1>12,
   <1>13 DEF Step

\* Within, after a step.
NowWithin(p, xs) == \A x \in Names \ Outer : owner'[x] = p => x \in xs

\* A process that creates nothing owns what it did.
LEMMA WithinSame ==
    ASSUME NEW p \in Processes, NEW xs, NEW ys, Within(p, xs), owner' = owner, xs \subseteq ys
    PROVE  NowWithin(p, ys)
BY Zenon DEF Within, NowWithin

\* A process that creates names owns those besides.
LEMMA WithinCreate ==
    ASSUME Types, NEW p \in Processes, NEW xs, NEW ys, NEW zs, Within(p, xs), Create(p, zs),
           xs \subseteq ys, zs \subseteq ys \cup Outer
    PROVE  NowWithin(p, ys)
BY CreateIs, Zenon DEF Within, NowWithin

\* What a process removes it owns no longer.
LEMMA WithinDelete ==
    ASSUME Types, NEW p \in Processes, NEW x, NEW xs, NEW ys, Within(p, xs), Delete(x),
           xs \subseteq ys \cup {x}
    PROVE  NowWithin(p, ys)
<1>1. \A y \in Names : owner'[y] = p => y # x /\ owner[y] = p
  BY DirectoryMarkers, Zenon DEF Delete, Types
<1> QED BY <1>1, Zenon DEF Within, NowWithin

\* What is to be shown of a process, by the step it has reached.
LEMMA Reached ==
    ASSUME NEW p \in Processes
    PROVE  /\ pc'[p] = "layout" /\ NowWithin(p, made'[p]) => AccountedFor(p)'
           /\ pc'[p] = "pending" /\ NowWithin(p, Layout) => AccountedFor(p)'
           /\ pc'[p] = "install" /\ NowWithin(p, Layout \cup {"pending"}) => AccountedFor(p)'
           /\ pc'[p] = "sync" /\ NowWithin(p, Layout \cup {"state"}) => AccountedFor(p)'
           /\ pc'[p] \in Stored /\
                 NowWithin(p, Layout \cup {"state", "credentials"} \cup written'[p])
              => AccountedFor(p)'
           /\ pc'[p] = "undo" /\ NowWithin(p, todo'[p]) => AccountedFor(p)'
           /\ pc'[p] \in {"done", "dead"} => AccountedFor(p)'
<1>1. ASSUME pc'[p] \in {"layout", "pending", "install", "sync", "undo", "done", "dead"}
      PROVE  pc'[p] \notin Early \cup {"failed"} /\ pc'[p] \notin Stored \ {"done"}
  BY <1>1 DEF Early, Stored
<1>2. ASSUME pc'[p] \in Stored
      PROVE  pc'[p] \notin Early \cup {"failed", "layout", "pending", "install", "sync", "undo"}
  BY <1>2 DEF Early, Stored
<1> QED BY <1>1, <1>2, Zenon DEF AccountedFor, Within, NowWithin

\* write_credential adds to what its process owns only what the rollback would remove.
LEMMA CredentialAccounted ==
    ASSUME Inv, NEW p \in Processes, NEW c \in {"query", "admin"},
           NEW there \in {"admin", "config"}, WriteCredential(p, c, there),
           p \notin incomplete', AccountedFor(p)
    PROVE  AccountedFor(p)'
<1> DEFINE Base == Layout \cup {"state", "credentials"}
<1>1. Types /\ pc[p] = c
  BY Zenon DEF Inv, WriteCredential
<1>2. pc[p] \in Stored \ {"done"} /\ there \in Stored
  BY <1>1 DEF Stored
<1>3. Within(p, Base \cup written[p])
  BY <1>2, Zenon DEF AccountedFor
<1>4. CASE /\ Create(p, {"credentials", c}) /\ pc' = [pc EXCEPT ![p] = there]
           /\ written' = [written EXCEPT ![p] = @ \cup {c}]
  <2>1. written'[p] = written[p] \cup {c} /\ pc'[p] = there
    BY <1>1, <1>4, Zenon DEF Types
  <2>2. /\ Base \cup written[p] \subseteq Base \cup written'[p]
        /\ {"credentials", c} \subseteq Base \cup written'[p] \cup Outer
    BY <2>1, Zenon
  <2>3. NowWithin(p, Base \cup written'[p])
    BY <1>1, <1>3, <1>4, <2>2, WithinCreate, Zenon
  <2> QED BY <1>2, <2>1, <2>3, Reached, Zenon
<1>5. CASE /\ Create(p, {"credentials"}) \/ UNCHANGED owner
           /\ Undo(p, DaemonRollback(p))
  <2>1. pc'[p] = "undo" /\ Base \cup written[p] \subseteq todo'[p]
    BY <1>1, <1>5, Zenon DEF Undo, Types, DaemonRollback
  <2>2. {"credentials"} \subseteq todo'[p] \cup Outer
    BY <2>1, Zenon
  <2>3. NowWithin(p, todo'[p])
    BY <1>1, <1>3, <1>5, <2>1, <2>2, WithinCreate, WithinSame, Zenon
  <2> QED BY <2>1, <2>3, Reached, Zenon
<1> QED BY <1>4, <1>5, Zenon DEF WriteCredential, Go

\* Every step preserves Accounted.
LEMMA AccountedKept ==
    ASSUME Inv, NEW p \in Processes, Step(p)
    PROVE  Accounted'
<1>a. ASSUME NEW q \in Processes \ {p}, q \notin incomplete' \cup ignored'
      PROVE  AccountedFor(q)'
  <2>1. Untouched(q) BY Others, Zenon
  <2>2. AccountedFor(q) BY <1>a, <2>1, Zenon DEF Untouched, Inv, Accounted
  <2>3. ASSUME NEW xs, Within(q, xs)
        PROVE  \A x \in Names \ Outer : owner'[x] = q => x \in xs
    BY <2>1, <2>3, Zenon DEF Untouched, Within
  <2>4. pc'[q] = pc[q] /\ made'[q] = made[q] /\ written'[q] = written[q] /\ todo'[q] = todo[q]
    BY <2>1, Zenon DEF Untouched
  <2> QED BY <2>2, <2>3, <2>4, Zenon DEF AccountedFor, Within
<1> SUFFICES ASSUME p \notin incomplete' \cup ignored'
             PROVE  AccountedFor(p)'
  BY <1>a, Zenon DEF Accounted
<1>b. AccountedFor(p)
  <2>1. incomplete \subseteq incomplete' /\ ignored \subseteq ignored'
    BY Zenon DEF Step, Begin, Inspect, CreateRoot, CreateDirectory, WritePending,
       InstallState, SyncState, WriteCredential, WriteConfig, RemoveNext, EndRollback,
       Kill, Reported, local
  <2> QED BY <2>1, Zenon DEF Inv, Accounted
<1>c. Types BY Zenon DEF Inv
<1>d. pc[p] \in Inside => made[p] = Layout BY Zenon DEF Inv, Holding
<1>e. ASSUME NEW there, Go(p, there) PROVE pc'[p] = there
  BY <1>c, <1>e, Zenon DEF Go, Types
<1>f. ASSUME NEW names, Undo(p, names) PROVE pc'[p] = "undo" /\ todo'[p] = names
  BY <1>c, <1>f, Zenon DEF Undo, Types
<1>g. made[p] \subseteq CatalogRollback(p) BY Zenon DEF CatalogRollback
<1>1. CASE Begin(p)
  BY <1>1, <1>b, Zenon DEF Begin, Go, Inv, Types, AccountedFor, Within, Early
<1>2. CASE Inspect(p)
  BY <1>2, <1>b, Zenon DEF Inspect, Go, Inv, Types, AccountedFor, Within, Early
<1>3. CASE CreateRoot(p)
  <2>1. Within(p, {}) /\ UNCHANGED made
    BY <1>3, <1>b, Zenon DEF CreateRoot, AccountedFor, Early, local
  <2>2. CASE Create(p, {"above", "root"}) /\ Go(p, "layout")
    <3>1. {} \subseteq made'[p] /\ {"above", "root"} \subseteq made'[p] \cup Outer
      BY Zenon DEF Outer
    <3>2. NowWithin(p, made'[p]) BY <1>c, <2>1, <2>2, <3>1, WithinCreate, Zenon
    <3> QED BY <1>e, <2>2, <3>2, Reached, Zenon
  <2>3. CASE (Create(p, {"above"}) \/ UNCHANGED owner) /\ Undo(p, {"root"})
    <3>1. {} \subseteq todo'[p] /\ {"above"} \subseteq todo'[p] \cup Outer BY Zenon DEF Outer
    <3>2. NowWithin(p, todo'[p])
      BY <1>c, <2>1, <2>3, <3>1, WithinCreate, WithinSame, Zenon
    <3> QED BY <1>f, <2>3, <3>2, Reached, Zenon
  <2> QED BY <1>3, <2>2, <2>3, Zenon DEF CreateRoot
<1>4. CASE CreateDirectory(p)
  <2> DEFINE next == NextDirectory(p)
  <2>1. Within(p, made[p])
    BY <1>4, <1>b, Zenon DEF CreateDirectory, AccountedFor
  <2>2. CASE Made(p, next)
    <3>1. made'[p] = made[p] \cup {next}
      BY <1>c, <2>2, Zenon DEF Made, Types
    <3>2. made[p] \subseteq made'[p] /\ {next} \subseteq made'[p] \cup Outer
      BY <3>1, Zenon
    <3>3. NowWithin(p, made'[p])
      BY <1>c, <2>1, <2>2, <3>2, WithinCreate, Zenon DEF Made
    <3>4. \/ pc'[p] = "layout"
          \/ pc'[p] = "pending" /\ made'[p] = Layout
      BY <1>e, <2>2, <3>1, Zenon DEF Made
    <3> QED BY <3>3, <3>4, Reached, Zenon
  <2>3. CASE UNCHANGED owner /\ Undo(p, CatalogRollback(p))
    <3>1. NowWithin(p, todo'[p]) BY <1>f, <1>g, <2>1, <2>3, WithinSame, Zenon
    <3> QED BY <1>f, <2>3, <3>1, Reached, Zenon
  <2> QED BY <1>4, <2>2, <2>3, Zenon DEF CreateDirectory
<1>5. CASE WritePending(p)
  <2>1. Within(p, Layout) /\ made[p] = Layout
    BY <1>5, <1>b, <1>d, Zenon DEF WritePending, AccountedFor, Inside
  <2>2. CASE Create(p, {"pending"}) /\ Go(p, "install")
    <3>1. /\ Layout \subseteq Layout \cup {"pending"}
          /\ {"pending"} \subseteq (Layout \cup {"pending"}) \cup Outer
      BY Zenon
    <3>2. NowWithin(p, Layout \cup {"pending"}) BY <1>c, <2>1, <2>2, <3>1, WithinCreate, Zenon
    <3> QED BY <1>e, <2>2, <3>2, Reached, Zenon
  <2>3. CASE UNCHANGED owner /\ Undo(p, CatalogRollback(p))
    <3>1. NowWithin(p, todo'[p]) BY <1>f, <1>g, <2>1, <2>3, WithinSame, Zenon
    <3> QED BY <1>f, <2>3, <3>1, Reached, Zenon
  <2> QED BY <1>5, <2>2, <2>3, Zenon DEF WritePending
<1>6. CASE InstallState(p)
  <2>1. Within(p, Layout \cup {"pending"}) /\ made[p] = Layout
    BY <1>6, <1>b, <1>d, Zenon DEF InstallState, AccountedFor, Inside
  <2>2. CASE owner' = [owner EXCEPT !["pending"] = Nobody, !["state"] = p] /\ Go(p, "sync")
    <3>1. \A x \in Names : owner'[x] = p => x = "state" \/ (owner[x] = p /\ x # "pending")
      BY <1>c, <2>2, DirectoryMarkers, Zenon DEF Types
    <3>2. NowWithin(p, Layout \cup {"state"}) BY <2>1, <3>1, Zenon DEF Within, NowWithin
    <3> QED BY <1>e, <2>2, <3>2, Reached, Zenon
  <2>3. CASE Delete("pending") /\ Undo(p, CatalogRollback(p))
    <3>1. Layout \cup {"pending"} \subseteq todo'[p] \cup {"pending"}
      BY <1>f, <1>g, <2>1, <2>3, Zenon
    <3>2. NowWithin(p, todo'[p]) BY <1>c, <2>1, <2>3, <3>1, WithinDelete, Zenon
    <3> QED BY <1>f, <2>3, <3>2, Reached, Zenon
  <2> QED BY <1>6, <2>2, <2>3, Zenon DEF InstallState
<1>7. CASE SyncState(p)
  <2>1. Within(p, Layout \cup {"state"}) /\ made[p] = Layout
    BY <1>7, <1>b, <1>d, Zenon DEF SyncState, AccountedFor, Inside
  <2>2. CASE UNCHANGED owner /\ Go(p, "query")
    <3>1. Layout \cup {"state"} \subseteq Layout \cup {"state", "credentials"} \cup written'[p]
      BY Zenon
    <3>2. NowWithin(p, Layout \cup {"state", "credentials"} \cup written'[p])
      BY <2>1, <2>2, <3>1, WithinSame, Zenon
    <3> QED BY <1>e, <2>2, <3>2, Reached, Zenon DEF Stored
  <2>3. CASE Delete("state") /\ Undo(p, CatalogRollback(p))
    <3>1. Layout \cup {"state"} \subseteq todo'[p] \cup {"state"}
      BY <1>f, <1>g, <2>1, <2>3, Zenon
    <3>2. NowWithin(p, todo'[p]) BY <1>c, <2>1, <2>3, <3>1, WithinDelete, Zenon
    <3> QED BY <1>f, <2>3, <3>2, Reached, Zenon
  <2> QED BY <1>7, <2>2, <2>3, Zenon DEF SyncState
<1>8. CASE WriteCredential(p, "query", "admin")
  BY <1>8, <1>b, CredentialAccounted, Zenon
<1>9. CASE WriteCredential(p, "admin", "config")
  BY <1>9, <1>b, CredentialAccounted, Zenon
<1>10. CASE WriteConfig(p)
  <2>1. CASE Go(p, "done")
    BY <1>e, <2>1, Reached, Zenon
  <2>2. CASE (Create(p, {"parent"}) \/ UNCHANGED owner) /\ Undo(p, DaemonRollback(p))
    <3>1. Within(p, Layout \cup {"state", "credentials"} \cup written[p])
      BY <1>10, <1>b, Zenon DEF WriteConfig, AccountedFor, Stored
    <3>2. Layout \cup {"state", "credentials"} \cup written[p] \subseteq DaemonRollback(p)
      BY Zenon DEF DaemonRollback
    <3>3. {"parent"} \subseteq DaemonRollback(p) \cup Outer
      BY Zenon DEF Outer
    <3>4. NowWithin(p, todo'[p])
      BY <1>c, <1>f, <2>2, <3>1, <3>2, <3>3, WithinCreate, WithinSame, Zenon
    <3> QED BY <1>f, <2>2, <3>4, Reached, Zenon
  <2> QED BY <1>10, <2>1, <2>2, Zenon DEF WriteConfig
<1>11. CASE RemoveNext(p)
  <2>1. PICK x \in todo[p] : /\ pc[p] = "undo" /\ pc' = pc
                             /\ todo' = [todo EXCEPT ![p] = @ \ {x}] /\ Delete(x)
    BY <1>11, Zenon DEF RemoveNext
  <2>2. Within(p, todo[p]) BY <1>b, <2>1, Zenon DEF AccountedFor
  <2>3. todo'[p] = todo[p] \ {x} BY <1>c, <2>1, Zenon DEF Types
  <2>4. todo[p] \subseteq todo'[p] \cup {x} BY <2>3, Zenon
  <2>5. NowWithin(p, todo'[p]) BY <1>c, <2>1, <2>2, <2>4, WithinDelete, Zenon
  <2> QED BY <2>1, <2>5, Reached, Zenon
<1>12. CASE EndRollback(p)
  BY <1>12, <1>b, Zenon DEF EndRollback, Go, Reported, local, Inv, Types, AccountedFor, Within
<1>13. CASE Kill(p)
  BY <1>13, <1>e, Reached, Zenon DEF Kill
<1> QED BY Zenon, <1>1, <1>2, <1>3, <1>4, <1>5, <1>6, <1>7, <1>8, <1>9, <1>10, <1>11, <1>12,
   <1>13 DEF Step

-----------------------------------------------------------------------------
(* The theorems.                                                            *)

\* The invariant holds initially and every step keeps it.
LEMMA Invariance == Spec => []Inv
<1>1. Init => Inv
  <2> SUFFICES ASSUME Init PROVE Inv
    BY Zenon
  <2> USE DirectoryMarkers DEF Init
  <2>1. Types
    BY Zenon DEF Types, Points, Early, Names
  <2>2. Building /\ Holding /\ Removing
    BY Zenon DEF Building, Holding, Removing, Early, Inside, Stored
  <2>3. Written
    <3>1. \A c \in Configs : c \notin Outer /\ c \in Names
      BY Zenon DEF Names
    <3>2. "databases" \in Names /\ "databases" \notin Outer
      BY Zenon DEF Names, Outer, Inner, Layout
    <3> QED BY <3>1, <3>2, Zenon DEF Written, Present
  <2>4. Accounted
    <3>1. \A p \in Processes, x \in Names \ Outer : owner[x] # p
      BY Zenon
    <3>2. \A p \in Processes : \A xs : Within(p, xs)
      BY <3>1, Zenon DEF Within
    <3> QED BY <3>2, Zenon DEF Accounted, AccountedFor
  <2> QED BY <2>1, <2>2, <2>3, <2>4, Zenon DEF Inv
<1>2. Inv /\ [Next]_vars => Inv'
  <2> SUFFICES ASSUME Inv, [Next]_vars PROVE Inv'
    BY Zenon
  <2>1. CASE Next
    <3>1. PICK p \in Processes : Step(p)
      BY <2>1, Zenon DEF Next
    <3> QED BY <3>1, TypesKept, BuildingKept, HoldingKept, RemovingKept, WrittenKept,
               AccountedKept, Zenon DEF Inv
  <2>2. CASE UNCHANGED vars
    <3>1. /\ owner' = owner /\ torn' = torn /\ pc' = pc /\ path' = path /\ made' = made
          /\ written' = written /\ todo' = todo /\ incomplete' = incomplete
          /\ ignored' = ignored
      BY <2>2, Zenon DEF vars, local
    <3>2. Types' /\ Building' /\ Removing'
      BY <3>1, Zenon DEF Inv, Types, Building, Removing
    <3>3. Holding' BY <3>1 DEF Inv, Holding, Present
    <3>4. Written' BY <3>1, Zenon DEF Inv, Written, Present
    <3>5. Accounted'
      <4>1. \A p \in Processes : AccountedFor(p) => AccountedFor(p)'
        BY <3>1 DEF AccountedFor, Within
      <4> QED BY <3>1, <4>1, Zenon DEF Inv, Accounted
    <3> QED BY <3>2, <3>3, <3>4, <3>5, Zenon DEF Inv
  <2> QED BY <2>1, <2>2, Zenon
<1> QED BY <1>1, <1>2, PTL DEF Spec

\* A written configuration stands for a complete data directory that the process which
\* wrote it made alone (DatabaseDaemon::initialize), however many race, fail or die.
THEOREM Complete == Spec => []ConfigMeansComplete
<1>1. Inv => ConfigMeansComplete
  <2> SUFFICES ASSUME Inv, NEW c \in Configs, Present(c), c \notin torn
               PROVE  /\ Present("root") /\ Present("credentials")
                      /\ \A x \in Layout \cup Credentials \cup {"state"} :
                            owner[x] = owner[c]
    BY Zenon DEF ConfigMeansComplete
  <2> DEFINE p == owner[c]
  <2>1. p \in Processes /\ pc[p] = "done"
    BY Zenon DEF Inv, Written
  <2>2. /\ \A x \in Layout : owner[x] = p
        /\ owner["state"] = p /\ Present("credentials")
        /\ \A x \in Credentials : owner[x] = p
    <3>1. "done" \in Inside /\ "done" \in Stored
      BY Zenon DEF Inside, Stored
    <3> QED BY <2>1, <3>1 DEF Inv, Holding
  <2>3. Present("root")
    BY <2>1, <2>2, DirectoryMarkers, Zenon DEF Inv, Written, Present, Layout
  <2> QED BY <2>2, <2>3, Zenon
<1> QED BY <1>1, Invariance, PTL

\* Initialization that failed without a report of what is left, and without a removal
\* whose error write_atomic discards, left no configuration and nothing inside the data
\* directory.  Outside of it, and of the root itself, it may leave directories.
THEOREM NothingLeft == Spec => []FailedInitLeavesNothing
<1>1. Inv => FailedInitLeavesNothing
  BY Zenon DEF Inv, Accounted, AccountedFor, Within, FailedInitLeavesNothing
<1> QED BY <1>1, Invariance, PTL

\* A file or directory disappears only in a step of the process that created it, so no
\* rollback touches what another process made (rollback_initialization).
THEOREM OwnRemovals == Spec => RemovesOnlyItsOwn
<1> DEFINE Fine == \A p \in Processes, x \in Names \ {"root", "credentials"} :
          owner[x] = p /\ owner'[x] = Nobody => pc'[p] # pc[p] \/ todo'[p] # todo[p]
<1>1. Inv /\ [Next]_vars => [Fine]_vars
  <2> SUFFICES ASSUME Inv, NEW q \in Processes, Step(q),
                      NEW p \in Processes, NEW x \in Names \ {"root", "credentials"},
                      owner[x] = p, owner'[x] = Nobody
               PROVE  pc'[p] # pc[p] \/ todo'[p] # todo[p]
    BY Zenon DEF Next
  <2> USE DirectoryMarkers DEF Inv
  <2>1. \A xs : Create(q, xs) => owner'[x] # Nobody
    BY CreateIs, Zenon
  <2>2. owner' # owner
    BY Zenon
  <2>3. CASE InstallState(q)
    <3>1. owner["pending"] = q /\ pc'[q] # pc[q]
      BY <2>3 DEF InstallState, Go, Undo, Types, Holding
    <3>2. x = "pending"
      <4>1. CASE owner' = [owner EXCEPT !["pending"] = Nobody]
        BY <4>1, Zenon DEF Types
      <4>2. CASE owner' = [owner EXCEPT !["pending"] = Nobody, !["state"] = q]
        BY <4>2 DEF Types
      <4> QED BY <2>2, <2>3, <4>1, <4>2, Zenon DEF InstallState, Delete
    <3> QED BY <3>1, <3>2, Zenon
  <2>4. CASE SyncState(q)
    BY <2>4 DEF SyncState, Delete, Go, Undo, Types, Holding, local
  <2>5. CASE RemoveNext(q)
    <3>1. PICK y \in todo[q] : /\ pc[q] = "undo" /\ todo' = [todo EXCEPT ![q] = @ \ {y}]
                               /\ owner' = owner \/ Delete(y)
      BY <2>5, Zenon DEF RemoveNext
    <3>2. x = y
      BY <2>2, <3>1, Zenon DEF Delete, Types
    <3>3. p = q
      BY <3>1, <3>2, Zenon DEF Removing, Shared
    <3>4. x \in todo[p] /\ x \notin todo'[p]
      BY <3>1, <3>2, <3>3, Zenon DEF Types
    <3> QED BY <3>4, Zenon
  <2>6. CASE Begin(q) \/ Inspect(q) \/ EndRollback(q)
    BY <2>2, <2>6, Zenon DEF Begin, Inspect, EndRollback, local
  <2>7. CASE CreateRoot(q) \/ CreateDirectory(q) \/ WritePending(q)
    BY <2>1, <2>2, <2>7, Zenon DEF CreateRoot, CreateDirectory, Made, WritePending, local
  <2>8. CASE WriteCredential(q, "query", "admin") \/ WriteCredential(q, "admin", "config")
    BY <2>1, <2>2, <2>8, Zenon DEF WriteCredential
  <2>9. CASE WriteConfig(q) \/ Kill(q)
    BY <2>1, <2>2, <2>9, Zenon DEF WriteConfig, Kill, local
  <2> QED BY <2>3, <2>4, <2>5, <2>6, <2>7, <2>8, <2>9, Zenon DEF Step
<1> QED BY <1>1, Invariance, PTL DEF Spec, RemovesOnlyItsOwn

=============================================================================
