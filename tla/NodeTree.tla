------------------------------ MODULE NodeTree ------------------------------
(***************************************************************************)
(* Files and folders of the Spaces, and who may touch them: the node       *)
(* service (internal/nodes) over the PostgreSQL store (internal/postgres), *)
(* the membership check (internal/spaceaccess) and the role policy         *)
(* (internal/authz), with the handler that opens an upload session for a   *)
(* file node (internal/httpapi/uploads.go).                                *)
(*                                                                         *)
(* A request reads the membership, then runs one SQL statement: memberships*)
(* and nodes can change between the two, and nothing is read again.        *)
(***************************************************************************)
EXTENDS FiniteSets

CONSTANTS Accounts, Spaces,
          IDs,         \* bound: the node identifiers that can be drawn
          RawNames,    \* names as a client sends them
          Names,       \* names as they are stored
          trimmed,     \* what validName makes of a raw name: a name, or None
          Requests,    \* requests that may be in flight at the same time
          Memberships, \* the roles, or None, that an administrator assigns
          Faults,      \* the calls of the database that may fail, or lose their answer
          None

VARIABLES role,     \* space_memberships
          nodes,    \* the nodes table
          sessions, \* the upload sessions opened, by node, Space and account
          h,        \* the requests
          seen,     \* history: the nodes whose metadata an account was sent
          held      \* history: the roles an account has had in a Space

vars == <<role, nodes, sessions, h, seen, held>>
-----------------------------------------------------------------------------
Kinds == {"file", "folder"}

\* The capabilities that some operation of this module asks for.
roleCapabilities ==
  LET all == {"read", "list", "create_file", "create_folder", "update", "delete"}
  IN [r \in {"owner", "manager", "editor", "contributor", "commenter", "viewer",
             "drop_only"} |->
        CASE r \in {"owner", "manager", "editor"} -> all
          [] r = "contributor"                    -> all \ {"delete"}
          [] r \in {"commenter", "viewer"}        -> {"read", "list"}
          [] r = "drop_only"                      -> {"create_file"}]

Roles == DOMAIN roleCapabilities
Allows(rl, action) == rl \in Roles /\ action \in roleCapabilities[rl]
allowed(a, s, action) == Allows(role[a][s], action)

Node == [space : Spaces, parent : IDs \cup {None}, kind : Kinds, name : Names,
         by : Accounts, trashed : BOOLEAN]
Session == [node : IDs, space : Spaces, account : Accounts]
Ops == {"list", "get", "create", "rename", "trash"}
UploadPCs == {"uread", "uget", "ucreate"}
Results == {"ok", "forbidden", "invalid", "not_found", "error"}
Request == [pc : {"idle", "done"} \cup Ops \cup UploadPCs,
            account : Accounts \cup {None}, space : Spaces \cup {None},
            node : IDs \cup {None}, parent : IDs \cup {None},
            kind : Kinds \cup {None}, name : Names \cup {None},
            granted : Roles \cup {None}, result : Results \cup {None}]
Idle == [pc |-> "idle", account |-> None, space |-> None, node |-> None,
         parent |-> None, kind |-> None, name |-> None, granted |-> None,
         result |-> None]

ASSUME ValuesAssumption ==
  /\ None \notin Accounts \cup Spaces \cup IDs \cup Names \cup Kinds \cup Roles
  /\ None \notin Node
  /\ trimmed \in [RawNames -> Names \cup {None}]
  /\ Memberships \subseteq Roles \cup {None}
  /\ Faults \subseteq {"check", "statement", "answer"}

TypeOK == /\ role \in [Accounts -> [Spaces -> Roles \cup {None}]]
          /\ nodes \in [IDs -> Node \cup {None}]
          /\ sessions \subseteq Session
          /\ h \in [Requests -> Request]
          /\ seen \in [Accounts -> SUBSET IDs]
          /\ held \in [Accounts -> [Spaces -> SUBSET Roles]]

Init == /\ role = [a \in Accounts |-> [s \in Spaces |-> None]]
        /\ nodes = [n \in IDs |-> None]
        /\ sessions = {}
        /\ h = [r \in Requests |-> Idle]
        /\ seen = [a \in Accounts |-> {}]
        /\ held = [a \in Accounts |-> [s \in Spaces |-> {}]]
-----------------------------------------------------------------------------
InFlight(r)  == h[r].pc \notin {"idle", "done"}
At(r, pc)    == h[r].pc = pc
Become(r, l) == h' = [h EXCEPT ![r] = l]
Answer(r, result) == Become(r, [Idle EXCEPT !.pc = "done", !.result = result])

\* The response carries the metadata of these nodes.
Send(r, shown) == /\ Answer(r, "ok")
                  /\ seen' = [seen EXCEPT ![h[r].account] = @ \cup shown]

\* A statement that writes was committed: its answer is sent, or is lost.
Reply(r, shown) == Send(r, shown) \/ ("answer" \in Faults /\ Answer(r, "error") /\ UNCHANGED seen)

\* The membership is read once; a missing row and a failed query both deny.
Authorize(r, l, action) ==
  /\ \/ /\ allowed(l.account, l.space, action)
        /\ Become(r, [l EXCEPT !.granted = role[l.account][l.space]])
     \/ /\ ~allowed(l.account, l.space, action) \/ "check" \in Faults
        /\ Answer(r, "forbidden")
  /\ UNCHANGED <<role, nodes, sessions, seen, held>>

Call(a, s, pc) == [Idle EXCEPT !.pc = pc, !.account = a, !.space = s]

List(r, a, s, p) == ~InFlight(r) /\ Authorize(r, [Call(a, s, "list") EXCEPT !.parent = p], "list")
Get(r, a, s, n)  == ~InFlight(r) /\ Authorize(r, [Call(a, s, "get") EXCEPT !.node = n], "read")
Trash(r, a, s, n) == ~InFlight(r) /\ Authorize(r, [Call(a, s, "trash") EXCEPT !.node = n], "delete")

\* Mutant: a folder needs no more than a file.
CreateActionFile(kind) == IF kind \in Kinds THEN "create_file" ELSE "create_folder"
CreateAction(kind) == IF kind = "folder" THEN "create_folder" ELSE "create_file"

\* Mutant: the name is stored as it was sent.
NamedRaw(r, l, raw, action) ==
  ~InFlight(r) /\ trimmed[raw] # None /\ Authorize(r, [l EXCEPT !.name = raw], action)
\* The name is judged before the account is.
Named(r, l, raw, action) ==
  /\ ~InFlight(r)
  /\ IF trimmed[raw] = None
       THEN Answer(r, "invalid") /\ UNCHANGED <<role, nodes, sessions, seen, held>>
       ELSE Authorize(r, [l EXCEPT !.name = trimmed[raw]], action)

Create(r, a, s, p, kind, raw) ==
  Named(r, [Call(a, s, "create") EXCEPT !.parent = p, !.kind = kind], raw, CreateAction(kind))
Rename(r, a, s, n, raw) ==
  Named(r, [Call(a, s, "rename") EXCEPT !.node = n], raw, "update")
-----------------------------------------------------------------------------
(* The statements of the store. *)

\* Mutant: the statement does not name the Space.
SelectedAnySpace(n, s) == s \in Spaces /\ nodes[n] # None /\ ~nodes[n].trashed
\* WHERE id = n AND space_id = s AND trashed_at IS NULL
Selected(n, s) == nodes[n] # None /\ nodes[n].space = s /\ ~nodes[n].trashed

\* Mutant: the parent is only required to exist.
ForeignKeysExist(table, n) == table[n].parent # None => table[table[n].parent] # None
\* FOREIGN KEY (parent_id, space_id): any node of the Space, a file and a
\* trashed one included.
ForeignKeys(table, n) ==
  table[n].parent # None => /\ table[table[n].parent] # None
                            /\ table[table[n].parent].space = table[n].space

\* Mutant: NULL parents are all different, as in UNIQUE (space_id, parent_id, name).
UniqueChildren(table, n) ==
  \A m \in IDs \ {n} :
    ~ /\ table[m] # None /\ table[n].parent # None
      /\ \A f \in {"space", "parent", "name", "trashed"} : table[m][f] = table[n][f]
      /\ ~table[n].trashed
\* The two partial unique indexes, over roots and over children.
UniqueNames(table, n) ==
  \A m \in IDs \ {n} :
    ~ /\ table[m] # None
      /\ \A f \in {"space", "parent", "name", "trashed"} : table[m][f] = table[n][f]
      /\ ~table[n].trashed

\* One row is written, or a constraint refuses it.
Store(r, n, row) ==
  LET table == [nodes EXCEPT ![n] = row]
      legal == ForeignKeys(table, n) /\ UniqueNames(table, n)
  IN /\ \/ legal /\ nodes' = table /\ Reply(r, {n})
        \/ ~legal /\ Answer(r, "error") /\ UNCHANGED <<nodes, seen>>
     /\ UNCHANGED <<role, sessions, held>>

Missing(r) == Answer(r, "not_found") /\ UNCHANGED <<role, nodes, sessions, seen, held>>

\* A statement that the database does not carry out.
Fail(r) == /\ "statement" \in Faults /\ h[r].pc \in Ops \cup {"uget", "ucreate"}
           /\ Answer(r, "error") /\ UNCHANGED <<role, nodes, sessions, seen, held>>

StoreList(r) ==
  /\ At(r, "list")
  /\ Send(r, {n \in IDs : Selected(n, h[r].space) /\ nodes[n].parent = h[r].parent})
  /\ UNCHANGED <<role, nodes, sessions, held>>

StoreGet(r) ==
  /\ At(r, "get")
  /\ IF Selected(h[r].node, h[r].space)
       THEN Send(r, {h[r].node}) /\ UNCHANGED <<role, nodes, sessions, held>>
       ELSE Missing(r)

\* The identifier is random: unused, and not one that a request has named.
StoreCreate(r) ==
  /\ At(r, "create")
  /\ \E n \in IDs :
       /\ nodes[n] = None /\ n # h[r].parent
       /\ Store(r, n, [space |-> h[r].space, parent |-> h[r].parent, kind |-> h[r].kind,
                       name |-> h[r].name, by |-> h[r].account, trashed |-> FALSE])

\* Mutant: a trashed node is renamed too.
StoreRenameTrashed(r) ==
  /\ At(r, "rename")
  /\ IF nodes[h[r].node] # None /\ nodes[h[r].node].space = h[r].space
       THEN Store(r, h[r].node, [nodes[h[r].node] EXCEPT !.name = h[r].name])
       ELSE Missing(r)
StoreRename(r) ==
  /\ At(r, "rename")
  /\ IF Selected(h[r].node, h[r].space)
       THEN Store(r, h[r].node, [nodes[h[r].node] EXCEPT !.name = h[r].name])
       ELSE Missing(r)

StoreTrash(r) ==
  /\ At(r, "trash")
  /\ IF Selected(h[r].node, h[r].space)
       THEN Store(r, h[r].node, [nodes[h[r].node] EXCEPT !.trashed = TRUE])
       ELSE Missing(r)
-----------------------------------------------------------------------------
(* createUploadHandler: two checks, a read of the node, then the session. *)

Upload(r, a, s, n) ==
  ~InFlight(r) /\ Authorize(r, [Call(a, s, "uread") EXCEPT !.node = n], "create_file")

UploadRead(r) == At(r, "uread") /\ Authorize(r, [h[r] EXCEPT !.pc = "uget"], "read")

\* Mutant: any node can be uploaded to.
UploadGetAnyKind(r) ==
  /\ At(r, "uget")
  /\ IF ~Selected(h[r].node, h[r].space) THEN Answer(r, "not_found")
     ELSE Become(r, [h[r] EXCEPT !.pc = "ucreate"])
  /\ UNCHANGED <<role, nodes, sessions, seen, held>>
UploadGet(r) ==
  /\ At(r, "uget")
  /\ IF ~Selected(h[r].node, h[r].space) THEN Answer(r, "not_found")
     ELSE IF nodes[h[r].node].kind # "file" THEN Answer(r, "invalid")
     ELSE Become(r, [h[r] EXCEPT !.pc = "ucreate"])
  /\ UNCHANGED <<role, nodes, sessions, seen, held>>

\* The session carries the node's name and parent, as they were read.
UploadCreate(r) ==
  /\ At(r, "ucreate")
  /\ sessions' = sessions \cup {[node |-> h[r].node, space |-> h[r].space,
                                 account |-> h[r].account]}
  /\ Reply(r, {h[r].node})
  /\ UNCHANGED <<role, nodes, held>>

\* Memberships are written outside Drive's API, at any time.
SetMembership(a, s, rl) ==
  /\ role[a][s] # rl
  /\ role' = [role EXCEPT ![a][s] = rl]
  /\ held' = [held EXCEPT ![a][s] = @ \cup ({rl} \ {None})]
  /\ UNCHANGED <<nodes, sessions, h, seen>>
-----------------------------------------------------------------------------
Next ==
  \/ \E r \in Requests, a \in Accounts, s \in Spaces :
       \/ \E p \in IDs \cup {None} :
            \/ List(r, a, s, p)
            \/ \E kind \in Kinds, raw \in RawNames : Create(r, a, s, p, kind, raw)
       \/ \E n \in IDs :
            \/ Get(r, a, s, n) \/ Trash(r, a, s, n) \/ Upload(r, a, s, n)
            \/ \E raw \in RawNames : Rename(r, a, s, n, raw)
  \/ \E r \in Requests :
       \/ StoreList(r) \/ StoreGet(r) \/ StoreCreate(r) \/ StoreRename(r) \/ StoreTrash(r)
       \/ UploadRead(r) \/ UploadGet(r) \/ UploadCreate(r) \/ Fail(r)
  \/ \E a \in Accounts, s \in Spaces, rl \in Memberships : SetMembership(a, s, rl)

Spec == Init /\ [][Next]_vars
-----------------------------------------------------------------------------
(* Properties. *)

\* What an account is sent of a Space (listings, answers to its calls, upload
\* sessions) it either created itself, or it has at some time had a role there
\* that reads: no path through a second Space, a write's answer or an upload
\* shows a drop-only member or a stranger the contents of a Space.
SeenByReaders ==
  \A a \in Accounts : \A n \in seen[a] :
    nodes[n].by = a \/ \E rl \in held[a][nodes[n].space] : Allows(rl, "read")

\* A row changes only by the request that it answers, whose account held, when it was checked, a
\* role in that row's Space with the capability the change needs, whatever
\* became of the membership since, and whether or not the answer arrives.
ChangesAreGranted ==
  [][\A n \in IDs : nodes'[n] # nodes[n] =>
       \E r \in Requests :
         /\ InFlight(r) /\ h'[r].pc = "done"
         /\ h[r].space = nodes'[n].space
         /\ Allows(h[r].granted,
                   IF nodes[n] = None
                     THEN IF nodes'[n].kind = "folder" THEN "create_folder" ELSE "create_file"
                     ELSE IF nodes'[n].trashed # nodes[n].trashed THEN "delete" ELSE "update")]_vars

\* No two active nodes of one folder, or of one Space's root, have the same
\* stored name, also when creations and renames overlap.
ActiveNamesUnique ==
  \A m, n \in {i \in IDs : nodes[i] # None /\ ~nodes[i].trashed} :
    /\ nodes[m].space = nodes[n].space /\ nodes[m].parent = nodes[n].parent
    /\ nodes[m].name = nodes[n].name
    => m = n

\* Walking up from a node stays in its Space.
ParentsInSpace ==
  \A n \in IDs : nodes[n] # None /\ nodes[n].parent # None =>
    /\ nodes[nodes[n].parent] # None
    /\ nodes[nodes[n].parent].space = nodes[n].space

\* A trashed node is frozen, and no node is moved, changed in kind or taken over:
\* a rename that was authorized before the node was trashed changes nothing.
TrashedIsFrozen ==
  [][\A n \in IDs : nodes[n] # None =>
       /\ nodes'[n] # None
       /\ \A f \in {"space", "parent", "kind", "by"} : nodes'[n][f] = nodes[n][f]
       /\ nodes[n].trashed => nodes'[n] = nodes[n]]_vars

\* An upload session belongs to a file of its Space (never a folder, never a
\* node of another Space), and its account was allowed to create files there.
SessionsTargetFiles ==
  \A u \in sessions :
    /\ nodes[u.node] # None /\ nodes[u.node].kind = "file"
    /\ nodes[u.node].space = u.space
    /\ \E rl \in held[u.account][u.space] : Allows(rl, "create_file")
-----------------------------------------------------------------------------
(* What the requests rely on, for the proofs. *)

\* The capabilities that the checks behind a request have established.
Needs(l) == CASE l.pc = "list"               -> "list"
              [] l.pc = "create"             -> CreateAction(l.kind)
              [] l.pc = "rename"             -> "update"
              [] l.pc = "trash"              -> "delete"
              [] l.pc = "uread"              -> "create_file"
              [] OTHER                       -> "read"

\* A request past its check: its role was granted for what it is about to do,
\* and was really held; an upload has passed both of its checks, and what it
\* read of its node still holds.
RequestOK(l) ==
  l.pc \notin {"idle", "done"} =>
    /\ l.account \in Accounts /\ l.space \in Spaces
    /\ l.granted \in held[l.account][l.space] /\ Allows(l.granted, Needs(l))
    /\ l.pc = "create" => l.kind \in Kinds
    /\ l.pc \in {"create", "rename"} => l.name \in Names
    /\ l.pc \notin {"list", "create"} => l.node \in IDs
    /\ l.pc \in {"uget", "ucreate"} =>
         \E rl \in held[l.account][l.space] : Allows(rl, "create_file")
    /\ l.pc = "ucreate" => /\ nodes[l.node] # None /\ nodes[l.node].kind = "file"
                           /\ nodes[l.node].space = l.space

RequestsOK == \A r \in Requests : RequestOK(h[r])
RolesAreHeld == \A a \in Accounts, s \in Spaces :
                  role[a][s] # None => role[a][s] \in held[a][s]
SeenExist == \A a \in Accounts : \A n \in seen[a] : nodes[n] # None

\* The inductive invariant behind the safety invariants above.
IInv == /\ TypeOK /\ RequestsOK /\ RolesAreHeld /\ SeenExist
        /\ ActiveNamesUnique /\ ParentsInSpace /\ SeenByReaders /\ SessionsTargetFiles
=============================================================================
