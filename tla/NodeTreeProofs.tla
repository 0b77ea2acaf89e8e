--------------------------- MODULE NodeTreeProofs ---------------------------
(***************************************************************************)
(* Proofs about NodeTree, for every set of accounts, Spaces, identifiers,  *)
(* names and requests in flight, every history of memberships and every    *)
(* pattern of database failures.                                           *)
(***************************************************************************)
EXTENDS NodeTree, TLAPS

-----------------------------------------------------------------------------
(* The role policy, the types of requests and rows. *)

\* Every role that lists, renames, trashes or creates folders also reads: in
\* roleCapabilities drop_only alone writes without reading, and only files.
LEMMA WritersRead ==
  ASSUME NEW rl, NEW action \in {"read", "list", "update", "delete", "create_folder"},
         Allows(rl, action)
  PROVE  Allows(rl, "read")
BY DEF Allows, Roles, roleCapabilities

\* A missing row, a missing membership and a missing parent are not values.
LEMMA NoneIsNothing ==
  /\ \A row \in Node : row # None
  /\ \A rl \in Roles : rl # None
  /\ \A n \in IDs : n # None
BY ValuesAssumption

\* The record a request is answered with.
LEMMA AnswerType ==
  ASSUME NEW result \in Results
  PROVE  /\ [Idle EXCEPT !.pc = "done", !.result = result] \in Request
         /\ [Idle EXCEPT !.pc = "done", !.result = result].pc = "done"
BY DEF Idle, Request

LEMMA IdleType == Idle \in Request /\ Idle.pc = "idle"
BY DEF Idle, Request

\* The fields of a request that has been given an account and a Space.
LEMMA CallFields ==
  ASSUME NEW a \in Accounts, NEW s \in Spaces, NEW pc \in Ops \cup UploadPCs
  PROVE  /\ Call(a, s, pc) \in Request
         /\ Call(a, s, pc).pc = pc
         /\ Call(a, s, pc).account = a
         /\ Call(a, s, pc).space = s
BY DEF Call, Idle, Request, Ops, UploadPCs

-----------------------------------------------------------------------------
(* What a step can be. *)

\* A request starts, moves on or is answered, and nothing else changes.
Talk(r, m) == Become(r, m) /\ UNCHANGED <<role, nodes, sessions, seen, held>>

\* A request is answered with nodes of its Space, by a role that reads.
Shows(r, shown) ==
  /\ InFlight(r) /\ Allows(h[r].granted, "read")
  /\ \A n \in shown : nodes[n] # None /\ nodes[n].space = h[r].space
  /\ Send(r, shown) /\ UNCHANGED <<role, nodes, sessions, held>>

\* A new row, or an active row that keeps its place, renamed or trashed.
Change(r, n, row) ==
  \/ /\ nodes[n] = None /\ row.by = h[r].account /\ row.parent # n
     /\ Allows(h[r].granted, CreateAction(row.kind))
  \/ /\ nodes[n] # None /\ ~nodes[n].trashed
     /\ row.space = nodes[n].space /\ row.parent = nodes[n].parent
     /\ row.kind = nodes[n].kind /\ row.by = nodes[n].by
     /\ \/ Allows(h[r].granted, "update") /\ ~row.trashed
        \/ Allows(h[r].granted, "delete") /\ row.trashed

\* A request writes one row, within the constraints of the table.
Writes(r, n, row) ==
  /\ InFlight(r) /\ row.space = h[r].space /\ Change(r, n, row)
  /\ nodes' = [nodes EXCEPT ![n] = row]
  /\ ForeignKeys(nodes', n) /\ UniqueNames(nodes', n)
  /\ Reply(r, {n}) /\ UNCHANGED <<role, sessions, held>>

\* A check of the membership either answers the request or grants it the role
\* that the account holds at that moment.
LEMMA AuthorizeStep ==
  ASSUME TypeOK, RolesAreHeld, NEW r \in Requests, NEW l \in Request, NEW action,
         l.account \in Accounts, l.space \in Spaces, Authorize(r, l, action)
  PROVE  \E m \in Request :
           /\ Talk(r, m)
           /\ \/ m.pc = "done"
              \/ /\ m = [l EXCEPT !.granted = role[l.account][l.space]]
                 /\ Allows(role[l.account][l.space], action)
                 /\ role[l.account][l.space] \in held[l.account][l.space]
<1> DEFINE rl == role[l.account][l.space]
<1>1. CASE Allows(rl, action) /\ Become(r, [l EXCEPT !.granted = rl])
  <2>1. rl \in Roles /\ rl # None
    BY <1>1, NoneIsNothing DEF Allows
  <2>2. rl \in held[l.account][l.space]
    BY <2>1 DEF RolesAreHeld
  <2>3. [l EXCEPT !.granted = rl] \in Request
    BY <2>1 DEF Request
  <2> QED
    BY <1>1, <2>2, <2>3 DEF Authorize, Talk
<1>2. CASE Answer(r, "forbidden")
  BY <1>2, AnswerType DEF Authorize, Talk, Answer, Results
<1> QED
  BY <1>1, <1>2 DEF Authorize, allowed

\* A request without a role yet becomes one that is in order, or is answered.
LEMMA CheckedCall ==
  ASSUME TypeOK, RolesAreHeld, NEW r \in Requests, NEW l \in Request, NEW action,
         l.pc \in Ops \cup {"uread"}, Needs(l) = action,
         l.account \in Accounts, l.space \in Spaces,
         l.pc = "create" => l.kind \in Kinds,
         l.pc \in {"create", "rename"} => l.name \in Names,
         l.pc \notin {"list", "create"} => l.node \in IDs,
         Authorize(r, l, action)
  PROVE  \E m \in Request : Talk(r, m) /\ RequestOK(m)
<1> DEFINE rl == role[l.account][l.space]
<1>1. PICK m \in Request :
         /\ Talk(r, m)
         /\ \/ m.pc = "done"
            \/ /\ m = [l EXCEPT !.granted = rl]
               /\ Allows(rl, action) /\ rl \in held[l.account][l.space]
  BY AuthorizeStep
<1>2. CASE m.pc = "done"
  BY <1>1, <1>2 DEF RequestOK
<1>3. CASE m = [l EXCEPT !.granted = rl] /\ Allows(rl, action) /\ rl \in held[l.account][l.space]
  <2>1. /\ m.pc = l.pc /\ m.account = l.account /\ m.space = l.space /\ m.node = l.node
        /\ m.kind = l.kind /\ m.name = l.name /\ m.granted = rl
    BY <1>3 DEF Request
  <2>2. Needs(m) = action
    BY <2>1 DEF Needs
  <2>3. RequestOK(m)
    BY <1>3, <2>1, <2>2 DEF RequestOK, Ops
  <2> QED
    BY <1>1, <2>3
<1> QED
  BY <1>1, <1>2, <1>3

\* A request answered without a change to anything.
LEMMA Answered ==
  ASSUME NEW r, NEW result \in Results, Answer(r, result),
         UNCHANGED <<role, nodes, sessions, seen, held>>
  PROVE  \E m \in Request : Talk(r, m) /\ RequestOK(m)
<1> DEFINE m == [Idle EXCEPT !.pc = "done", !.result = result]
<1>1. m \in Request /\ m.pc = "done"
  BY AnswerType
<1> QED
  BY <1>1 DEF Answer, Talk, RequestOK

\* Create and Rename judge the name first.
LEMMA NamedCall ==
  ASSUME TypeOK, RolesAreHeld, NEW r \in Requests, NEW l \in Request, NEW action,
         NEW raw \in RawNames,
         l.pc \in {"create", "rename"}, Needs(l) = action,
         l.account \in Accounts, l.space \in Spaces,
         l.pc = "create" => l.kind \in Kinds,
         l.pc = "rename" => l.node \in IDs,
         Named(r, l, raw, action)
  PROVE  \E m \in Request : Talk(r, m) /\ RequestOK(m)
<1>1. CASE trimmed[raw] = None
  BY <1>1, Answered DEF Named, Results
<1>2. CASE trimmed[raw] # None
  <2> DEFINE m == [l EXCEPT !.name = trimmed[raw]]
  <2>1. trimmed[raw] \in Names
    BY <1>2, ValuesAssumption
  <2>2. /\ m \in Request /\ m.pc = l.pc /\ m.account = l.account /\ m.space = l.space
        /\ m.node = l.node /\ m.kind = l.kind /\ m.name = trimmed[raw]
    BY <2>1 DEF Request
  <2>3. Needs(m) = action
    BY <2>2 DEF Needs
  <2>4. Authorize(r, m, action)
    BY <1>2 DEF Named
  <2> HIDE DEF m
  <2> QED
    BY <2>1, <2>2, <2>3, <2>4, CheckedCall DEF Ops
<1> QED
  BY <1>1, <1>2

\* The first step of a request of any kind.
LEMMA FirstSteps ==
  ASSUME TypeOK, RolesAreHeld, NEW r \in Requests, NEW a \in Accounts, NEW s \in Spaces,
         \/ \E p \in IDs \cup {None} :
              \/ List(r, a, s, p)
              \/ \E kind \in Kinds, raw \in RawNames : Create(r, a, s, p, kind, raw)
         \/ \E n \in IDs :
              \/ Get(r, a, s, n) \/ Trash(r, a, s, n) \/ Upload(r, a, s, n)
              \/ \E raw \in RawNames : Rename(r, a, s, n, raw)
  PROVE  \E m \in Request : Talk(r, m) /\ RequestOK(m)
<1>1. ASSUME NEW p \in IDs \cup {None}, List(r, a, s, p)
      PROVE  \E m \in Request : Talk(r, m) /\ RequestOK(m)
  <2> DEFINE l == [Call(a, s, "list") EXCEPT !.parent = p]
  <2>1. l \in Request /\ l.pc = "list" /\ l.account = a /\ l.space = s
    BY DEF Call, Idle, Request, Ops
  <2>2. Needs(l) = "list" /\ Authorize(r, l, "list")
    BY <1>1, <2>1 DEF Needs, List
  <2> HIDE DEF l
  <2> QED
    BY <2>1, <2>2, CheckedCall DEF Ops
<1>2. ASSUME NEW p \in IDs \cup {None}, NEW kind \in Kinds, NEW raw \in RawNames,
             Create(r, a, s, p, kind, raw)
      PROVE  \E m \in Request : Talk(r, m) /\ RequestOK(m)
  <2> DEFINE l == [Call(a, s, "create") EXCEPT !.parent = p, !.kind = kind]
  <2>1. l \in Request /\ l.pc = "create" /\ l.account = a /\ l.space = s /\ l.kind = kind
    BY DEF Call, Idle, Request, Ops
  <2>2. Needs(l) = CreateAction(kind) /\ Named(r, l, raw, CreateAction(kind))
    BY <1>2, <2>1 DEF Needs, Create
  <2> HIDE DEF l
  <2> QED
    BY <2>1, <2>2, NamedCall
<1>3. ASSUME NEW n \in IDs, Get(r, a, s, n)
      PROVE  \E m \in Request : Talk(r, m) /\ RequestOK(m)
  <2> DEFINE l == [Call(a, s, "get") EXCEPT !.node = n]
  <2>1. l \in Request /\ l.pc = "get" /\ l.account = a /\ l.space = s /\ l.node = n
    BY DEF Call, Idle, Request, Ops
  <2>2. Needs(l) = "read" /\ Authorize(r, l, "read")
    BY <1>3, <2>1 DEF Needs, Get
  <2> HIDE DEF l
  <2> QED
    BY <2>1, <2>2, CheckedCall DEF Ops
<1>4. ASSUME NEW n \in IDs, Trash(r, a, s, n)
      PROVE  \E m \in Request : Talk(r, m) /\ RequestOK(m)
  <2> DEFINE l == [Call(a, s, "trash") EXCEPT !.node = n]
  <2>1. l \in Request /\ l.pc = "trash" /\ l.account = a /\ l.space = s /\ l.node = n
    BY DEF Call, Idle, Request, Ops
  <2>2. Needs(l) = "delete" /\ Authorize(r, l, "delete")
    BY <1>4, <2>1 DEF Needs, Trash
  <2> HIDE DEF l
  <2> QED
    BY <2>1, <2>2, CheckedCall DEF Ops
<1>5. ASSUME NEW n \in IDs, Upload(r, a, s, n)
      PROVE  \E m \in Request : Talk(r, m) /\ RequestOK(m)
  <2> DEFINE l == [Call(a, s, "uread") EXCEPT !.node = n]
  <2>1. l \in Request /\ l.pc = "uread" /\ l.account = a /\ l.space = s /\ l.node = n
    BY DEF Call, Idle, Request, UploadPCs
  <2>2. Needs(l) = "create_file" /\ Authorize(r, l, "create_file")
    BY <1>5, <2>1 DEF Needs, Upload
  <2> HIDE DEF l
  <2> QED
    BY <2>1, <2>2, CheckedCall DEF Ops
<1>6. ASSUME NEW n \in IDs, NEW raw \in RawNames, Rename(r, a, s, n, raw)
      PROVE  \E m \in Request : Talk(r, m) /\ RequestOK(m)
  <2> DEFINE l == [Call(a, s, "rename") EXCEPT !.node = n]
  <2>1. l \in Request /\ l.pc = "rename" /\ l.account = a /\ l.space = s /\ l.node = n
    BY DEF Call, Idle, Request, Ops
  <2>2. Needs(l) = "update" /\ Named(r, l, raw, "update")
    BY <1>6, <2>1 DEF Needs, Rename
  <2> HIDE DEF l
  <2> QED
    BY <2>1, <2>2, NamedCall
<1> QED
  BY <1>1, <1>2, <1>3, <1>4, <1>5, <1>6

\* The second check of an upload: the account could create files when the first
\* one was made, and can read now.
LEMMA UploadReadStep ==
  ASSUME TypeOK, RolesAreHeld, RequestsOK, NEW r \in Requests, UploadRead(r)
  PROVE  \E m \in Request : Talk(r, m) /\ RequestOK(m)
<1> DEFINE l == [h[r] EXCEPT !.pc = "uget"]
           rl == role[l.account][l.space]
<1>1. h[r] \in Request /\ h[r].pc = "uread" /\ RequestOK(h[r])
  BY DEF TypeOK, UploadRead, At, RequestsOK
<1>2. /\ l \in Request /\ l.pc = "uget" /\ l.account = h[r].account
      /\ l.space = h[r].space /\ l.node = h[r].node
  BY <1>1 DEF Request, UploadPCs
<1>3. /\ l.account \in Accounts /\ l.space \in Spaces /\ l.node \in IDs
      /\ \E held1 \in held[l.account][l.space] : Allows(held1, "create_file")
  BY <1>1, <1>2 DEF RequestOK, Needs
<1>4. Authorize(r, l, "read")
  BY DEF UploadRead
<1> HIDE DEF l
<1>5. PICK m \in Request :
         /\ Talk(r, m)
         /\ \/ m.pc = "done"
            \/ /\ m = [l EXCEPT !.granted = rl]
               /\ Allows(rl, "read") /\ rl \in held[l.account][l.space]
  BY <1>2, <1>3, <1>4, AuthorizeStep
<1>6. CASE m.pc = "done"
  BY <1>5, <1>6 DEF RequestOK
<1>7. CASE m.pc # "done"
  <2>1. /\ m.pc = "uget" /\ m.account = l.account /\ m.space = l.space
        /\ m.node = l.node /\ m.granted = rl
    BY <1>2, <1>5, <1>7 DEF Request
  <2>2. Needs(m) = "read"
    BY <2>1 DEF Needs
  <2>3. RequestOK(m)
    BY <1>3, <1>5, <1>7, <2>1, <2>2 DEF RequestOK
  <2> QED
    BY <1>5, <2>3
<1> QED
  BY <1>6, <1>7

\* The read of the node to upload to.
LEMMA UploadGetStep ==
  ASSUME TypeOK, RequestsOK, NEW r \in Requests, UploadGet(r)
  PROVE  \E m \in Request : Talk(r, m) /\ RequestOK(m)
<1>1. h[r] \in Request /\ h[r].pc = "uget" /\ RequestOK(h[r])
  BY DEF TypeOK, UploadGet, At, RequestsOK
<1>2. CASE Answer(r, "not_found") \/ Answer(r, "invalid")
  BY <1>2, Answered DEF UploadGet, Results
<1>3. CASE /\ Selected(h[r].node, h[r].space) /\ nodes[h[r].node].kind = "file"
           /\ Become(r, [h[r] EXCEPT !.pc = "ucreate"])
  <2> DEFINE m == [h[r] EXCEPT !.pc = "ucreate"]
  <2>1. /\ m \in Request /\ m.pc = "ucreate" /\ m.account = h[r].account
        /\ m.space = h[r].space /\ m.node = h[r].node /\ m.granted = h[r].granted
    BY <1>1 DEF Request, UploadPCs
  <2>2. Needs(m) = "read" /\ Needs(h[r]) = "read"
    BY <1>1, <2>1 DEF Needs
  <2>3. Talk(r, m)
    BY <1>3 DEF UploadGet, Talk
  <2> HIDE DEF m
  <2>4. RequestOK(m)
    BY <1>1, <1>3, <2>1, <2>2 DEF RequestOK, Selected
  <2> QED
    BY <2>1, <2>3, <2>4
<1> QED
  BY <1>2, <1>3 DEF UploadGet

\* A statement that writes one row: refused by a constraint, or carried out.
LEMMA StoreStep ==
  ASSUME TypeOK, NEW r \in Requests, NEW n \in IDs, NEW row \in Node,
         InFlight(r), row.space = h[r].space, Change(r, n, row), Store(r, n, row)
  PROVE  \/ \E m \in Request : Talk(r, m) /\ RequestOK(m)
         \/ Writes(r, n, row)
<1>1. CASE Answer(r, "error") /\ UNCHANGED <<nodes, seen>>
  BY <1>1, Answered DEF Store, Results
<1>2. CASE /\ ForeignKeys([nodes EXCEPT ![n] = row], n)
           /\ UniqueNames([nodes EXCEPT ![n] = row], n)
           /\ nodes' = [nodes EXCEPT ![n] = row] /\ Reply(r, {n})
  BY <1>2 DEF Store, Writes
<1> QED
  BY <1>1, <1>2 DEF Store

\* What every step is.
LEMMA StepCases ==
  ASSUME TypeOK, RolesAreHeld, RequestsOK, Next
  PROVE  \/ \E r \in Requests, m \in Request : Talk(r, m) /\ RequestOK(m)
         \/ \E r \in Requests, shown \in SUBSET IDs : Shows(r, shown)
         \/ \E r \in Requests, n \in IDs, row \in Node : Writes(r, n, row)
         \/ \E r \in Requests : UploadCreate(r)
         \/ \E a \in Accounts, s \in Spaces, rl \in Memberships : SetMembership(a, s, rl)
<1> DEFINE Goal == \/ \E r \in Requests, m \in Request : Talk(r, m) /\ RequestOK(m)
                   \/ \E r \in Requests, shown \in SUBSET IDs : Shows(r, shown)
                   \/ \E r \in Requests, n \in IDs, row \in Node : Writes(r, n, row)
                   \/ \E r \in Requests : UploadCreate(r)
                   \/ \E a \in Accounts, s \in Spaces, rl \in Memberships :
                        SetMembership(a, s, rl)
<1>t. ASSUME NEW r \in Requests, \E m \in Request : Talk(r, m) /\ RequestOK(m) PROVE Goal
  BY <1>t
<1>w. ASSUME NEW r \in Requests, NEW n \in IDs, NEW row \in Node, Writes(r, n, row) PROVE Goal
  BY <1>w
<1>s. ASSUME NEW r \in Requests, NEW shown \in SUBSET IDs, Shows(r, shown) PROVE Goal
  BY <1>s
<1>o. ASSUME NEW r \in Requests, InFlight(r)
      PROVE  /\ h[r] \in Request /\ RequestOK(h[r])
             /\ h[r].account \in Accounts /\ h[r].space \in Spaces
             /\ Allows(h[r].granted, Needs(h[r]))
             /\ h[r].pc \notin {"list", "create"} => h[r].node \in IDs
             /\ h[r].pc \in {"create", "rename"} => h[r].name \in Names
  BY <1>o DEF TypeOK, RequestsOK, RequestOK, InFlight
<1>m. ASSUME NEW r \in Requests, Missing(r) PROVE Goal
  BY <1>m, <1>t, Answered DEF Missing, Results
<1>1. ASSUME NEW r \in Requests, NEW a \in Accounts, NEW s \in Spaces,
             \/ \E p \in IDs \cup {None} :
                  \/ List(r, a, s, p)
                  \/ \E kind \in Kinds, raw \in RawNames : Create(r, a, s, p, kind, raw)
             \/ \E n \in IDs :
                  \/ Get(r, a, s, n) \/ Trash(r, a, s, n) \/ Upload(r, a, s, n)
                  \/ \E raw \in RawNames : Rename(r, a, s, n, raw)
      PROVE  Goal
  BY <1>1, <1>t, FirstSteps
<1>2. ASSUME NEW r \in Requests, StoreList(r) PROVE Goal
  <2> DEFINE shown == {n \in IDs : Selected(n, h[r].space) /\ nodes[n].parent = h[r].parent}
  <2>1. h[r].pc = "list" /\ InFlight(r)
    BY <1>2 DEF StoreList, At, InFlight
  <2>2. Allows(h[r].granted, "read")
    BY <1>o, <2>1, WritersRead DEF Needs
  <2>3. \A n \in shown : nodes[n] # None /\ nodes[n].space = h[r].space
    BY DEF Selected
  <2>4. Shows(r, shown)
    BY <1>2, <2>1, <2>2, <2>3 DEF StoreList, Shows
  <2> QED
    BY <1>s, <2>4
<1>3. ASSUME NEW r \in Requests, StoreGet(r) PROVE Goal
  <2>1. h[r].pc = "get" /\ InFlight(r)
    BY <1>3 DEF StoreGet, At, InFlight
  <2>2. Allows(h[r].granted, "read") /\ h[r].node \in IDs
    BY <1>o, <2>1 DEF Needs
  <2>3. CASE ~Selected(h[r].node, h[r].space)
    BY <1>3, <1>m, <2>3 DEF StoreGet
  <2>4. CASE Selected(h[r].node, h[r].space)
    <3>1. Shows(r, {h[r].node})
      BY <1>3, <2>1, <2>2, <2>4 DEF StoreGet, Shows, Selected
    <3> QED
      BY <1>s, <2>2, <3>1
  <2> QED
    BY <2>3, <2>4
<1>4. ASSUME NEW r \in Requests, StoreCreate(r) PROVE Goal
  <2> DEFINE row == [space |-> h[r].space, parent |-> h[r].parent, kind |-> h[r].kind,
                     name |-> h[r].name, by |-> h[r].account, trashed |-> FALSE]
  <2>1. h[r].pc = "create" /\ InFlight(r)
    BY <1>4 DEF StoreCreate, At, InFlight
  <2>2. h[r].kind \in Kinds /\ h[r].parent \in IDs \cup {None}
    BY <1>o, <2>1 DEF RequestOK, Request
  <2>3. row \in Node
    BY <1>o, <2>1, <2>2 DEF Node
  <2>4. PICK n \in IDs : nodes[n] = None /\ n # h[r].parent /\ Store(r, n, row)
    BY <1>4 DEF StoreCreate
  <2>5. Allows(h[r].granted, CreateAction(row.kind))
    BY <1>o, <2>1 DEF Needs
  <2>6. Change(r, n, row) /\ row.space = h[r].space
    BY <2>4, <2>5 DEF Change
  <2> HIDE DEF row
  <2> QED
    BY <1>t, <1>w, <2>1, <2>3, <2>4, <2>6, StoreStep
<1>5. ASSUME NEW r \in Requests, StoreRename(r) PROVE Goal
  <2> DEFINE n == h[r].node
             row == [nodes[n] EXCEPT !.name = h[r].name]
  <2>1. h[r].pc = "rename" /\ InFlight(r)
    BY <1>5 DEF StoreRename, At, InFlight
  <2>2. n \in IDs /\ h[r].name \in Names /\ Allows(h[r].granted, "update")
    BY <1>o, <2>1 DEF Needs
  <2>3. CASE ~Selected(n, h[r].space)
    BY <1>5, <1>m, <2>3 DEF StoreRename
  <2>4. CASE Selected(n, h[r].space)
    <3>1. /\ nodes[n] \in Node /\ nodes[n] # None /\ nodes[n].space = h[r].space
          /\ ~nodes[n].trashed
      BY <2>2, <2>4 DEF Selected, TypeOK
    <3>2. /\ row \in Node /\ row.space = nodes[n].space /\ row.parent = nodes[n].parent
          /\ row.kind = nodes[n].kind /\ row.by = nodes[n].by
          /\ row.trashed = nodes[n].trashed
      BY <2>2, <3>1 DEF Node
    <3>3. Store(r, n, row)
      BY <1>5, <2>4 DEF StoreRename
    <3> HIDE DEF row, n
    <3>4. Change(r, n, row) /\ row.space = h[r].space
      BY <2>2, <3>1, <3>2 DEF Change
    <3> QED
      BY <1>t, <1>w, <2>1, <2>2, <3>2, <3>3, <3>4, StoreStep
  <2> QED
    BY <2>3, <2>4
<1>6. ASSUME NEW r \in Requests, StoreTrash(r) PROVE Goal
  <2> DEFINE n == h[r].node
             row == [nodes[n] EXCEPT !.trashed = TRUE]
  <2>1. h[r].pc = "trash" /\ InFlight(r)
    BY <1>6 DEF StoreTrash, At, InFlight
  <2>2. n \in IDs /\ Allows(h[r].granted, "delete")
    BY <1>o, <2>1 DEF Needs
  <2>3. CASE ~Selected(n, h[r].space)
    BY <1>6, <1>m, <2>3 DEF StoreTrash
  <2>4. CASE Selected(n, h[r].space)
    <3>1. /\ nodes[n] \in Node /\ nodes[n] # None /\ nodes[n].space = h[r].space
          /\ ~nodes[n].trashed
      BY <2>2, <2>4 DEF Selected, TypeOK
    <3>2. /\ row \in Node /\ row.space = nodes[n].space /\ row.parent = nodes[n].parent
          /\ row.kind = nodes[n].kind /\ row.by = nodes[n].by /\ row.trashed
      BY <3>1 DEF Node
    <3>3. Store(r, n, row)
      BY <1>6, <2>4 DEF StoreTrash
    <3> HIDE DEF row, n
    <3>4. Change(r, n, row) /\ row.space = h[r].space
      BY <2>2, <3>1, <3>2 DEF Change
    <3> QED
      BY <1>t, <1>w, <2>1, <2>2, <3>2, <3>3, <3>4, StoreStep
  <2> QED
    BY <2>3, <2>4
<1>7. ASSUME NEW r \in Requests, UploadRead(r) PROVE Goal
  BY <1>7, <1>t, UploadReadStep
<1>8. ASSUME NEW r \in Requests, UploadGet(r) PROVE Goal
  BY <1>8, <1>t, UploadGetStep
<1>9. ASSUME NEW r \in Requests, Fail(r) PROVE Goal
  BY <1>9, <1>t, Answered DEF Fail, Results
<1> HIDE DEF Goal
<1>10. \/ \E r \in Requests : UploadCreate(r)
       \/ \E a \in Accounts, s \in Spaces, rl \in Memberships : SetMembership(a, s, rl)
       => Goal
  BY DEF Goal
<1>11. Goal
  BY <1>1, <1>2, <1>3, <1>4, <1>5, <1>6, <1>7, <1>8, <1>9, <1>10 DEF Next
<1> QED
  BY <1>11 DEF Goal

-----------------------------------------------------------------------------
(* What lasts: rows, and the record of who has held which role. *)

\* Rows stay where they are, and what was ever held stays on record.
Lasting ==
  /\ \A n \in IDs : nodes[n] # None =>
       /\ nodes'[n] # None
       /\ nodes'[n].space = nodes[n].space /\ nodes'[n].parent = nodes[n].parent
       /\ nodes'[n].kind = nodes[n].kind /\ nodes'[n].by = nodes[n].by
       /\ nodes[n].trashed => nodes'[n] = nodes[n]
  /\ \A a \in Accounts, s \in Spaces : held[a][s] \subseteq held'[a][s]

\* No step takes a row away, moves it or touches it once trashed.
LEMMA StepLasts ==
  ASSUME TypeOK, RolesAreHeld, RequestsOK, [Next]_vars
  PROVE  Lasting
<1>1. CASE UNCHANGED <<nodes, held>>
  BY <1>1 DEF Lasting
<1>2. ASSUME NEW r \in Requests, NEW n \in IDs, NEW row \in Node, Writes(r, n, row)
      PROVE  Lasting
  <2>1. row # None
    BY NoneIsNothing
  <2>2. /\ nodes'[n] = row /\ \A m \in IDs \ {n} : nodes'[m] = nodes[m]
        /\ held' = held
    BY <1>2 DEF Writes, TypeOK
  <2>3. nodes[n] # None => /\ ~nodes[n].trashed
                           /\ row.space = nodes[n].space /\ row.parent = nodes[n].parent
                           /\ row.kind = nodes[n].kind /\ row.by = nodes[n].by
    BY <1>2 DEF Writes, Change
  <2>4. ASSUME NEW m \in IDs, nodes[m] # None
        PROVE  /\ nodes'[m] # None
               /\ nodes'[m].space = nodes[m].space /\ nodes'[m].parent = nodes[m].parent
               /\ nodes'[m].kind = nodes[m].kind /\ nodes'[m].by = nodes[m].by
               /\ nodes[m].trashed => nodes'[m] = nodes[m]
    <3>1. CASE m = n
      BY <2>1, <2>2, <2>3, <2>4, <3>1
    <3>2. CASE m # n
      BY <2>2, <2>4, <3>2
    <3> QED BY <3>1, <3>2
  <2> QED
    BY <2>2, <2>4 DEF Lasting
<1>3. ASSUME NEW a \in Accounts, NEW s \in Spaces, NEW rl \in Memberships,
             SetMembership(a, s, rl)
      PROVE  Lasting
  BY <1>3 DEF SetMembership, Lasting, TypeOK
<1>4. CASE Next
  <2>1. ASSUME NEW r \in Requests, NEW m \in Request, Talk(r, m) PROVE Lasting
    BY <1>1, <2>1 DEF Talk
  <2>2. ASSUME NEW r \in Requests, NEW shown \in SUBSET IDs, Shows(r, shown) PROVE Lasting
    BY <1>1, <2>2 DEF Shows
  <2>3. ASSUME NEW r \in Requests, UploadCreate(r) PROVE Lasting
    BY <1>1, <2>3 DEF UploadCreate
  <2> QED
    BY <1>2, <1>3, <1>4, <2>1, <2>2, <2>3, StepCases
<1> QED
  BY <1>1, <1>4 DEF vars

\* A request that is in order stays in order while others move.
LEMMA RequestStable ==
  ASSUME NEW l \in Request, RequestOK(l), Lasting
  PROVE  RequestOK(l)'
<1> SUFFICES ASSUME l.pc \notin {"idle", "done"} PROVE RequestOK(l)'
  BY DEF RequestOK
<1>1. /\ l.account \in Accounts /\ l.space \in Spaces
      /\ held[l.account][l.space] \subseteq held'[l.account][l.space]
  BY DEF RequestOK, Lasting
<1>2. l.pc = "ucreate" => /\ nodes'[l.node] # None /\ nodes'[l.node].kind = "file"
                          /\ nodes'[l.node].space = l.space
  BY DEF RequestOK, Lasting
<1> QED
  BY <1>1, <1>2 DEF RequestOK

-----------------------------------------------------------------------------
(* The inductive invariant. *)

LEMMA InitIInv == Init => IInv
<1> SUFFICES ASSUME Init PROVE IInv
  OBVIOUS
<1>1. TypeOK
  BY IdleType DEF Init, TypeOK
<1>2. RequestsOK
  BY IdleType DEF Init, RequestsOK, RequestOK
<1>3. RolesAreHeld /\ SeenExist /\ SeenByReaders /\ SessionsTargetFiles
  BY DEF Init, RolesAreHeld, SeenExist, SeenByReaders, SessionsTargetFiles
<1>4. ActiveNamesUnique /\ ParentsInSpace
  BY DEF Init, ActiveNamesUnique, ParentsInSpace
<1> QED
  BY <1>1, <1>2, <1>3, <1>4 DEF IInv

\* The types of what an answer carries: the nodes shown, or nothing when a
\* committed statement loses its answer.
LEMMA ReplyType ==
  ASSUME TypeOK, NEW r \in Requests, NEW shown \in SUBSET IDs,
         h[r].account \in Accounts, Reply(r, shown)
  PROVE  /\ h' \in [Requests -> Request] /\ h'[r].pc = "done"
         /\ \A q \in Requests \ {r} : h'[q] = h[q]
         /\ seen' \in [Accounts -> SUBSET IDs]
         /\ seen'[h[r].account] \subseteq seen[h[r].account] \cup shown
         /\ \A a \in Accounts \ {h[r].account} : seen'[a] = seen[a]
<1> DEFINE m(result) == [Idle EXCEPT !.pc = "done", !.result = result]
<1>1. /\ m("ok") \in Request /\ m("ok").pc = "done"
      /\ m("error") \in Request /\ m("error").pc = "done"
  BY DEF Idle, Request, Results
<1>2. h' = [h EXCEPT ![r] = m("ok")] \/ h' = [h EXCEPT ![r] = m("error")]
  BY DEF Reply, Send, Answer, Become
<1> HIDE DEF m
<1>3. \/ seen' = [seen EXCEPT ![h[r].account] = seen[h[r].account] \cup shown]
      \/ seen' = seen
  BY DEF Reply, Send
<1>4. /\ h' \in [Requests -> Request] /\ h'[r].pc = "done"
      /\ \A q \in Requests \ {r} : h'[q] = h[q]
  BY <1>1, <1>2 DEF TypeOK
<1>5. /\ seen' \in [Accounts -> SUBSET IDs]
      /\ seen'[h[r].account] \subseteq seen[h[r].account] \cup shown
      /\ \A a \in Accounts \ {h[r].account} : seen'[a] = seen[a]
  BY <1>3 DEF TypeOK
<1> QED
  BY <1>4, <1>5

\* A request in flight is in order.
LEMMA InFlightOK ==
  ASSUME TypeOK, RequestsOK, NEW r \in Requests, InFlight(r)
  PROVE  /\ h[r] \in Request /\ h[r].account \in Accounts /\ h[r].space \in Spaces
         /\ h[r].granted \in held[h[r].account][h[r].space]
BY DEF TypeOK, RequestsOK, RequestOK, InFlight

\* Types and the requests' own conditions are kept.
LEMMA RequestsStep ==
  ASSUME TypeOK, RolesAreHeld, RequestsOK, [Next]_vars
  PROVE  TypeOK' /\ RequestsOK' /\ RolesAreHeld'
<1>l. Lasting
  BY StepLasts
<1>s. ASSUME NEW l \in Request, RequestOK(l), NEW q \in Requests, h'[q] = l
      PROVE  RequestOK(h[q])'
  <2>1. RequestOK(l)'
    BY <1>l, <1>s, RequestStable
  <2> QED
    BY <1>s, <2>1 DEF RequestOK, Needs
<1>1. CASE UNCHANGED vars
  BY <1>1 DEF vars, TypeOK, RequestsOK, RequestOK, Needs, RolesAreHeld
<1>2. ASSUME NEW r \in Requests, NEW m \in Request, Talk(r, m), RequestOK(m)
      PROVE  TypeOK' /\ RequestsOK' /\ RolesAreHeld'
  <2>1. TypeOK' /\ RolesAreHeld'
    BY <1>2 DEF Talk, Become, TypeOK, RolesAreHeld
  <2>2. /\ h'[r] = m /\ \A q \in Requests \ {r} : h'[q] = h[q]
        /\ \A q \in Requests : h[q] \in Request /\ RequestOK(h[q])
    BY <1>2 DEF Talk, Become, TypeOK, RequestsOK
  <2>3. ASSUME NEW q \in Requests PROVE RequestOK(h[q])'
    BY <1>2, <1>s, <2>2
  <2> QED
    BY <2>1, <2>3 DEF RequestsOK
<1>3. ASSUME NEW r \in Requests, h'[r].pc = "done",
             \A q \in Requests \ {r} : h'[q] = h[q]
      PROVE  RequestsOK'
  <2>1. ASSUME NEW q \in Requests, q # r PROVE RequestOK(h[q])'
    BY <1>3, <1>s, <2>1 DEF TypeOK, RequestsOK
  <2>2. RequestOK(h[r])'
    BY <1>3 DEF RequestOK
  <2> QED
    BY <2>1, <2>2 DEF RequestsOK
<1>4. ASSUME NEW r \in Requests, NEW shown \in SUBSET IDs, Shows(r, shown)
      PROVE  TypeOK' /\ RequestsOK' /\ RolesAreHeld'
  <2>1. h[r].account \in Accounts /\ Reply(r, shown)
    BY <1>4, InFlightOK DEF Shows, Reply
  <2> QED
    BY <1>3, <1>4, <2>1, ReplyType DEF Shows, TypeOK, RolesAreHeld
<1>5. ASSUME NEW r \in Requests, NEW n \in IDs, NEW row \in Node, Writes(r, n, row)
      PROVE  TypeOK' /\ RequestsOK' /\ RolesAreHeld'
  <2>1. h[r].account \in Accounts /\ Reply(r, {n})
    BY <1>5, InFlightOK DEF Writes
  <2>2. nodes' \in [IDs -> Node \cup {None}]
    BY <1>5 DEF Writes, TypeOK
  <2> QED
    BY <1>3, <1>5, <2>1, <2>2, ReplyType DEF Writes, TypeOK, RolesAreHeld
<1>6. ASSUME NEW r \in Requests, UploadCreate(r)
      PROVE  TypeOK' /\ RequestsOK' /\ RolesAreHeld'
  <2>1. /\ h[r].account \in Accounts /\ h[r].space \in Spaces /\ h[r].node \in IDs
        /\ Reply(r, {h[r].node})
    BY <1>6 DEF UploadCreate, At, RequestsOK, RequestOK
  <2>2. sessions' \subseteq Session
    BY <1>6, <2>1 DEF UploadCreate, TypeOK, Session
  <2> QED
    BY <1>3, <1>6, <2>1, <2>2, ReplyType DEF UploadCreate, TypeOK, RolesAreHeld
<1>7. ASSUME NEW a \in Accounts, NEW s \in Spaces, NEW rl \in Memberships,
             SetMembership(a, s, rl)
      PROVE  TypeOK' /\ RequestsOK' /\ RolesAreHeld'
  <2>1. rl \in Roles \cup {None} /\ {rl} \ {None} \subseteq Roles
    BY ValuesAssumption
  <2>2. /\ role' = [role EXCEPT ![a][s] = rl]
        /\ held' = [held EXCEPT ![a][s] = held[a][s] \cup ({rl} \ {None})]
        /\ UNCHANGED <<nodes, sessions, h, seen>>
    BY <1>7 DEF SetMembership
  <2>3. TypeOK'
    BY <2>1, <2>2 DEF TypeOK
  <2>4. RolesAreHeld'
    BY <2>1, <2>2 DEF TypeOK, RolesAreHeld
  <2>5. RequestsOK'
    BY <1>s, <2>2 DEF TypeOK, RequestsOK
  <2> QED
    BY <2>3, <2>4, <2>5
<1>8. CASE Next
  BY <1>2, <1>4, <1>5, <1>6, <1>7, <1>8, StepCases
<1> QED
  BY <1>1, <1>8

\* The table's rows change by a write or not at all.
LEMMA TableStep ==
  ASSUME TypeOK, RolesAreHeld, RequestsOK, [Next]_vars
  PROVE  \/ nodes' = nodes
         \/ \E r \in Requests, n \in IDs, row \in Node : Writes(r, n, row)
<1>1. ASSUME NEW r \in Requests, NEW m \in Request, Talk(r, m) PROVE nodes' = nodes
  BY <1>1 DEF Talk
<1>2. ASSUME NEW r \in Requests, NEW shown \in SUBSET IDs, Shows(r, shown) PROVE nodes' = nodes
  BY <1>2 DEF Shows
<1>3. ASSUME NEW r \in Requests, UploadCreate(r) PROVE nodes' = nodes
  BY <1>3 DEF UploadCreate
<1>4. ASSUME NEW a \in Accounts, NEW s \in Spaces, NEW rl \in Memberships,
             SetMembership(a, s, rl)
      PROVE  nodes' = nodes
  BY <1>4 DEF SetMembership
<1>5. CASE Next
  BY <1>1, <1>2, <1>3, <1>4, <1>5, StepCases
<1> QED
  BY <1>5 DEF vars

\* A row written keeps names unique and parents in their Space.
LEMMA TableInvariants ==
  ASSUME TypeOK, RolesAreHeld, RequestsOK, ActiveNamesUnique, ParentsInSpace, [Next]_vars
  PROVE  ActiveNamesUnique' /\ ParentsInSpace'
<1>1. CASE nodes' = nodes
  BY <1>1 DEF ActiveNamesUnique, ParentsInSpace
<1>2. ASSUME NEW r \in Requests, NEW n \in IDs, NEW row \in Node, Writes(r, n, row)
      PROVE  ActiveNamesUnique' /\ ParentsInSpace'
  <2>1. /\ nodes'[n] = row /\ row # None
        /\ \A m \in IDs \ {n} : nodes'[m] = nodes[m]
    BY <1>2, NoneIsNothing DEF Writes, TypeOK
  <2>2. ASSUME NEW m \in IDs \ {n}, nodes'[m] # None, ~nodes'[m].trashed, ~nodes'[n].trashed,
               nodes'[m].space = nodes'[n].space, nodes'[m].parent = nodes'[n].parent,
               nodes'[m].name = nodes'[n].name
        PROVE  FALSE
    <3>1. nodes'[m].trashed = nodes'[n].trashed
      BY <2>1, <2>2 DEF TypeOK, Node
    <3> QED
      BY <1>2, <2>2, <3>1 DEF Writes, UniqueNames
  <2>3. ActiveNamesUnique'
    <3> SUFFICES ASSUME NEW i \in IDs, NEW j \in IDs,
                        nodes'[i] # None, ~nodes'[i].trashed,
                        nodes'[j] # None, ~nodes'[j].trashed,
                        nodes'[i].space = nodes'[j].space,
                        nodes'[i].parent = nodes'[j].parent,
                        nodes'[i].name = nodes'[j].name
                 PROVE  i = j
      BY DEF ActiveNamesUnique
    <3>1. CASE i # n /\ j # n
      BY <2>1, <3>1 DEF ActiveNamesUnique
    <3>2. CASE i = n
      BY <2>2, <3>2
    <3>3. CASE j = n
      BY <2>2, <3>3
    <3> QED
      BY <3>1, <3>2, <3>3
  <2>4. ASSUME NEW m \in IDs, nodes'[m] # None, nodes'[m].parent # None
        PROVE  /\ nodes'[nodes'[m].parent] # None
               /\ nodes'[nodes'[m].parent].space = nodes'[m].space
    <3>1. CASE m = n
      BY <1>2, <2>4, <3>1 DEF Writes, ForeignKeys
    <3>2. CASE m # n
      <4> DEFINE p == nodes[m].parent
      <4>1. nodes'[m] = nodes[m] /\ p \in IDs
        BY <2>1, <2>4, <3>2 DEF TypeOK, Node
      <4>2. nodes[p] # None /\ nodes[p].space = nodes[m].space
        BY <2>4, <4>1 DEF ParentsInSpace
      <4>3. Lasting
        BY StepLasts
      <4> QED
        BY <4>1, <4>2, <4>3 DEF Lasting
    <3> QED
      BY <3>1, <3>2
  <2> QED
    BY <2>3, <2>4 DEF ParentsInSpace
<1> QED
  BY <1>1, <1>2, TableStep

\* What accounts were sent stays theirs to see, and what a step adds is either
\* the account's own or in a Space where it has held a role that reads.
LEMMA SeenStep ==
  ASSUME TypeOK, RolesAreHeld, RequestsOK, SeenExist, SeenByReaders, [Next]_vars
  PROVE  SeenExist' /\ SeenByReaders'
<1> DEFINE Earned(a, n) == /\ nodes'[n] # None
                           /\ \/ nodes'[n].by = a
                              \/ \E rl \in held'[a][nodes'[n].space] : Allows(rl, "read")
<1>l. Lasting
  BY StepLasts
<1>e. ASSUME NEW a \in Accounts, NEW n \in IDs, n \in seen[a] PROVE Earned(a, n)
  <2>1. /\ nodes[n] # None /\ nodes[n].space \in Spaces
        /\ nodes[n].by = a \/ \E rl \in held[a][nodes[n].space] : Allows(rl, "read")
    BY <1>e DEF SeenExist, SeenByReaders, TypeOK, Node
  <2> QED
    BY <1>l, <2>1 DEF Lasting
<1>q. (\A a \in Accounts : \A n \in seen'[a] : Earned(a, n)) => SeenExist' /\ SeenByReaders'
  BY DEF SeenExist, SeenByReaders
<1>u. CASE seen' = seen
  BY <1>e, <1>q, <1>u DEF TypeOK
<1>s. ASSUME NEW r \in Requests, NEW shown \in SUBSET IDs, h[r].account \in Accounts,
             Reply(r, shown), \A n \in shown : Earned(h[r].account, n)
      PROVE  SeenExist' /\ SeenByReaders'
  <2>1. /\ seen'[h[r].account] \subseteq seen[h[r].account] \cup shown
        /\ \A a \in Accounts \ {h[r].account} : seen'[a] = seen[a]
        /\ \A a \in Accounts : seen[a] \subseteq IDs
    BY <1>s, ReplyType DEF TypeOK
  <2>2. \A a \in Accounts : \A n \in seen'[a] : Earned(a, n)
    BY <1>e, <1>s, <2>1
  <2> QED
    BY <1>q, <2>2
<1>g. ASSUME NEW r \in Requests, InFlight(r), Allows(h[r].granted, "read"), NEW n \in IDs,
             nodes'[n] # None, nodes'[n].space = h[r].space
      PROVE  Earned(h[r].account, n)
  <2>1. h[r].granted \in held'[h[r].account][h[r].space]
    BY <1>g, <1>l, InFlightOK DEF Lasting
  <2> QED
    BY <1>g, <2>1
<1> HIDE DEF Earned
<1>1. ASSUME NEW r \in Requests, NEW shown \in SUBSET IDs, Shows(r, shown)
      PROVE  SeenExist' /\ SeenByReaders'
  <2>1. \A n \in shown : Earned(h[r].account, n)
    BY <1>1, <1>g DEF Shows
  <2> QED
    BY <1>1, <1>s, <2>1, InFlightOK DEF Shows, Reply
<1>2. ASSUME NEW r \in Requests, NEW n \in IDs, NEW row \in Node, Writes(r, n, row)
      PROVE  SeenExist' /\ SeenByReaders'
  <2>1. nodes'[n] = row /\ row # None /\ InFlight(r) /\ row.space = h[r].space /\ Reply(r, {n})
    BY <1>2, NoneIsNothing DEF Writes, TypeOK
  <2>2. CASE row.by = h[r].account
    <3>1. Earned(h[r].account, n)
      BY <2>1, <2>2 DEF Earned
    <3> QED
      BY <1>s, <2>1, <3>1, InFlightOK
  <2>3. CASE Allows(h[r].granted, "update") \/ Allows(h[r].granted, "delete")
    <3>1. Earned(h[r].account, n)
      BY <1>g, <2>1, <2>3, WritersRead
    <3> QED
      BY <1>s, <2>1, <3>1, InFlightOK
  <2> QED
    BY <1>2, <2>2, <2>3 DEF Writes, Change
<1>3. ASSUME NEW r \in Requests, UploadCreate(r) PROVE SeenExist' /\ SeenByReaders'
  <2>1. /\ h[r].pc = "ucreate" /\ InFlight(r) /\ RequestOK(h[r])
        /\ nodes' = nodes /\ Reply(r, {h[r].node})
    BY <1>3 DEF UploadCreate, At, InFlight, RequestsOK
  <2>2. /\ h[r].node \in IDs /\ nodes'[h[r].node] # None
        /\ nodes'[h[r].node].space = h[r].space /\ Allows(h[r].granted, "read")
    BY <2>1 DEF RequestOK, Needs
  <2>3. Earned(h[r].account, h[r].node)
    BY <1>g, <2>1, <2>2
  <2> QED
    BY <1>s, <2>1, <2>2, <2>3, InFlightOK
<1>4. ASSUME NEW r \in Requests, NEW m \in Request, Talk(r, m) PROVE seen' = seen
  BY <1>4 DEF Talk
<1>5. ASSUME NEW a \in Accounts, NEW s \in Spaces, NEW rl \in Memberships,
             SetMembership(a, s, rl)
      PROVE  seen' = seen
  BY <1>5 DEF SetMembership
<1>6. CASE Next
  BY <1>u, <1>1, <1>2, <1>3, <1>4, <1>5, <1>6, StepCases
<1> QED
  BY <1>u, <1>6 DEF vars

\* A session is opened only past both checks and the read of the node, and what
\* was read of the node lasts.
LEMMA SessionsStep ==
  ASSUME TypeOK, RolesAreHeld, RequestsOK, SessionsTargetFiles, [Next]_vars
  PROVE  SessionsTargetFiles'
<1> DEFINE Sound(u) == /\ nodes'[u.node] # None /\ nodes'[u.node].kind = "file"
                       /\ nodes'[u.node].space = u.space
                       /\ \E rl \in held'[u.account][u.space] : Allows(rl, "create_file")
<1>l. Lasting
  BY StepLasts
<1>o. ASSUME NEW u \in sessions PROVE Sound(u)
  <2>1. u.node \in IDs /\ u.space \in Spaces /\ u.account \in Accounts
    BY DEF TypeOK, Session
  <2> QED
    BY <1>l, <2>1 DEF Lasting, SessionsTargetFiles
<1>u. CASE sessions' = sessions
  BY <1>o, <1>u DEF SessionsTargetFiles
<1>1. ASSUME NEW r \in Requests, UploadCreate(r) PROVE SessionsTargetFiles'
  <2> DEFINE new == [node |-> h[r].node, space |-> h[r].space, account |-> h[r].account]
  <2>1. h[r].pc = "ucreate" /\ RequestOK(h[r]) /\ nodes' = nodes /\ held' = held
    BY <1>1 DEF UploadCreate, At, RequestsOK
  <2>2. Sound(new)
    BY <2>1 DEF RequestOK
  <2>3. sessions' = sessions \cup {new}
    BY <1>1 DEF UploadCreate
  <2> HIDE DEF Sound, new
  <2>4. \A u \in sessions' : Sound(u)
    BY <1>o, <2>2, <2>3
  <2> QED
    BY <2>4 DEF SessionsTargetFiles, Sound
<1>2. ASSUME NEW r \in Requests, NEW m \in Request, Talk(r, m) PROVE sessions' = sessions
  BY <1>2 DEF Talk
<1>3. ASSUME NEW r \in Requests, NEW shown \in SUBSET IDs, Shows(r, shown)
      PROVE  sessions' = sessions
  BY <1>3 DEF Shows
<1>4. ASSUME NEW r \in Requests, NEW n \in IDs, NEW row \in Node, Writes(r, n, row)
      PROVE  sessions' = sessions
  BY <1>4 DEF Writes
<1>5. ASSUME NEW a \in Accounts, NEW s \in Spaces, NEW rl \in Memberships,
             SetMembership(a, s, rl)
      PROVE  sessions' = sessions
  BY <1>5 DEF SetMembership
<1>6. CASE Next
  BY <1>u, <1>1, <1>2, <1>3, <1>4, <1>5, <1>6, StepCases
<1> QED
  BY <1>u, <1>6 DEF vars

\* The inductive invariant holds in every reachable state.
THEOREM NodeTreeInvariant == Spec => []IInv
<1>1. IInv /\ [Next]_vars => IInv'
  BY RequestsStep, TableInvariants, SeenStep, SessionsStep DEF IInv
<1> QED
  BY <1>1, InitIInv, PTL DEF Spec

-----------------------------------------------------------------------------
(* The properties. *)

\* Requests, rows, memberships and sessions keep their types.
THEOREM NodeTreeTypeOK == Spec => []TypeOK
<1>1. IInv => TypeOK
  BY DEF IInv
<1> QED
  BY <1>1, NodeTreeInvariant, PTL

\* However many creations and renames overlap, the two partial unique indexes
\* leave no two active nodes of one folder, or of one Space's root, the same name.
THEOREM NamesUnique == Spec => []ActiveNamesUnique
<1>1. IInv => ActiveNamesUnique
  BY DEF IInv
<1> QED
  BY <1>1, NodeTreeInvariant, PTL

\* Walking up from a node never leaves its Space: the composite foreign key is
\* checked on every write, and no write moves a row that others hang from.
THEOREM TreeStaysInSpace == Spec => []ParentsInSpace
<1>1. IInv => ParentsInSpace
  BY DEF IInv
<1> QED
  BY <1>1, NodeTreeInvariant, PTL

\* Nobody is sent the metadata of a node it did not create in a Space where it
\* never held a role that reads, through listings, writes or uploads.
THEOREM OnlyReadersSee == Spec => []SeenByReaders
<1>1. IInv => SeenByReaders
  BY DEF IInv
<1> QED
  BY <1>1, NodeTreeInvariant, PTL

\* Every upload session that createUploadHandler opens belongs to a file of its
\* Space, for an account that was allowed to create files there.
THEOREM UploadsTargetFiles == Spec => []SessionsTargetFiles
<1>1. IInv => SessionsTargetFiles
  BY DEF IInv
<1> QED
  BY <1>1, NodeTreeInvariant, PTL

\* No statement of the store moves a node, changes its kind or its creator, or
\* touches it once it is trashed, also when it was authorized before.
THEOREM TrashFreezes == Spec => TrashedIsFrozen
<1>1. IInv /\ [Next]_vars =>
        [\A n \in IDs : nodes[n] # None =>
           /\ nodes'[n] # None
           /\ \A f \in {"space", "parent", "kind", "by"} : nodes'[n][f] = nodes[n][f]
           /\ nodes[n].trashed => nodes'[n] = nodes[n]]_vars
  <2>1. IInv /\ [Next]_vars => Lasting
    BY StepLasts DEF IInv
  <2> QED
    BY <2>1 DEF Lasting
<1> QED
  BY <1>1, NodeTreeInvariant, PTL DEF Spec, TrashedIsFrozen

\* Every change of a row is made by a request whose account held, when it was
\* checked, a role of that row's Space with the capability the change needs.
THEOREM GrantedChanges == Spec => ChangesAreGranted
<1> DEFINE Granted(n) ==
      \E r \in Requests :
        /\ InFlight(r) /\ h'[r].pc = "done"
        /\ h[r].space = nodes'[n].space
        /\ Allows(h[r].granted,
                  IF nodes[n] = None
                    THEN IF nodes'[n].kind = "folder" THEN "create_folder" ELSE "create_file"
                    ELSE IF nodes'[n].trashed # nodes[n].trashed THEN "delete" ELSE "update")
<1>1. ASSUME IInv, NEW r \in Requests, NEW n \in IDs, NEW row \in Node, Writes(r, n, row)
      PROVE  Granted(n) /\ \A m \in IDs \ {n} : nodes'[m] = nodes[m]
  <2>1. TypeOK /\ RequestsOK
    BY <1>1 DEF IInv
  <2>2. /\ nodes'[n] = row /\ \A m \in IDs \ {n} : nodes'[m] = nodes[m]
        /\ InFlight(r) /\ row.space = h[r].space
    BY <1>1, <2>1 DEF Writes, TypeOK
  <2>3. h'[r].pc = "done"
    BY <1>1, <2>1, <2>2, InFlightOK, ReplyType DEF Writes
  <2>4. CASE nodes[n] = None /\ Allows(h[r].granted, CreateAction(row.kind))
    BY <2>2, <2>3, <2>4 DEF CreateAction
  <2>5. CASE nodes[n] # None /\ ~nodes[n].trashed /\ ~row.trashed
             /\ Allows(h[r].granted, "update")
    <3>1. nodes'[n].trashed = nodes[n].trashed
      BY <2>1, <2>2, <2>5 DEF TypeOK, Node
    <3> QED
      BY <2>2, <2>3, <2>5, <3>1
  <2>6. CASE nodes[n] # None /\ ~nodes[n].trashed /\ row.trashed
             /\ Allows(h[r].granted, "delete")
    BY <2>2, <2>3, <2>6
  <2> QED
    BY <1>1, <2>4, <2>5, <2>6 DEF Writes, Change
<1>2. IInv /\ [Next]_vars => [\A n \in IDs : nodes'[n] # nodes[n] => Granted(n)]_vars
  <2> HIDE DEF Granted
  <2> SUFFICES ASSUME IInv, [Next]_vars, NEW n \in IDs, nodes'[n] # nodes[n]
               PROVE  Granted(n)
    OBVIOUS
  <2>1. PICK r \in Requests, m \in IDs, row \in Node : Writes(r, m, row)
    BY TableStep DEF IInv
  <2> QED
    BY <1>1, <2>1
<1> QED
  BY <1>2, NodeTreeInvariant, PTL DEF Spec, ChangesAreGranted

=============================================================================
