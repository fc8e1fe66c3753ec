------------------------------ MODULE EventAcl ------------------------------
(***************************************************************************)
(* Authorization by event: two watchers, for clients and for users, keep   *)
(* copies of ACL records that live in unicorn, a tree with subscriptions.  *)
(* A watcher subscribes to the children of its scope and to every child it *)
(* hears of; callbacks of different subscriptions come in any order.       *)
(* Unicorn is outside of this repository: a subscription tells the current *)
(* state and later ones in order, perhaps skipping some, also when there   *)
(* is no node, until its scope object is destroyed.                        *)
(***************************************************************************)
EXTENDS Naturals, Sequences

CONSTANTS
  Subjects,       \* ids in the tree, each under one scope
  Scope,          \* subject -> "cids" or "uids"
  Methods,        \* names of events
  MaxEdits        \* bound on the changes of the tree

Scopes == {"cids", "uids"}

ASSUME AclAssumption == Scope \in [Subjects -> Scopes] /\ MaxEdits \in Nat

VARIABLES
  tree,           \* subject -> record: <<>>, or a kind and its methods
  misnamed,       \* scopes with a child that is not a number
  edits,
  acl,            \* subject -> set of methods; subjects without one are absent
  observer,       \* the scopes are subscribed to
  observers,      \* subjects that are subscribed to
  names_told,     \* scope -> the children last told
  names,          \* scope -> callbacks of children_subscribe() to come
  node_told,      \* subject -> the record last told
  nodes           \* subject -> callbacks of subscribe() to come

aclVars == <<tree, misnamed, edits, acl, observer, observers, names_told, names, node_told, nodes>>

NoNode == <<>>
Record(methods) == <<"events", methods>>
Garbage == <<"garbage">>
Unknown == <<"unknown">>

Children(scope) ==
  [subjects |-> {s \in Subjects : Scope[s] = scope /\ tree[s] # NoNode}, odd |-> scope \in misnamed]

\* The constructor of enabled_t ends with update().
AclInit ==
  /\ tree = [s \in Subjects |-> NoNode] /\ misnamed = {} /\ edits = 0
  /\ acl = [s \in {} |-> {}]
  /\ observer = TRUE /\ observers = {}
  /\ names_told = [c \in Scopes |-> Unknown] /\ names = [c \in Scopes |-> <<>>]
  /\ node_told = [s \in Subjects |-> Unknown] /\ nodes = [s \in Subjects |-> <<>>]

\* Unicorn: the tree is changed,
Edit(s, record) ==
  /\ edits < MaxEdits /\ tree[s] # record
  /\ tree' = [tree EXCEPT ![s] = record] /\ edits' = edits + 1
  /\ UNCHANGED <<misnamed, acl, observer, observers, names_told, names, node_told, nodes>>
Misname(scope) ==
  /\ edits < MaxEdits
  /\ misnamed' = IF scope \in misnamed THEN misnamed \ {scope} ELSE misnamed \cup {scope}
  /\ edits' = edits + 1
  /\ UNCHANGED <<tree, acl, observer, observers, names_told, names, node_told, nodes>>
\* and subscribers are told.
TellNames(scope) ==
  /\ observer /\ <<"names", Children(scope)>> # names_told[scope]
  /\ names_told' = [names_told EXCEPT ![scope] = <<"names", Children(scope)>>]
  /\ names' = [names EXCEPT ![scope] = Append(@, Children(scope))]
  /\ UNCHANGED <<tree, misnamed, edits, acl, observer, observers, node_told, nodes>>
TellNode(s) ==
  /\ s \in observers /\ node_told[s] # tree[s]
  /\ node_told' = [node_told EXCEPT ![s] = tree[s]]
  /\ nodes' = [nodes EXCEPT ![s] = Append(@, tree[s])]
  /\ UNCHANGED <<tree, misnamed, edits, acl, observer, observers, names_told, names>>

\* on_change(): one child that is not a number spoils the whole list.  A
\* subject that has a record keeps it, one that is observed stays so by the
\* older subscription.
OnChange(scope) ==
  /\ names[scope] # <<>>
  /\ LET list == Head(names[scope])
         fresh == IF list.odd THEN {} ELSE list.subjects
     IN  /\ acl' = [s \in DOMAIN acl \cup fresh |-> IF s \in DOMAIN acl THEN acl[s] ELSE {}]
         /\ observers' = observers \cup fresh
  /\ names' = [names EXCEPT ![scope] = Tail(@)]
  /\ UNCHANGED <<tree, misnamed, edits, observer, names_told, node_told, nodes>>

\* Mutant: a record that is gone is an error like any other.
OnUpdateKeeping(s) ==
  /\ nodes[s] # <<>>
  /\ LET record == Head(nodes[s])
     IN  acl' = IF record \in {NoNode, Garbage} THEN acl
                ELSE [t \in DOMAIN acl \cup {s} |-> IF t = s THEN record[2] ELSE acl[t]]
  /\ nodes' = [nodes EXCEPT ![s] = Tail(@)]
  /\ UNCHANGED <<tree, misnamed, edits, observer, observers, names_told, names, node_told>>

\* on_update(): a record that cannot be converted leaves the old one.
OnUpdate(s) ==
  /\ nodes[s] # <<>>
  /\ LET record == Head(nodes[s])
     IN  acl' = IF record = NoNode THEN [t \in DOMAIN acl \ {s} |-> acl[t]]
                ELSE IF record = Garbage THEN acl
                ELSE [t \in DOMAIN acl \cup {s} |-> IF t = s THEN record[2] ELSE acl[t]]
  /\ nodes' = [nodes EXCEPT ![s] = Tail(@)]
  /\ UNCHANGED <<tree, misnamed, edits, observer, observers, names_told, names, node_told>>

\* cancel()
Cancel ==
  /\ observer
  /\ observer' = FALSE /\ observers' = {}
  /\ names' = [c \in Scopes |-> <<>>] /\ nodes' = [s \in Subjects |-> <<>>]
  /\ UNCHANGED <<tree, misnamed, edits, acl, names_told, node_told>>

AclNext ==
  \/ \E s \in Subjects, record \in {NoNode, Garbage} \cup {Record(e) : e \in SUBSET Methods} : Edit(s, record)
  \/ \E c \in Scopes : Misname(c) \/ TellNames(c) \/ OnChange(c)
  \/ \E s \in Subjects : TellNode(s) \/ OnUpdate(s)
  \/ Cancel

AclSpec == AclInit /\ [][AclNext]_aclVars

\* watcher::allowed_for()
AllowedFor(subjects, event) ==
  subjects # {} /\ \A s \in subjects : s \in DOMAIN acl /\ event \in acl[s]

\* control_t::ensure()
Ensure(event, who) ==
  LET of(scope) == {s \in who : Scope[s] = scope}
  IN  IF who = {} THEN "unauthorized"
      ELSE IF AllowedFor(of("cids"), event) \/ AllowedFor(of("uids"), event) THEN "ok"
      ELSE "permission_denied"

-----------------------------------------------------------------------------
Settled ==
  /\ observer /\ misnamed = {}
  /\ \A c \in Scopes : names[c] = <<>> /\ names_told[c] = <<"names", Children(c)>>
  /\ \A s \in Subjects : nodes[s] = <<>> /\ (s \in observers => node_told[s] = tree[s])

\* Once the callbacks are through, an identity is let through for an event
\* exactly if the records in the tree allow it to all of its clients or to
\* all of its users, whatever was added, changed, removed, spoiled and
\* repaired on the way; a record that is garbage leaves its subject open.
AclFollowsTree ==
  Settled =>
    \A event \in Methods, who \in SUBSET {s \in Subjects : tree[s] # Garbage} :
      LET granted(scope) ==
            LET ids == {s \in who : Scope[s] = scope}
            IN  ids # {} /\ \A s \in ids : tree[s] # NoNode /\ event \in tree[s][2]
      IN  /\ Ensure(event, who) = "ok" <=> \E c \in Scopes : granted(c)
          /\ Ensure(event, who) = "unauthorized" <=> who = {}
=============================================================================
